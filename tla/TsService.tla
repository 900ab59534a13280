----------------------------- MODULE TsService -----------------------------
(***************************************************************************)
(* What wms_ts_encode and wms_ts_decode promise to their callers: a call   *)
(* takes a job and, some time later, returns a reply that is a function of *)
(* that job alone.  Nothing of the implementation (the mutex, the file     *)
(* static buffers) is visible here.                                        *)
(***************************************************************************)
CONSTANTS Thread,      \* the threads of the program that use the codec
          Job,         \* what a caller may ask for
          NoJob,       \* the value of request[t] while t is not in a call
          NoReply,     \* the value of reply[t] before the first return
          Answer(_)    \* the reply a job gets when it runs alone

VARIABLES request, reply

vars == <<request, reply>>

Init == /\ request = [t \in Thread |-> NoJob]
        /\ reply = [t \in Thread |-> NoReply]

Call(t, j) == /\ request[t] = NoJob
              /\ request' = [request EXCEPT ![t] = j]
              /\ UNCHANGED reply

Return(t) == /\ request[t] # NoJob
             /\ request' = [request EXCEPT ![t] = NoJob]
             /\ reply' = [reply EXCEPT ![t] = Answer(request[t])]

Next == \E t \in Thread : Return(t) \/ \E j \in Job : Call(t, j)

SafeSpec == Init /\ [][Next]_vars
Spec == SafeSpec /\ \A t \in Thread : WF_vars(Return(t))
=============================================================================
