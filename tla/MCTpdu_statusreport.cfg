SPECIFICATION Spec
CONSTANTS Message <- MCMessage
          Leftover <- MCLeftover
INVARIANT StatusReportIsNoDeliver
