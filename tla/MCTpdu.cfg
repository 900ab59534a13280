SPECIFICATION Spec
CONSTANTS Message <- MCMessage
          Leftover <- MCLeftover
INVARIANTS TypeOK LengthIsExact OkIsWhole ReadAsWritten TextInItsAlphabet
