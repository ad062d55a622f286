-------------------------- MODULE TransactionBlock --------------------------
(***************************************************************************)
(* What a transaction block promises, whatever reclaims its context: the   *)
(* tables change only when a whole block is committed, with all it has     *)
(* written and nothing else, and the answer tells whether it was.          *)
(***************************************************************************)
CONSTANTS Call, Row, Value, NoRow, Unwritten,
          MayBeLate  \* may a block whose caller was told Err be committed?

VARIABLES
  db,       \* the committed rows
  writes,   \* what each block has written and may still commit
  block,    \* what has become of each block
  spoiled,  \* the blocks some statement of which answered with an error
  answer    \* what each caller was told

vars == <<db, writes, block, spoiled, answer>>

Empty == [r \in Row |-> Unwritten]

Init ==
  /\ db \in [Row -> Value \cup {NoRow}]
  /\ writes = [t \in Call |-> Empty]
  /\ block = [t \in Call |-> "open"]
  /\ spoiled = {}
  /\ answer = [t \in Call |-> "none"]

Only(t, f, v) == f' = [f EXCEPT ![t] = v]

Write(t) ==
  /\ block[t] = "open"
  /\ \E w \in [Row -> Value \cup {Unwritten}] : Only(t, writes, w)
  /\ UNCHANGED <<db, block, spoiled, answer>>

\* The block is over and is to be committed: from here on nothing is added to it.
Close(t) ==
  /\ block[t] = "open"
  /\ Only(t, block, "closed")
  /\ UNCHANGED <<db, writes, spoiled, answer>>

Commit(t) ==
  /\ block[t] = "closed"
  /\ answer[t] = "none" \/ (MayBeLate /\ answer[t] = "err")
  /\ db' = [r \in Row |-> IF writes[t][r] = Unwritten THEN db[r] ELSE writes[t][r]]
  /\ Only(t, block, "committed")
  /\ Only(t, writes, Empty)
  /\ UNCHANGED <<spoiled, answer>>

Undo(t) ==
  /\ block[t] \in {"open", "closed", "aborted"}
  /\ Only(t, block, "aborted")
  /\ Only(t, writes, Empty)
  /\ UNCHANGED db

Abort(t) == Undo(t) /\ spoiled' \in {spoiled, spoiled \cup {t}} /\ UNCHANGED answer

AnswerOk(t) ==
  /\ block[t] = "committed" \/ (block[t] = "aborted" /\ t \in spoiled)
  /\ answer[t] = "none"
  /\ Only(t, answer, "ok")
  /\ UNCHANGED <<db, writes, block, spoiled>>

AnswerErr(t) ==
  /\ Undo(t) \/ (MayBeLate /\ UNCHANGED <<db, writes, block>>)
  /\ answer[t] = "none"
  /\ Only(t, answer, "err")
  /\ UNCHANGED spoiled

Next ==
  \E t \in Call :
    Write(t) \/ Close(t) \/ Commit(t) \/ Abort(t) \/ AnswerOk(t) \/ AnswerErr(t)

Spec == Init /\ [][Next]_vars
=============================================================================
