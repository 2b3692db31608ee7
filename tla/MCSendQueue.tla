---------------------------- MODULE MCSendQueue ----------------------------
(***************************************************************************)
(* SendQueue on small instances: the rows, their numbers, batches and due  *)
(* order for each configuration.                                           *)
(***************************************************************************)
EXTENDS SendQueue

\* One group row of one number.
OneRow == {"j"}
OneNumber == {"s"}
OneSessionOf == [j \in OneRow |-> "s"]
OneLoteOf == [j \in OneRow |-> "auto"]
OneTurn == [j \in OneRow |-> 1]

\* A welcome, two automatic rows of one batch and a manual row, one number.
LaneRows == {"hello", "a1", "a2", "m"}
LaneSessionOf == [j \in LaneRows |-> "s"]
LaneLoteOf == [j \in LaneRows |-> CASE j = "hello" -> "welcome"
                                    [] j = "m" -> "manual"
                                    [] OTHER -> "auto"]
LaneTurn == [j \in LaneRows |-> CASE j = "a1" -> 1 [] j = "a2" -> 2
                                  [] j = "hello" -> 3 [] j = "m" -> 4]

\* One automatic row for each of two numbers of one account.
TwoRows == {"j", "k"}
TwoNumbers == {"s", "r"}
TwoSessionOf == [j \in TwoRows |-> IF j = "j" THEN "s" ELSE "r"]
TwoLoteOf == [j \in TwoRows |-> "auto"]
TwoTurn == [j \in TwoRows |-> 1]

OneAccountOf == [s \in Session |-> "account"]

=============================================================================
