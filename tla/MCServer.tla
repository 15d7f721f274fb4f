------------------------------ MODULE MCServer ------------------------------
(***************************************************************************)
(* Server on captures of a few samples: out of order in the file, several  *)
(* at one time, values that come back, exceptions, responses that are no   *)
(* answer, identity in pages, several targets, a file that cannot be       *)
(* served.                                                                 *)
(***************************************************************************)
EXTENDS Server

Fifo0 == [fc |-> 24, arg |-> 0]
Fifo1 == [fc |-> 24, arg |-> 1]
Status == [fc |-> 7, arg |-> 0]
MCRequests == {Fifo0, Fifo1, Status}

Block(at, target, fc, start, values) ==
  [at |-> at, target |-> target, exception |-> FALSE, fc |-> fc, start |-> start, values |-> values]
Page(at, target, conf, objects) ==
  [at |-> at, target |-> target, exception |-> FALSE, fc |-> Identity, conf |-> conf, objects |-> objects]
Other(at, target, req, resp) ==
  [at |-> at, target |-> target, exception |-> FALSE, fc |-> req.fc, req |-> req, resp |-> resp]
Failed(s) == [s EXCEPT !.exception = TRUE]

Reads == {1, 2, 3, 4, 7, 24, 43}
File(samples, targets, end) ==
  [samples |-> samples, targets |-> targets, end |-> end, supported |-> Reads]

MCCaptures ==
  { File(<<Block(1, 1, 3, 0, <<5, 6>>), Block(4, 1, 3, 1, <<7, 8>>), Block(2, 1, 3, 0, <<6, 6>>),
           Block(3, 1, 3, 0, <<5, 9>>), Failed(Block(3, 1, 3, 0, <<1, 1>>)),
           Page(1, 1, 1, [name |-> "x"]), Page(3, 1, 2, [version |-> "y"]), Page(4, 1, 2, [name |-> "z"]),
           Other(1, 1, Fifo0, "a"), Other(2, 1, Fifo0, "short"), Other(3, 1, Fifo0, "a")>>,
         1 :> 1, 5),
    File(<<Block(2, 1, 3, 1, <<5>>), Block(2, 1, 3, 1, <<6>>), Block(2, 2, 1, 0, <<0, 1>>),
           Other(3, 2, Fifo0, "inconsistent")>>,
         (1 :> 1 @@ 2 :> 2), -1),
    File(<<Block(2, 1, 3, 0, <<5>>), Block(1, 2, 3, 0, <<6>>)>>, (1 :> 1 @@ 2 :> 1), 3),
    File(<<[Block(2, 1, 3, 0, <<5>>) EXCEPT !.fc = 16]>>, 1 :> 1, 3) }

Play(from, num, den, loops) == [from |-> from, num |-> num, den |-> den, loops |-> loops]
Choose(target, unit) == [target |-> target, unit |-> unit]
Plays == {Play(3, 0, 1, 0), Play(0, 1, 1, 2), Play(1, 3, 2, 0), Play(2, 1, 2, 1), Play(9, 1, 1, 1)}
Reply(missing, before) == [missing |-> missing, before |-> before]
Answers == {Reply(m, b) : m \in {"exception", "zero", "silence"}, b \in {"hold", "absent"}}

MCConfigs ==
  {p @@ Choose(0, 0) @@ Reply("exception", "absent") : p \in Plays}
    \cup {Play(1, 3, 2, 0) @@ Choose(0, 0) @@ a : a \in Answers}
    \cup {Play(1, 3, 2, 0) @@ c @@ Reply("zero", "absent") : c \in {Choose(1, 2), Choose(0, 2), Choose(3, 0)}}

Ask(unit, fc, start, qty) == [unit |-> unit, fc |-> fc, start |-> start, qty |-> qty, refused |-> "none"]
AskOther(unit, req, refused) == [unit |-> unit, fc |-> req.fc, req |-> req, refused |-> refused]
MCAsked ==
  { Ask(1, 3, 0, 3), Ask(1, 3, 1, 1), Ask(2, 1, 0, 2), Ask(1, 4, 0, 1),
    AskOther(1, Fifo0, "none"), AskOther(2, Fifo0, "none"), AskOther(1, Status, "none"),
    AskOther(1, Fifo1, "IllegalDataValue"), [unit |-> 1, fc |-> Identity, refused |-> "none"] }

MCObjects == {"name", "version"}
MCClients == {"one", "two"}
=============================================================================
