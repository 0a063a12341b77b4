------------------------------ MODULE StreamFile ------------------------------
(***************************************************************************)
(* What the user of a stream over stored bytes is promised: bytes and a    *)
(* place in them, and for every call op (its name, its arguments and what  *)
(* it returned) what it does to both.  The promise ends when sound does.   *)
(***************************************************************************)
EXTENDS Integers, Sequences

VARIABLES
  data, pos,
  room,   \* bytes there may be: none can be written to what is open for reading
  op, sound

Left == IF pos < Len(data) THEN Len(data) - pos ELSE 0

\* What the call got are the bytes at the place, and nothing else changes but the
\* place.
Take ==
  /\ Len(op'.got) <= Left /\ op'.got = SubSeq(data, pos + 1, pos + Len(op'.got))
  /\ UNCHANGED data

\* The place moves past what was handed out; nothing is handed out only at the end.
Read ==
  /\ op'.name \in {"read", "line"}
  /\ Take /\ pos' = pos + Len(op'.got)
  /\ op'.got = <<>> => Left = 0
  /\ op'.name = "read" => Len(op'.got) <= op'.arg

\* It also moves past a delimiter that is really there, and past nothing else.
Record ==
  /\ op'.name = "record"
  /\ Take /\ Len(op'.got) <= op'.arg
  /\ \E d \in {<<>>, op'.bytes} :
       /\ pos' = pos + Len(op'.got) + Len(d)
       /\ Len(op'.got) + Len(d) <= Left /\ d = SubSeq(data, pos' - Len(d) + 1, pos')
  /\ ~op'.ok => pos' = pos

\* What a copy was asked for: arg bytes, or for 0 all, of those there are.
Wanted == IF op'.arg = 0 \/ Left < op'.arg THEN Left ELSE op'.arg

\* A copy that succeeds has moved all it was asked for.  Otherwise the destination
\* was full: what it did not take of the bytes asked for may be lost.
Copy ==
  /\ op'.name = "copy" /\ Take
  /\ Len(op'.got) <= Wanted
  /\ IF op'.ok THEN Len(op'.got) = Wanted /\ pos' = pos + Wanted
     ELSE pos' \in pos + Len(op'.got)..pos + Wanted

\* The first len bytes of the text are put at the place, which moves past them: all
\* of the text unless the device is full.
Write ==
  /\ op'.name = "write" /\ op'.got = <<>>
  /\ op'.len \in 0..Len(op'.bytes)
  /\ op'.len < Len(op'.bytes) => pos + Len(op'.bytes) > room
  /\ pos' = pos + op'.len
  /\ IF op'.len = 0 THEN UNCHANGED data
     ELSE data' = [k \in 1..(IF pos' > Len(data) THEN pos' ELSE Len(data)) |->
                     IF k > pos /\ k <= pos' THEN op'.bytes[k - pos]
                     ELSE IF k <= Len(data) THEN data[k] ELSE "0"]

Target ==
  CASE op'.whence = "SET" -> op'.arg
    [] op'.whence = "CUR" -> pos + op'.arg
    [] op'.whence = "END" -> Len(data) + op'.arg

\* The place is the one asked for, or the seek is refused: then it is where it was,
\* or at the end when a stream that can only be read looked for a place behind it.
Seek ==
  /\ op'.name = "seek" /\ op'.got = <<>> /\ UNCHANGED data
  /\ IF op'.ok THEN pos' = Target
     ELSE \/ pos' = pos
          \/ op'.whence = "CUR" /\ Target > Len(data) /\ pos' = Len(data)

Resize ==
  /\ op'.name = "truncate" /\ op'.got = <<>> /\ UNCHANGED pos
  /\ data' = [k \in 1..op'.arg |-> IF k <= Len(data) THEN data[k] ELSE "0"]

\* Options and casts are about how bytes are fetched.
Arrange == op'.name \in {"option", "cast"} /\ op'.got = <<>> /\ UNCHANGED <<data, pos>>

Init == pos = 0 /\ op.name = "open" /\ op.got = <<>> /\ sound = TRUE

Next ==
  sound' = FALSE \/ (UNCHANGED <<room, sound>> /\
    (Read \/ Record \/ Copy \/ Write \/ Seek \/ Resize \/ Arrange))

Spec == Init /\ [][Next]_<<data, pos, room, op, sound>>
=============================================================================
