------------------------------ MODULE QueryFactory ------------------------------
(***************************************************************************)
(* QueryFactory in one thread: the thread_local BufInfo, a string that     *)
(* grows by one part at a time and is sent to the database as one query.   *)
(* A part that does not fit is cut off by the print function; the buffer   *)
(* is then doubled and the part printed again at the old position.         *)
(*                                                                         *)
(* A character is the name of what it belongs to.                          *)
(***************************************************************************)
EXTENDS Naturals, Sequences

CONSTANTS
  INITIAL_SIZE,
  Lengths        \* bound: lengths of what the caller formats

ASSUME QueryAssumption == INITIAL_SIZE \in Nat \ {0} /\ Lengths \subseteq Nat

VARIABLES
  text,      \* the string in pBuf, without its NUL
  nextPos,   \* as an offset into pBuf
  size,
  todo,      \* the parts the current MAKE_ call has still to print
  made       \* history: the parts printed since the last Clear, in one

queryVars == <<text, nextPos, size, todo, made>>

QueryInit ==
    /\ size = INITIAL_SIZE /\ nextPos = 0
    /\ text = <<>> /\ todo = <<>> /\ made = <<>>

-------------------------------------------------------------------------------
\* The parts of each call, in the order it prints them.
Text(what, length) == [k \in 1 .. length |-> what]

ConclusionQueryPart(bEnd) == IF bEnd THEN Text(";", 1) ELSE Text(" ", 1)

\* bEnd is the format string itself, which is not null.
MAKE_QUERY(str) == <<Text("query", str), ConclusionQueryPart(TRUE)>>

MAKE_SELECT_FROM(names, condition) ==
    <<Text("select", names)>>
      \o (IF condition = 0 THEN <<>> ELSE <<Text("where", 1), Text("condition", condition)>>)
      \o <<ConclusionQueryPart(TRUE)>>

MAKE_UPDATE_SET(bEnd, names, set) ==
    <<Text("update", names), Text("set", set), ConclusionQueryPart(bEnd)>>

MAKE_WHERE(bEnd, condition) ==
    <<Text("where", 1), Text("condition", condition), ConclusionQueryPart(bEnd)>>

MAKE_INSERT_INTO(bEnd, names, columns) ==
    <<Text("insert", names), Text("columns", columns), Text(")", 1), ConclusionQueryPart(bEnd)>>

-------------------------------------------------------------------------------
Make(parts) ==
    /\ todo = <<>>
    /\ todo' = parts
    /\ UNCHANGED <<text, nextPos, size, made>>

\* GetRemainSize counts the place of the NUL.
GetRemainSize == size - nextPos

\* Mutation: printing goes on behind what was printed of the part.
ResizeToEnd ==
    /\ size' = 2 * size
    /\ nextPos' = size - 1

\* The string is copied into a new buffer, nextPos keeps its offset.
Resize ==
    /\ size' = 2 * size
    /\ UNCHANGED nextPos

\* StringCch(V)PrintfExA of the next part, and ASSERT_INSUF_BUFFER: as much as fits is
\* written behind nextPos; then nextPos moves, or the buffer grows for another try.
PrintPart ==
    /\ todo # <<>>
    /\ LET part == Head(todo)
           upTo(n) == SubSeq(text, 1, nextPos) \o SubSeq(part, 1, n)
       IN  IF Len(part) < GetRemainSize
           THEN /\ text' = upTo(Len(part))
                /\ nextPos' = nextPos + Len(part)
                /\ todo' = Tail(todo)
                /\ made' = made \o part
                /\ UNCHANGED size
           ELSE /\ text' = upTo(GetRemainSize - 1)
                /\ Resize
                /\ UNCHANGED <<todo, made>>

\* ExecuteReadQuery and ExcuteWriteQuery send pBuf and Clear, whether or not the query
\* succeeded.  The next part overwrites the old string from its start on; it is
\* taken as gone.
Execute ==
    /\ todo = <<>> /\ made # <<>>
    /\ nextPos' = 0
    /\ text' = <<>> /\ made' = <<>>
    /\ UNCHANGED <<size, todo>>

-------------------------------------------------------------------------------
\* A query is the parts it was made of, in order and each of them once, however often
\* the buffer had to grow on the way; there is always room for the NUL.
QueryExact ==
    /\ Len(text) < size
    /\ SubSeq(text, 1, nextPos) = made
    /\ todo = <<>> => text = made

===============================================================================
