----------------------------- MODULE StdinReader ----------------------------
(***************************************************************************)
(* client.socket.readstdin: a thread of the process reads standard input,  *)
(* cuts it into lines and puts them into a ring; any number of Lua states  *)
(* take lines out.  The ring and its flags are guarded by one mutex, so a  *)
(* critical section is one step; the thread is joined outside the mutex.   *)
(*                                                                         *)
(* A byte of the input is its position, and newlines is the set of the     *)
(* positions that hold a line feed.  A line is the range of its bytes      *)
(* without the line feed (trailing carriage returns are stripped like      *)
(* it).  How many bytes one uv_fs_read returns makes no difference: the    *)
(* line being collected outlives the buffer.                               *)
(***************************************************************************)
EXTENDS Integers, Sequences

CONSTANTS Callers,         \* threads that call readstdin
          RING_SIZE,       \* 1024
          LINE_CAPACITY,   \* sizeof(line) - 1, 1023
          MaxBytes         \* bound on the length of the input

ASSUME StdinAssumption ==
  /\ RING_SIZE \in Nat \ {0, 1} /\ LINE_CAPACITY \in Nat \ {0} /\ MaxBytes \in Nat

Line == [from : 1 .. MaxBytes + 1, to : 0 .. MaxBytes]

NULL == [from |-> 0, to |-> 0]

VARIABLES lines, head, tail,      \* the ring
          started, joined, eof, failed, overflow, finished,
          init_error,             \* whether initialize fails
          newlines,               \* the input
          thread,                 \* the reading thread
          read, start,            \* bytes read, first byte of the line being collected
          at, answer,             \* where each caller is, and what its last call returned
          collected, delivered,   \* all lines handed to queue_line; all lines returned, in order
          joins                   \* calls of uv_thread_join

ringVars == <<lines, head, tail, overflow, failed>>
threadVars == <<thread, read, start, collected, eof, finished>>
callVars == <<started, joined, at, answer, delivered, joins>>
vars == <<ringVars, threadVars, callVars, init_error, newlines>>

Init ==
  /\ lines = [i \in 0 .. RING_SIZE - 1 |-> NULL]
  /\ head = 0 /\ tail = 0
  /\ started = FALSE /\ joined = FALSE /\ finished = FALSE
  /\ eof = FALSE /\ failed = FALSE /\ overflow = FALSE
  /\ init_error \in BOOLEAN
  /\ newlines \in SUBSET (1 .. MaxBytes)
  /\ thread = "none"
  /\ read = 0 /\ start = 1
  /\ at = [c \in Callers |-> "idle"]
  /\ answer = [c \in Callers |-> "none"]
  /\ collected = {} /\ delivered = << >>
  /\ joins = 0
-----------------------------------------------------------------------------
\* The reading thread.  queue_line strips the line feed and copies the line; the
\* copy may fail, and the ring may be full.
Stripped(last) == [from |-> start, to |-> IF last \in newlines THEN last - 1 ELSE last]

queue_line_overwrites(line) ==
  /\ collected' = collected \cup {line}
  /\ \/ failed' = TRUE /\ UNCHANGED <<lines, head, tail, overflow>>
     \/ /\ lines' = [lines EXCEPT ![tail] = line]
        /\ tail' = (tail + 1) % RING_SIZE
        /\ UNCHANGED <<head, overflow, failed>>

queue_line_silent(line) ==
  /\ collected' = collected \cup {line}
  /\ LET next == (tail + 1) % RING_SIZE IN
     \/ failed' = TRUE /\ UNCHANGED <<lines, head, tail, overflow>>
     \/ next = head /\ UNCHANGED ringVars
     \/ /\ next # head
        /\ lines' = [lines EXCEPT ![tail] = line]
        /\ tail' = next
        /\ UNCHANGED <<head, overflow, failed>>

queue_line(line) ==
  /\ collected' = collected \cup {line}
  /\ LET next == (tail + 1) % RING_SIZE IN
     \/ failed' = TRUE /\ UNCHANGED <<lines, head, tail, overflow>>
     \/ /\ next = head
        /\ overflow' = TRUE
        /\ UNCHANGED <<lines, head, tail, failed>>
     \/ /\ next # head
        /\ lines' = [lines EXCEPT ![tail] = line]
        /\ tail' = next
        /\ UNCHANGED <<head, overflow, failed>>

\* One byte: a line ends with a line feed or when its buffer is full.
EndsLine_late(last) == last \in newlines \/ last - start = LINE_CAPACITY

EndsLine(last) == last \in newlines \/ last - start + 1 = LINE_CAPACITY

ReadByte ==
  /\ thread = "reading" /\ read < MaxBytes
  /\ read' = read + 1
  /\ IF EndsLine(read')
     THEN queue_line(Stripped(read')) /\ start' = read' + 1
     ELSE UNCHANGED <<ringVars, start, collected>>
  /\ UNCHANGED <<thread, eof, finished, callVars, init_error, newlines>>

\* uv_fs_read returns 0 or an error; what was collected is the last line.
EndInput ==
  /\ thread = "reading"
  /\ thread' \in {"eof", "error"}
  /\ IF start <= read THEN queue_line(Stripped(read)) ELSE UNCHANGED <<ringVars, collected>>
  /\ start' = read + 1
  /\ UNCHANGED <<read, eof, finished, callVars, init_error, newlines>>

Finish ==
  /\ thread \in {"eof", "error"}
  /\ eof' = (thread = "eof")
  /\ failed' = (failed \/ thread = "error")
  /\ finished' = TRUE
  /\ thread' = "returning"
  /\ UNCHANGED <<lines, head, tail, overflow, read, start, collected, callVars, init_error,
                 newlines>>

ThreadReturns ==
  /\ thread = "returning"
  /\ thread' = "gone"
  /\ UNCHANGED <<ringVars, read, start, collected, eof, finished, callVars, init_error, newlines>>
-----------------------------------------------------------------------------
\* skyuv_client_readstdin: one critical section, and then the join if the thread
\* has finished and nobody has joined it.
TakeLine ==
  IF head # tail
  THEN /\ delivered' = Append(delivered, lines[head])
       /\ lines' = [lines EXCEPT ![head] = NULL]
       /\ head' = (head + 1) % RING_SIZE
  ELSE UNCHANGED <<delivered, lines, head>>

Answer ==
  IF head # tail THEN "line"
  ELSE IF overflow THEN "overflow"
  ELSE IF failed' THEN "error"
  ELSE IF eof THEN "eof" ELSE "nothing"

MustJoin_running == ~joined /\ started

MustJoin == ~joined /\ finished

readstdin_joins_again(c) ==
  /\ at[c] = "idle" /\ ~init_error
  /\ \E created \in IF started THEN {TRUE} ELSE BOOLEAN :
        /\ thread' = IF ~started /\ created THEN "reading" ELSE thread
        /\ failed' = (failed \/ ~created)
        /\ joined' = (joined \/ ~created)
  /\ started' = TRUE
  /\ TakeLine
  /\ answer' = [answer EXCEPT ![c] = Answer]
  /\ at' = [at EXCEPT ![c] = IF MustJoin THEN "joining" ELSE "idle"]
  /\ UNCHANGED <<tail, overflow, read, start, collected, eof, finished, joins, init_error,
                 newlines>>

\* The first call starts the thread, which may fail.  joined is set before the
\* mutex is released.
readstdin(c) ==
  /\ at[c] = "idle" /\ ~init_error
  /\ \E created \in IF started THEN {TRUE} ELSE BOOLEAN :
        /\ thread' = IF ~started /\ created THEN "reading" ELSE thread
        /\ failed' = (failed \/ ~created)
        /\ joined' = (joined \/ ~created \/ MustJoin)
  /\ started' = TRUE
  /\ TakeLine
  /\ answer' = [answer EXCEPT ![c] = Answer]
  /\ at' = [at EXCEPT ![c] = IF MustJoin THEN "joining" ELSE "idle"]
  /\ UNCHANGED <<tail, overflow, read, start, collected, eof, finished, joins, init_error,
                 newlines>>

JoinThread(c) ==
  /\ at[c] = "joining" /\ thread = "gone"
  /\ joins' = joins + 1
  /\ at' = [at EXCEPT ![c] = "idle"]
  /\ UNCHANGED <<ringVars, threadVars, started, joined, answer, delivered, init_error, newlines>>

\* initialize failed once for all: every call raises an error.
Raise(c) ==
  /\ at[c] = "idle" /\ init_error
  /\ answer' = [answer EXCEPT ![c] = "raised"]
  /\ UNCHANGED <<ringVars, threadVars, started, joined, at, delivered, joins, init_error, newlines>>
-----------------------------------------------------------------------------
Next ==
  \/ ReadByte \/ EndInput \/ Finish \/ ThreadReturns
  \/ \E c \in Callers : readstdin(c) \/ JoinThread(c) \/ Raise(c)

\* The thread goes on once the input has ended, and a caller inside a call goes on;
\* input need not come and nobody has to call.
Fairness ==
  /\ WF_vars(Finish \/ ThreadReturns)
  /\ \A c \in Callers : WF_vars(JoinThread(c))

Spec == Init /\ [][Next]_vars /\ Fairness
-----------------------------------------------------------------------------
\* The lines in the ring, from head to tail.
Waiting == [i \in 1 .. (tail - head) % RING_SIZE |-> lines[(head + i - 1) % RING_SIZE]]

\* The ring, its two indices and its flags implement the queue of LineQueue: lines
\* come out in order, and one is dropped with overflow set only when RING_SIZE - 1
\* lines are waiting (queue_line, readstdin).
Abstract == INSTANCE LineQueue WITH
  CAPACITY <- RING_SIZE - 1, pending <- Waiting, ended <- finished

RingIsLineQueue == Abstract!Spec

\* The lines a text should be cut into.  A line starts behind a line feed, or a
\* multiple of LINE_CAPACITY bytes further on, and extends to the next line feed,
\* the end of the text, or as far as the buffer reaches.
LineStart(n) ==
  \E feed \in newlines \cup {0} :
     /\ feed < n /\ (feed + 1 .. n - 1) \cap newlines = {}
     /\ (n - 1 - feed) % LINE_CAPACITY = 0

Reference(n) ==
  {l \in Line :
     /\ l.from <= n /\ l.to \in l.from - 1 .. n
     /\ LineStart(l.from)
     /\ (l.from .. l.to) \cap newlines = {}
     /\ l.to - l.from + 1 <= LINE_CAPACITY
     /\ l.to = n \/ l.to - l.from + 1 = LINE_CAPACITY \/ l.to + 1 \in newlines}

\* read_input cuts the input as Reference says, wherever reads and lines end: no
\* byte is lost or repeated at the end of a read or of a full buffer.
CutAsReference == collected = Reference(start - 1)

\* readstdin answers "eof" only when every line of the input has been returned.
EofIsFinal ==
  \A c \in Callers : answer[c] = "eof" =>
     /\ head = tail /\ thread \in {"returning", "gone"}
     /\ {delivered[i] : i \in 1 .. Len(delivered)} = Reference(read)

\* The thread is joined at most once, however many callers see that it has finished
\* (a second uv_thread_join is undefined), and only if it was created.
JoinedOnce ==
  /\ joins <= 1
  /\ \A c \in Callers : at[c] = "joining" =>
        joins = 0 /\ \A d \in Callers : at[d] = "joining" => d = c
  /\ thread = "none" => joins = 0

\* readstdin does not block: a caller that joins the thread returns, although the
\* input may stay silent for ever.
JoinReturns == \A c \in Callers : at[c] = "joining" ~> at[c] = "idle"
=============================================================================
