------------------------------- MODULE LogTail -------------------------------
(***************************************************************************)
(* _tail_file_to_websocket of gui/routes/logs.py: a browser follows        *)
(* LOG_FILE while the server appends to it and an operator rotates it.     *)
(*                                                                         *)
(* A line is its number, in the order the server logged them; all lines    *)
(* count the same towards sizes and positions, and are appended whole.     *)
(* Followers only read and share nothing, so the module has one. Its steps *)
(* end at its awaits. Between stat and read there is none: what another    *)
(* process may do there amounts to doing it before or after the poll.      *)
(***************************************************************************)
EXTENDS Naturals, Sequences

CONSTANTS
    HelloLines,     \* max_lines of the first tail
    TailWindows,    \* numbers of lines that _TAIL_BYTES may hold
    BatchLines,     \* _WS_MAX_LINES_PER_TICK
    MaxLines,       \* bound: lines ever logged
    MaxFiles        \* bound: files ever created at the path

ASSUME TailAssumption ==
    /\ {HelloLines, BatchLines, MaxLines, MaxFiles} \subseteq Nat \ {0}
    /\ TailWindows \subseteq Nat \ {0}

VARIABLES
    file,           \* file[i]: the lines in the i-th file that was created
    path,           \* the file that LOG_FILE names, or NoFile
    writer,         \* the file that the server's FileHandler has open
    logged,         \* number of lines logged so far
    step,           \* where the follower is
    fh, pos,        \* the file it has open, and its position there
    queue,          \* lines read and not yet sent
    sent,           \* lines sent to the browser
    gone,           \* the browser has disconnected
    past            \* history: what may explain a missing line

logVars == <<file, path, writer, logged>>
followerVars == <<step, fh, pos, queue, sent, gone>>
vars == <<file, path, writer, logged, step, fh, pos, queue, sent, gone, past>>

NoFile == 0
Files == 1 .. MaxFiles
Steps == {"away", "accepted", "tail", "follow", "ended"}

\* rotated: LOG_FILE was renamed or truncated since the first tail was read;
\* raced: lines were appended before the file was opened; cut: a batch was.
Explanations == [rotated : BOOLEAN, raced : BOOLEAN, cut : BOOLEAN]
Unexplained == [rotated |-> FALSE, raced |-> FALSE, cut |-> FALSE]

TypeOK ==
    /\ file \in Seq(Seq(1 .. MaxLines)) /\ Len(file) <= MaxFiles
    /\ path \in {NoFile} \union DOMAIN file
    /\ writer \in DOMAIN file
    /\ logged \in 0 .. MaxLines
    /\ step \in Steps
    /\ fh \in {NoFile} \union DOMAIN file
    /\ pos \in 0 .. MaxLines
    /\ queue \in Seq(1 .. MaxLines)
    /\ Len(queue) <= (IF step = "tail" THEN HelloLines ELSE BatchLines)
    /\ sent \in Seq(1 .. MaxLines)
    /\ gone \in BOOLEAN
    /\ past \in Explanations

-------------------------------------------------------------------------------
Size(i) == Len(file[i])

From(lines, p) == SubSeq(lines, p + 1, Len(lines))
Newest(lines, n) == From(lines, IF Len(lines) > n THEN Len(lines) - n ELSE 0)
Oldest(lines, n) == SubSeq(lines, 1, IF Len(lines) < n THEN Len(lines) ELSE n)

\* _read_tail_lines with room for w lines: the first one may be half a line.
HelloTail(lines, w) ==
    Newest(IF Len(lines) > w THEN From(Newest(lines, w), 1) ELSE lines, HelloLines)

Init ==
    /\ file = << << >> >>
    /\ path = 1 /\ writer = 1 /\ logged = 0
    /\ step = "away" /\ fh = NoFile /\ pos = 0
    /\ queue = << >> /\ sent = << >> /\ gone = FALSE
    /\ past = Unexplained

-------------------------------------------------------------------------------
(* The server that logs, and the operator *)

Log ==
    /\ logged < MaxLines
    /\ logged' = logged + 1
    /\ file' = [file EXCEPT ![writer] = Append(@, logged + 1)]
    /\ UNCHANGED <<path, writer, followerVars, past>>

\* The server restarts: its FileHandler opens LOG_FILE for appending.
Reopen ==
    /\ \/ path # NoFile /\ path' = path /\ file' = file
       \/ /\ path = NoFile
          /\ Len(file) < MaxFiles
          /\ file' = Append(file, << >>)
          /\ path' = Len(file) + 1
    /\ writer' = path'
    /\ UNCHANGED <<logged, followerVars, past>>

\* Log rotation by copying the file and truncating it ...
CopyTruncate ==
    /\ path # NoFile
    /\ Size(path) > 0
    /\ file' = [file EXCEPT ![path] = << >>]
    /\ past' = [past EXCEPT !.rotated = TRUE]
    /\ UNCHANGED <<path, writer, logged, followerVars>>

\* ... by renaming it ...
Rename ==
    /\ path # NoFile
    /\ path' = NoFile
    /\ past' = [past EXCEPT !.rotated = TRUE]
    /\ UNCHANGED <<file, writer, logged, followerVars>>

\* ... and possibly creating an empty one, which the server does not write to
\* before it restarts.
Create ==
    /\ path = NoFile
    /\ Len(file) < MaxFiles
    /\ file' = Append(file, << >>)
    /\ path' = Len(file) + 1
    /\ UNCHANGED <<writer, logged, followerVars, past>>

-------------------------------------------------------------------------------
(* The follower *)

\* logs_ws: refused without a session, without LOG_FILE or without the file.
Connect ==
    /\ step = "away"
    /\ step' \in (IF path = NoFile THEN {"ended"} ELSE {"accepted", "ended"})
    /\ UNCHANGED <<logVars, fh, pos, queue, sent, gone, past>>

\* After the hello frame: the first tail, and from here on nothing should be missed.
ReadTail ==
    /\ step = "accepted"
    /\ \E w \in TailWindows :
          queue' = IF path = NoFile THEN << >> ELSE HelloTail(file[path], w)
    /\ pos' = IF path = NoFile THEN 0 ELSE Size(path)
    /\ step' = "tail"
    /\ past' = Unexplained
    /\ UNCHANGED <<logVars, fh, sent, gone>>

SendThenSkip ==                     \* mutant: seeks to the end after each batch
    /\ queue # << >>
    /\ ~gone
    /\ sent' = Append(sent, Head(queue))
    /\ queue' = From(queue, 1)
    /\ pos' = IF Len(queue) = 1 /\ step = "follow" THEN Size(fh) ELSE pos
    /\ UNCHANGED <<logVars, step, fh, gone, past>>

\* One frame: one await.
Send ==
    /\ queue # << >>
    /\ ~gone
    /\ sent' = Append(sent, Head(queue))
    /\ queue' = From(queue, 1)
    /\ UNCHANGED <<logVars, step, fh, pos, gone, past>>

\* A frame for a browser that has gone raises WebSocketDisconnect; nothing else
\* tells the follower.
SendFails ==
    /\ step = "accepted" \/ queue # << >>
    /\ gone
    /\ step' = "ended"
    /\ queue' = << >>
    /\ UNCHANGED <<logVars, fh, pos, sent, gone, past>>

OpenAtStart ==                      \* mutant: fh.seek(0, SEEK_END) left out
    /\ step = "tail" /\ queue = << >> /\ path # NoFile
    /\ fh' = path /\ pos' = 0 /\ step' = "follow"
    /\ past' = [past EXCEPT !.raced = Size(path) # pos]
    /\ UNCHANGED <<logVars, queue, sent, gone>>

\* The tail is sent: open the file and seek to its end.
Open ==
    /\ step = "tail"
    /\ queue = << >>
    /\ \/ /\ path = NoFile
          /\ step' = "ended"
          /\ UNCHANGED <<fh, pos, past>>
       \/ /\ path # NoFile
          /\ fh' = path
          /\ pos' = Size(path)
          /\ step' = "follow"
          /\ past' = [past EXCEPT !.raced = Size(path) # pos]
    /\ UNCHANGED <<logVars, queue, sent, gone>>

ReadUncapped(i, p) ==               \* mutant: no cap on a batch
    /\ fh' = i
    /\ pos' = Size(i)
    /\ queue' = From(file[i], p)
    /\ past' = [past EXCEPT !.cut = @ \/ Size(i) > p + BatchLines]

\* Everything behind position p of file i is read, its first BatchLines lines sent.
ReadNew(i, p) ==
    /\ fh' = i
    /\ pos' = IF Size(i) > p THEN Size(i) ELSE p
    /\ queue' = Oldest(From(file[i], p), BatchLines)
    /\ past' = [past EXCEPT !.cut = @ \/ Size(i) > p + BatchLines]

PollRewinding ==                    \* mutant: seeks to 0, does not open again
    /\ step = "follow" /\ queue = << >> /\ path # NoFile
    /\ ReadNew(fh, IF Size(path) < pos THEN 0 ELSE pos)
    /\ UNCHANGED <<logVars, step, sent, gone>>

PollTruncatedOnly ==                \* mutant: only an empty file counts as a new one
    /\ step = "follow" /\ queue = << >> /\ path # NoFile
    /\ IF Size(path) = 0 /\ pos > 0 THEN ReadNew(path, 0) ELSE ReadNew(fh, pos)
    /\ UNCHANGED <<logVars, step, sent, gone>>

\* Poll: a path that names a shorter file is opened again. While it names none the
\* follower sleeps, as it does when there is nothing new.
Poll ==
    /\ step = "follow"
    /\ queue = << >>
    /\ path # NoFile
    /\ IF Size(path) < pos THEN ReadNew(path, 0) ELSE ReadNew(fh, pos)
    /\ UNCHANGED <<logVars, step, sent, gone>>

Disconnect ==
    /\ step \notin {"away", "ended"}
    /\ ~gone
    /\ gone' = TRUE
    /\ UNCHANGED <<logVars, step, fh, pos, queue, sent, past>>

Follow == ReadTail \/ Send \/ SendFails \/ Open \/ Poll

Next ==
    \/ Log \/ Reopen \/ CopyTruncate \/ Rename \/ Create
    \/ Connect \/ Disconnect
    \/ Follow

\* The event loop runs a task that can run: a follower never stops by itself.
Spec == Init /\ [][Next]_vars /\ WF_vars(Follow)

-------------------------------------------------------------------------------
(* Properties *)

Unread == IF step = "follow" THEN From(file[fh], pos) ELSE << >>
Stream == sent \o queue
Received(n) == \E i \in DOMAIN sent : sent[i] = n

\* Whatever is rotated, truncated or restarted when, no line is sent twice or after a
\* later one: going back to the start of a file (logs.py:157-161) is always going to
\* newer lines.
StreamInOrder == \A i, j \in DOMAIN Stream : i < j => Stream[i] < Stream[j]

\* With no rotation, no burst above _WS_MAX_LINES_PER_TICK, and no line logged while
\* the first tail was being sent, the browser is sent a run of lines without a gap:
\* the first tail, all later ones, and those it has not been sent yet.
StreamContiguous ==
    step \in {"tail", "follow"} /\ past = Unexplained
        => LET lines == Stream \o Unread
           IN  \A i \in DOMAIN lines : i > 1 => lines[i] = lines[i - 1] + 1

\* docs/gui-guide.md:74: the page "streams new log lines from LOG_FILE as they're
\* written". A line appended to the file that is being followed reaches a browser that
\* stays, unless the file is rotated or a batch is cut.
CatchesUp ==
    \A n \in 1 .. MaxLines :
        (step = "follow" /\ \E i \in DOMAIN Unread : Unread[i] = n)
            ~> (Received(n) \/ gone \/ past.rotated \/ past.cut)

\* logs.py:148-149: a rotation is noticed. A follower of a renamed file goes over to
\* the new one, unless that has grown past its position before the next poll.
NoticesRotation ==
    (step = "follow" /\ path # NoFile /\ path # fh)
        ~> (fh = path \/ path = NoFile \/ Size(path) >= pos \/ gone)
===============================================================================
