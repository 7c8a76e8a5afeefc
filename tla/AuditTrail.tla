------------------------------ MODULE AuditTrail ------------------------------
(***************************************************************************)
(* AuditLog of observability/audit.py and the two pages that read its file *)
(* (gui/routes/admin.py, gui/routes/dashboard.py): records are appended to *)
(* audit.log, which the logging library rotates through audit.log.1 ...    *)
(* audit.log.N; the server may be killed between any two steps of that,    *)
(* and a write may fail, wholly or half way.                               *)
(*                                                                         *)
(* A record is its number. A rename or removal of a file is one step; the  *)
(* pages read the active file in one, since what they have open is not     *)
(* written to any more once it is renamed.                                 *)
(***************************************************************************)
EXTENDS Integers, Sequences, SequencesExt

CONSTANTS
    Kinds,          \* what a record may be: its tool, its success and its size
    RotateBytes,    \* values of AUDIT_ROTATE_BYTES, 0 for no rotation
    RotateKeep,     \* values of AUDIT_ROTATE_KEEP
    PageLimit,      \* limit of the admin page
    RecentLines,    \* n of the dashboard
    Dates,          \* bounds a filter may set, as numbers of records
    MaxRecords      \* bound: records ever made

ASSUME AuditAssumption ==
    /\ Kinds \subseteq [tool : STRING, success : BOOLEAN, size : Nat \ {0}]
    /\ RotateBytes \subseteq Nat
    /\ RotateKeep \subseteq Int
    /\ {PageLimit, RecentLines, MaxRecords} \subseteq Nat \ {0}
    /\ Dates \subseteq Nat
    /\ \A k \in Kinds, b \in RotateBytes \ {0} : k.size < b  \* no file is a single record

VARIABLES
    rotateBytes,    \* the configured rotate_bytes
    rotateKeep,     \* the configured rotate_keep
    gen,            \* gen[i]: the lines of audit.log.i, gen[0] those of audit.log
    made,           \* made[n]: the kind of the n-th record
    server,         \* what the process that records is doing
    written,        \* history: the records that were written whole
    interrupted     \* history: the server was killed while it rotated the files

trailVars == <<rotateBytes, rotateKeep, gen, made, server, written, interrupted>>

KeepOneLess == IF rotateKeep > 0 THEN rotateKeep - 1 ELSE 0   \* mutant: the active one counts

\* backupCount = max(0, rotate_keep)
Keep == IF rotateKeep > 0 THEN rotateKeep ELSE 0

\* A line holds the record it ends with; it is readable unless half a record is on it.
Line == [record : 1 .. MaxRecords, size : Nat, readable : BOOLEAN, ended : BOOLEAN]
WholeLine(n, size) == [record |-> n, size |-> size, readable |-> TRUE, ended |-> TRUE]
HalfLine(n, size) == [record |-> n, size |-> size, readable |-> FALSE, ended |-> FALSE]

Down == [does |-> "nothing"]
Ready == [does |-> "serves"]
Rolling(i) == [does |-> "rotates", from |-> i]

Servers == {Down, Ready} \union [does : {"rotates"}, from : Int]

TrailTypeOK ==
    /\ rotateBytes \in RotateBytes
    /\ rotateKeep \in RotateKeep
    /\ DOMAIN gen \subseteq 0 .. Keep
    /\ \A i \in DOMAIN gen : gen[i] \in Seq(Line)
    /\ made \in Seq(Kinds) /\ Len(made) <= MaxRecords
    /\ server \in Servers
    /\ server.does = "rotates" => server.from \in -1 .. Keep - 1
    /\ server = Ready => 0 \in DOMAIN gen
    /\ written \subseteq 1 .. MaxRecords
    /\ interrupted \in BOOLEAN

-------------------------------------------------------------------------------
(* Files *)

SizeOf(lines) == FoldLeft(LAMBDA sum, line : sum + line.size, 0, lines)

Without(i) == [j \in DOMAIN gen \ {i} |-> gen[j]]

\* Opening audit.log for writing, and for appending.
OpenedNew == [i \in DOMAIN gen \union {0} |-> IF i = 0 THEN << >> ELSE gen[i]]
Opened == IF 0 \in DOMAIN gen THEN gen ELSE OpenedNew

\* A line appended behind half a line makes one unreadable line of both, which counts
\* for the size of one.
Clean(lines) == lines = << >> \/ Last(lines).ended

Appended(lines, line) ==
    IF Clean(lines) THEN Append(lines, line)
    ELSE Append(Front(lines), [line EXCEPT !.readable = FALSE])

TrailInit ==
    /\ rotateBytes \in RotateBytes
    /\ rotateKeep \in RotateKeep
    /\ gen = [i \in {0} |-> << >>]
    /\ made = << >>
    /\ server = Ready
    /\ written = {}
    /\ interrupted = FALSE

-------------------------------------------------------------------------------
(* One call of AuditLog.record, as far as its file *)

\* The library's emit: the line is written, or not at all or half of it when the disk
\* is full, which the caller is not told.
Emit(files, n, size) ==
    /\ server' = Ready
    /\ \/ /\ gen' = [files EXCEPT ![0] = Appended(@, WholeLine(n, size))]
          /\ written' = IF Clean(files[0]) THEN written \union {n} ELSE written
       \/ gen' = files /\ UNCHANGED written
       \/ gen' = [files EXCEPT ![0] = Appended(@, HalfLine(n, size))] /\ UNCHANGED written

RotatesAt(size) == rotateBytes > 0 /\ SizeOf(gen[0]) + size >= rotateBytes

Record(k) ==
    /\ server = Ready
    /\ Len(made) < MaxRecords
    /\ made' = Append(made, k)
    /\ IF RotatesAt(k.size)
       THEN server' = Rolling(Keep - 1) /\ UNCHANGED <<gen, written>>
       ELSE Emit(gen, Len(made) + 1, k.size)
    /\ UNCHANGED <<rotateBytes, rotateKeep, interrupted>>

\* The library's doRollover: audit.log.i becomes audit.log.i+1, oldest first, in place
\* of one that is there.
Rotate ==
    /\ server.does = "rotates"
    /\ LET i == server.from
       IN  /\ i >= 0
           /\ \/ /\ {i, i + 1} \subseteq DOMAIN gen
                 /\ gen' = Without(i + 1)
                 /\ server' = server
              \/ /\ i \in DOMAIN gen /\ i + 1 \notin DOMAIN gen
                 /\ gen' = [j \in (DOMAIN gen \ {i}) \union {i + 1} |->
                               IF j = i + 1 THEN gen[i] ELSE gen[j]]
                 /\ server' = Rolling(i - 1)
              \/ /\ i \notin DOMAIN gen
                 /\ gen' = gen
                 /\ server' = Rolling(i - 1)
    /\ UNCHANGED <<rotateBytes, rotateKeep, made, written, interrupted>>

\* audit.log is opened again, and the record that caused the rotation goes into it.
EndRotation ==
    /\ server.does = "rotates"
    /\ server.from < 0
    /\ Emit(Opened, Len(made), made[Len(made)].size)
    /\ UNCHANGED <<rotateBytes, rotateKeep, made, interrupted>>

\* The server is killed; what it has written is in the files.
Kill ==
    /\ server # Down
    /\ server' = Down
    /\ interrupted' = (interrupted \/ server.does = "rotates")
    /\ UNCHANGED <<rotateBytes, rotateKeep, gen, made, written>>

StartAnew ==                        \* mutant: mode "w"
    /\ server = Down
    /\ server' = Ready
    /\ gen' = OpenedNew
    /\ UNCHANGED <<rotateBytes, rotateKeep, made, written, interrupted>>

StartLazily ==                      \* mutant: delay=True
    /\ server = Down
    /\ server' = Ready
    /\ UNCHANGED <<rotateBytes, rotateKeep, gen, made, written, interrupted>>

\* _configure_handler of the next process, with the same configuration.
Start ==
    /\ server = Down
    /\ server' = Ready
    /\ gen' = Opened
    /\ UNCHANGED <<rotateBytes, rotateKeep, made, written, interrupted>>

TrailNext ==
    \/ \E k \in Kinds : Record(k)
    \/ Rotate \/ EndRotation \/ Kill \/ Start

TrailSpec == TrailInit /\ [][TrailNext]_trailVars

-------------------------------------------------------------------------------
(* The pages *)

Filters == [tool : {k.tool : k \in Kinds} \union {""}, failuresOnly : BOOLEAN,
            from : Dates \union {0}, to : Dates \union {MaxRecords}]

\* _read_audit_records' conditions, and _record_in_range with both ends inclusive. The
\* dates are numbers of records: the clock is assumed not to go back.
Matches(n, f) ==
    /\ f.tool = "" \/ made[n].tool = f.tool
    /\ f.failuresOnly => ~made[n].success
    /\ f.from <= n /\ n <= f.to

Active == IF 0 \in DOMAIN gen THEN gen[0] ELSE << >>

OldestFirst(f) ==                   \* mutant: the limit is reached from the old end
    LET shown == SelectSeq(Active, LAMBDA l : l.readable /\ Matches(l.record, f))
    IN  SubSeq(shown, 1, IF Len(shown) < PageLimit THEN Len(shown) ELSE PageLimit)

\* The places of the lines that a loop from the last line to the n-th last one keeps:
\* those in `wanted`, until there are `limit`.
Places(lines, wanted, n, limit) ==
    LET places[k \in 0 .. n] ==
            IF k = 0 THEN << >>
            ELSE LET before == places[k - 1]
                     l == Len(lines) + 1 - k
                 IN  IF l \in wanted /\ Len(before) < limit THEN Append(before, l) ELSE before
    IN  places[n]

LinesAt(lines, places) == [i \in DOMAIN places |-> lines[places[i]]]

Wanted(f) == {l \in DOMAIN Active : Active[l].readable /\ Matches(Active[l].record, f)}
Readable == {l \in DOMAIN Active : Active[l].readable}

\* _read_audit_records: newest first, the unreadable left out, up to the limit.
AdminPage(f) == LinesAt(Active, Places(Active, Wanted(f), Len(Active), PageLimit))

\* _read_recent_audit_records: of the last n lines those that can be read, turned round.
Dashboard ==
    LET n == IF Len(Active) < RecentLines THEN Len(Active) ELSE RecentLines
    IN  LinesAt(Active, Places(Active, Readable, n, n))

-------------------------------------------------------------------------------
(* Properties *)

\* Record n can be read from line l of file i, from some line.
Reads(i, l, n) == gen[i][l].readable /\ gen[i][l].record = n
Kept(n) == \E i \in DOMAIN gen : \E l \in DOMAIN gen[i] : Reads(i, l, n)

\* docs/observability.md:61-62: "the oldest record is in audit.log.5, the newest in
\* audit.log". However often the server is killed, also between the renames of a
\* rotation, and whatever writes fail, the files read from the oldest to audit.log hold
\* a run of the records that were written, in order and up to the latest: a record is
\* only ever lost after all older ones.
TrailContiguous ==
    /\ \A i \in DOMAIN gen : \A l, m \in DOMAIN gen[i] :
          l < m /\ gen[i][l].readable /\ gen[i][m].readable => gen[i][l].record < gen[i][m].record
    /\ \A i, j \in DOMAIN gen : j < i =>
          \A l \in DOMAIN gen[i], m \in DOMAIN gen[j] :
             gen[i][l].readable /\ gen[j][m].readable => gen[i][l].record < gen[j][m].record
    /\ \A n \in 1 .. MaxRecords : Kept(n) => n \in written
    /\ \A m, n \in written : m < n /\ Kept(m) => Kept(n)

\* docs/security.md:103-105: the rotated files "give you" N times the size "before the
\* oldest record falls off the back". A record falls off only when each of the N rotated
\* files is there and full up to the record that did not fit, unless the server was
\* killed while it rotated.
Full(lines) == \E k \in Kinds : SizeOf(lines) + k.size >= rotateBytes

RetentionFloor ==
    ~interrupted /\ server = Ready /\ (\E n \in written : ~Kept(n))
        => \A i \in 1 .. rotateKeep : i \in DOMAIN gen /\ Full(gen[i])

\* Of the given records, those newer than one shown are shown as well, newest first.
NewestOf(lines, records) ==
    /\ \A i, j \in DOMAIN lines : i < j => lines[i].record > lines[j].record
    /\ \A i \in DOMAIN lines : lines[i].record \in records
    /\ \A i \in DOMAIN lines, n \in records :
          n > lines[i].record => \E j \in DOMAIN lines : lines[j].record = n

\* docs/gui-guide.md:26, observability.md:51-53: the pages show the newest records that
\* match the filter, and the latest is on the admin page as soon as its call is answered,
\* even if its file has just been begun.
ViewIsNewest ==
    /\ \A f \in Filters :
        LET matching == {n \in written : Matches(n, f)}
        IN  /\ NewestOf(AdminPage(f), matching)
            /\ server = Ready /\ Len(made) \in matching => AdminPage(f) # << >>
    /\ NewestOf(Dashboard, written)
===============================================================================
