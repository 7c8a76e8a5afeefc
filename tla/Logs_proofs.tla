----------------------------- MODULE Logs_proofs -----------------------------
(***************************************************************************)
(* What LogTail and AuditTrail keep for every number of lines, records,    *)
(* files and bytes: a follower of LOG_FILE is sent each line at most once, *)
(* in order and, when nothing explains it, without a gap; the audit files  *)
(* hold a run of the records and lose one from the back only when full,    *)
(* and the pages show the latest of them.                                  *)
(***************************************************************************)
EXTENDS LogTail, AuditTrail, TLAPS, SequenceTheorems, WellFoundedInduction

-------------------------------------------------------------------------------
(* LogTail: the files *)

Lines == 1 .. MaxLines

\* LOG_FILE names the latest file or none.
PathIsNewest == path \in {NoFile, Len(file)}

\* A file that has been created since the server last opened LOG_FILE is empty.
NothingAhead == \A i \in DOMAIN file : i > writer => file[i] = << >>

\* Each file holds a run of lines.
Runs ==
    \A i \in DOMAIN file : \A k \in DOMAIN file[i] :
        /\ file[i][k] = file[i][1] + k - 1
        /\ file[i][k] <= logged

\* What the server writes to ends with what it logged last, unless it was truncated since.
UpToDate == file[writer] # << >> => file[writer][Size(writer)] = logged

\* A file that was created later holds later lines.
FilesInOrder ==
    \A i, j \in DOMAIN file : i < j =>
        \A k \in DOMAIN file[i], l \in DOMAIN file[j] : file[i][k] < file[j][l]

FilesInv == PathIsNewest /\ NothingAhead /\ Runs /\ UpToDate /\ FilesInOrder

\* The operators of LogTail on sequences: From leaves out the first p, Oldest keeps n.
LEMMA FromLines ==
    ASSUME NEW S, NEW q \in Seq(S), NEW p \in Nat
    PROVE  /\ From(q, p) \in Seq(S)
           /\ Len(From(q, p)) = IF Len(q) > p THEN Len(q) - p ELSE 0
           /\ DOMAIN From(q, p) = 1 .. Len(From(q, p))
           /\ \A k \in DOMAIN From(q, p) : p + k \in DOMAIN q /\ From(q, p)[k] = q[p + k]
  <1>1. CASE p < Len(q)
    BY <1>1 DEF From
  <1>2. CASE p >= Len(q)
    BY <1>2 DEF From
  <1> QED BY <1>1, <1>2

LEMMA OldestLines ==
    ASSUME NEW S, NEW q \in Seq(S), NEW n \in Nat
    PROVE  /\ Oldest(q, n) \in Seq(S)
           /\ Len(Oldest(q, n)) = IF Len(q) < n THEN Len(q) ELSE n
           /\ DOMAIN Oldest(q, n) = 1 .. Len(Oldest(q, n))
           /\ \A k \in DOMAIN Oldest(q, n) : k \in DOMAIN q /\ Oldest(q, n)[k] = q[k]
  BY DEF Oldest

\* Sequences of the same length and elements are the same.
LEMMA SameLines ==
    ASSUME NEW S, NEW u \in Seq(S), NEW v \in Seq(S), Len(u) = Len(v),
           \A k \in 1 .. Len(u) : u[k] = v[k]
    PROVE  u = v
  OBVIOUS

\* Leaving out a and then b lines is leaving out a + b.
LEMMA FromFrom ==
    ASSUME NEW S, NEW q \in Seq(S), NEW a \in Nat, NEW b \in Nat, a + b <= Len(q)
    PROVE  From(From(q, a), b) = From(q, a + b)
  <1> DEFINE h == From(q, a)
  <1> DEFINE u == From(h, b)
  <1> DEFINE v == From(q, a + b)
  <1>1. /\ h \in Seq(S) /\ Len(h) = Len(q) - a /\ Len(q) \in Nat
        /\ DOMAIN h = 1 .. Len(h)
        /\ \A k \in DOMAIN h : h[k] = q[a + k]
    BY FromLines
  <1>2. /\ v \in Seq(S) /\ Len(v) = (IF Len(q) > a + b THEN Len(q) - (a + b) ELSE 0)
        /\ DOMAIN v = 1 .. Len(v)
        /\ \A k \in DOMAIN v : v[k] = q[(a + b) + k]
    <2>1. a + b \in Nat
      OBVIOUS
    <2> QED BY <2>1, FromLines
  <1> HIDE DEF h
  <1>3. /\ u \in Seq(S) /\ Len(u) = (IF Len(h) > b THEN Len(h) - b ELSE 0)
        /\ DOMAIN u = 1 .. Len(u)
        /\ \A k \in DOMAIN u : b + k \in DOMAIN h /\ u[k] = h[b + k]
    BY <1>1, FromLines
  <1> HIDE DEF u, v
  <1>4. Len(u) = Len(v)
    BY <1>1, <1>2, <1>3
  <1>5. \A k \in 1 .. Len(u) : u[k] = v[k]
    <2> SUFFICES ASSUME NEW k \in 1 .. Len(u) PROVE u[k] = v[k]
      OBVIOUS
    <2>1. u[k] = q[a + (b + k)] /\ v[k] = q[(a + b) + k]
      BY <1>1, <1>2, <1>3, <1>4
    <2>2. k \in Nat
      BY <1>1, <1>2, <1>4
    <2> QED BY <2>1, <2>2
  <1>6. u = v
    BY <1>2, <1>3, <1>4, <1>5, SameLines
  <1> QED BY <1>6 DEF h, u, v

\* The first tail is a run of lines up to the end of the file, and not too long.
LEMMA HelloLinesOf ==
    ASSUME NEW S, NEW q \in Seq(S), NEW w \in Nat \ {0}
    PROVE  \E p \in Nat : /\ HelloTail(q, w) = From(q, p)
                          /\ p <= Len(q)
                          /\ Len(q) - p <= HelloLines
  <1>0. HelloLines \in Nat \ {0}
    BY TailAssumption
  <1> DEFINE Spare(n) == IF n > HelloLines THEN n - HelloLines ELSE 0
  <1>1. CASE Len(q) <= w
    <2>1. HelloTail(q, w) = From(q, Spare(Len(q)))
      BY <1>1 DEF HelloTail, Newest
    <2> QED BY <1>0, <2>1
  <1>2. CASE Len(q) > w
    <2>1. PICK p \in Nat : p = (Len(q) - w) + 1
      BY <1>2
    <2>2. From(From(q, Len(q) - w), 1) = From(q, p)
      BY <1>2, <2>1, FromFrom
    <2>3. Len(From(q, p)) = Len(q) - p /\ p <= Len(q)
      BY <1>2, <2>1, FromLines
    <2>4. HelloTail(q, w) = From(From(q, p), Spare(Len(q) - p))
      BY <1>2, <2>2, <2>3 DEF HelloTail, Newest
    <2>5. PICK r \in Nat : r = Spare(Len(q) - p)
      <3>1. Len(q) - p \in Nat
        BY <2>1, <2>3
      <3>2. \A n \in Nat : Spare(n) \in Nat
        BY <1>0
      <3> HIDE DEF Spare
      <3> QED BY <3>1, <3>2
    <2>6. p + r \in Nat /\ p + r <= Len(q) /\ Len(q) - (p + r) <= HelloLines
      BY <1>0, <2>1, <2>3, <2>5
    <2>7. HelloTail(q, w) = From(q, p + r)
      BY <2>4, <2>5, <2>6, FromFrom
    <2> QED BY <2>6, <2>7
  <1> QED BY <1>1, <1>2

\* The typing of the files, for the steps below.
LEMMA FileTypes ==
    ASSUME TypeOK
    PROVE  /\ DOMAIN file = 1 .. Len(file) /\ Len(file) \in Nat
           /\ MaxLines \in Nat \ {0} /\ Lines \subseteq Nat \ {0}
           /\ \A i \in DOMAIN file :
                 /\ file[i] \in Seq(Lines) /\ DOMAIN file[i] = 1 .. Size(i) /\ Size(i) \in Nat
                 /\ \A k \in DOMAIN file[i] : file[i][k] \in Lines
  <1>1. file \in Seq(Seq(Lines)) /\ MaxLines \in Nat \ {0}
    BY TailAssumption DEF TypeOK, Lines
  <1> QED BY <1>1 DEF Size, Lines

\* No file is longer than what was logged.
LEMMA SizeBound ==
    ASSUME TypeOK, FilesInv, NEW i \in DOMAIN file
    PROVE  Size(i) \in 0 .. MaxLines
  <1>1. /\ file[i] \in Seq(Lines) /\ DOMAIN file[i] = 1 .. Size(i) /\ Size(i) \in Nat
        /\ \A k \in DOMAIN file[i] : file[i][k] \in Lines
        /\ MaxLines \in Nat /\ Lines \subseteq Nat \ {0}
    BY FileTypes
  <1>2. CASE Size(i) > 0
    <2>1. 1 \in DOMAIN file[i] /\ Size(i) \in DOMAIN file[i]
      BY <1>1, <1>2
    <2>2. file[i][Size(i)] = file[i][1] + Size(i) - 1
      BY <2>1 DEF FilesInv, Runs
    <2>3. file[i][Size(i)] \in Lines /\ file[i][1] \in Lines
      BY <1>1, <2>1
    <2> QED BY <1>1, <2>2, <2>3 DEF Lines
  <1>3. CASE Size(i) = 0
    BY <1>1, <1>3
  <1> QED BY <1>1, <1>2, <1>3

-------------------------------------------------------------------------------
(* LogTail: what the server and the operator do to the files *)

\* At first there is one file, empty.
LEMMA TailInit == Init => TypeOK /\ FilesInv
  <1> SUFFICES ASSUME Init PROVE TypeOK /\ FilesInv
    OBVIOUS
  <1>1. file = << << >> >> /\ DOMAIN file = {1} /\ Len(file) = 1 /\ file[1] = << >>
    BY DEF Init
  <1>2. file \in Seq(Seq(1 .. MaxLines))
    BY <1>1
  <1>3. TypeOK
    <2>1. /\ Len(queue) = 0 /\ queue \in Seq(1 .. MaxLines) /\ sent \in Seq(1 .. MaxLines)
          /\ past \in Explanations /\ step = "away" /\ 0 \in 0 .. MaxLines
      BY TailAssumption DEF Init, Explanations, Unexplained
    <2>2. 1 <= MaxFiles /\ 0 <= BatchLines /\ 0 <= HelloLines
      BY TailAssumption
    <2> QED BY <1>1, <1>2, <2>1, <2>2 DEF Init, TypeOK, Steps, NoFile
  <1>4. FilesInv
    BY <1>1 DEF Init, FilesInv, PathIsNewest, NothingAhead, Runs, UpToDate, FilesInOrder
  <1> QED BY <1>3, <1>4

\* What Log does to the files.
LEMMA Logged ==
    ASSUME TypeOK, Log
    PROVE  /\ file' \in Seq(Seq(Lines)) /\ DOMAIN file' = DOMAIN file /\ Len(file') = Len(file)
           /\ \A i \in DOMAIN file : i # writer => file'[i] = file[i]
           /\ writer \in DOMAIN file
           /\ Size(writer)' = Size(writer) + 1
           /\ DOMAIN file'[writer] = 1 .. Size(writer) + 1
           /\ \A k \in DOMAIN file[writer] : file'[writer][k] = file[writer][k]
           /\ file'[writer][Size(writer) + 1] = logged + 1
           /\ logged' = logged + 1 /\ logged + 1 \in Lines
           /\ UNCHANGED <<path, writer, followerVars, past>>
  <1>1. /\ file' = [file EXCEPT ![writer] = Append(file[writer], logged + 1)]
        /\ logged' = logged + 1 /\ logged < MaxLines
        /\ UNCHANGED <<path, writer, followerVars, past>>
    BY DEF Log
  <1>2. logged + 1 \in Lines /\ writer \in DOMAIN file
    BY <1>1, TailAssumption DEF TypeOK, Lines
  <1>3. /\ file[writer] \in Seq(Lines) /\ DOMAIN file[writer] = 1 .. Size(writer)
        /\ Size(writer) \in Nat /\ DOMAIN file = 1 .. Len(file) /\ Len(file) \in Nat
    BY <1>2, FileTypes
  <1> DEFINE new == Append(file[writer], logged + 1)
  <1>4. /\ new \in Seq(Lines) /\ Len(new) = Size(writer) + 1 /\ DOMAIN new = 1 .. Size(writer) + 1
        /\ \A k \in 1 .. Size(writer) : new[k] = file[writer][k]
        /\ new[Size(writer) + 1] = logged + 1
    BY <1>2, <1>3 DEF Size
  <1>5. file' = [file EXCEPT ![writer] = new]
    BY <1>1
  <1> HIDE DEF new
  <1>6. file \in Seq(Seq(Lines))
    BY DEF TypeOK, Lines
  <1>7. file' \in Seq(Seq(Lines)) /\ DOMAIN file' = DOMAIN file /\ Len(file') = Len(file)
    BY <1>2, <1>3, <1>4, <1>5, <1>6
  <1>8. file'[writer] = new /\ \A i \in DOMAIN file : i # writer => file'[i] = file[i]
    BY <1>2, <1>5, <1>6
  <1>9. Size(writer)' = Len(new)
    BY <1>1, <1>8 DEF Size
  <1> QED BY <1>1, <1>2, <1>3, <1>4, <1>7, <1>8, <1>9

\* A file is created.
LEMMA Added ==
    ASSUME TypeOK, file' = Append(file, << >>)
    PROVE  /\ file' \in Seq(Seq(Lines)) /\ Len(file') = Len(file) + 1
           /\ DOMAIN file' = (DOMAIN file) \union {Len(file) + 1}
           /\ \A i \in DOMAIN file : file'[i] = file[i]
           /\ file'[Len(file) + 1] = << >>
  <1>1. /\ file \in Seq(Seq(Lines)) /\ << >> \in Seq(Lines)
        /\ DOMAIN file = 1 .. Len(file) /\ Len(file) \in Nat
    BY FileTypes DEF TypeOK, Lines
  <1> QED BY <1>1

\* A file is truncated.
LEMMA Truncated ==
    ASSUME TypeOK, CopyTruncate
    PROVE  /\ file' \in Seq(Seq(Lines)) /\ DOMAIN file' = DOMAIN file /\ Len(file') = Len(file)
           /\ path \in DOMAIN file /\ file'[path] = << >>
           /\ \A i \in DOMAIN file : i # path => file'[i] = file[i]
  <1>1. file \in Seq(Seq(Lines)) /\ << >> \in Seq(Lines) /\ DOMAIN file = 1 .. Len(file)
    BY FileTypes DEF TypeOK, Lines
  <1>2. path \in DOMAIN file /\ file' = [file EXCEPT ![path] = << >>]
    BY DEF CopyTruncate, TypeOK
  <1> QED BY <1>1, <1>2

LEMMA LogKeepsFiles ==
    ASSUME TypeOK, FilesInv, Log
    PROVE  FilesInv'
  <1>1. /\ DOMAIN file' = DOMAIN file /\ Len(file') = Len(file)
        /\ \A i \in DOMAIN file : i # writer => file'[i] = file[i]
        /\ writer \in DOMAIN file /\ writer' = writer /\ path' = path
        /\ Size(writer)' = Size(writer) + 1
        /\ DOMAIN file'[writer] = 1 .. Size(writer) + 1
        /\ \A k \in DOMAIN file[writer] : file'[writer][k] = file[writer][k]
        /\ file'[writer][Size(writer) + 1] = logged + 1
        /\ logged' = logged + 1 /\ logged \in Nat
    BY Logged DEF TypeOK
  <1>2. /\ DOMAIN file[writer] = 1 .. Size(writer) /\ Size(writer) \in Nat
        /\ DOMAIN file = 1 .. Len(file) /\ Len(file) \in Nat
        /\ \A i \in DOMAIN file : \A k \in DOMAIN file[i] : file[i][k] \in Nat \ {0}
        /\ \A i \in DOMAIN file : DOMAIN file[i] = 1 .. Size(i) /\ Size(i) \in Nat
    BY <1>1, FileTypes
  <1>3. PathIsNewest' /\ NothingAhead'
    BY <1>1, <1>2 DEF FilesInv, PathIsNewest, NothingAhead
  <1>4. UpToDate'
    BY <1>1 DEF UpToDate
  <1>5. Runs'
    <2> SUFFICES ASSUME NEW i \in DOMAIN file, NEW k \in DOMAIN file'[i]
                 PROVE  file'[i][k] = file'[i][1] + k - 1 /\ file'[i][k] <= logged + 1
      BY <1>1 DEF Runs
    <2>1. CASE i # writer
      <3>1. k \in DOMAIN file[i] /\ file'[i][k] = file[i][k] /\ file'[i][1] = file[i][1]
        BY <1>1, <2>1
      <3>2. file[i][k] = file[i][1] + k - 1 /\ file[i][k] <= logged
        BY <3>1 DEF FilesInv, Runs
      <3>3. file[i][k] \in Nat
        BY <1>2, <3>1
      <3> QED BY <1>1, <3>1, <3>2, <3>3
    <2>2. CASE i = writer /\ k \in DOMAIN file[writer]
      <3>0. 1 \in DOMAIN file[writer]
        BY <1>2, <2>2
      <3>1. file'[i][k] = file[i][k] /\ file'[i][1] = file[i][1]
        BY <1>1, <2>2, <3>0
      <3>2. file[i][k] = file[i][1] + k - 1 /\ file[i][k] <= logged
        BY <2>2 DEF FilesInv, Runs
      <3>3. file[i][k] \in Nat
        BY <1>2, <2>2
      <3> QED BY <1>1, <3>1, <3>2, <3>3
    <2>3. CASE i = writer /\ k \notin DOMAIN file[writer]
      <3>1. k = Size(writer) + 1
        BY <1>1, <1>2, <2>3
      <3>2. CASE Size(writer) = 0
        <4>1. k = 1 /\ file'[i][k] = logged + 1
          BY <1>1, <2>3, <3>1, <3>2
        <4> QED BY <1>1, <4>1
      <3>3. CASE Size(writer) > 0
        <4>1. /\ 1 \in DOMAIN file[writer] /\ Size(writer) \in DOMAIN file[writer]
              /\ file[writer] # << >>
          BY <1>2, <3>3
        <4>2. logged = file[writer][1] + Size(writer) - 1
          BY <1>1, <4>1 DEF FilesInv, Runs, UpToDate
        <4>3. file'[i][k] = logged + 1 /\ file'[i][1] = file[writer][1]
          BY <1>1, <2>3, <3>1, <4>1
        <4>4. file[writer][1] \in Nat /\ Size(writer) \in Nat /\ logged \in Nat
          BY <1>1, <1>2, <4>1
        <4> QED BY <3>1, <4>2, <4>3, <4>4
      <3> QED BY <1>2, <3>2, <3>3
    <2> QED BY <2>1, <2>2, <2>3
  <1>6. FilesInOrder'
    <2> SUFFICES ASSUME NEW i \in DOMAIN file, NEW j \in DOMAIN file, i < j,
                        NEW k \in DOMAIN file'[i], NEW l \in DOMAIN file'[j]
                 PROVE  file'[i][k] < file'[j][l]
      BY <1>1 DEF FilesInOrder
    <2>1. i # writer
      BY <1>1 DEF FilesInv, NothingAhead
    <2>2. k \in DOMAIN file[i] /\ file'[i][k] = file[i][k] /\ file[i][k] <= logged
      BY <1>1, <2>1 DEF FilesInv, Runs
    <2>3. CASE l \in DOMAIN file[j]
      BY <1>1, <2>2, <2>3 DEF FilesInv, FilesInOrder
    <2>4. CASE l \notin DOMAIN file[j]
      BY <1>1, <1>2, <2>2, <2>4
    <2> QED BY <2>3, <2>4
  <1> QED BY <1>3, <1>4, <1>5, <1>6 DEF FilesInv

LEMMA OperatorKeepsFiles ==
    ASSUME TypeOK, FilesInv, Reopen \/ CopyTruncate \/ Rename \/ Create
    PROVE  FilesInv'
  <1>0. DOMAIN file = 1 .. Len(file) /\ Len(file) \in Nat /\ writer \in DOMAIN file
    BY FileTypes DEF TypeOK
  <1>1. CASE Reopen /\ path # NoFile
    <2>1. path = Len(file) /\ path' = path /\ file' = file /\ writer' = path /\ logged' = logged
      BY <1>1 DEF Reopen, FilesInv, PathIsNewest
    <2>2. writer # path => file[path] = << >>
      BY <1>0, <2>1 DEF FilesInv, NothingAhead
    <2> QED BY <1>0, <2>1, <2>2
            DEF FilesInv, PathIsNewest, NothingAhead, Runs, UpToDate, FilesInOrder, Size
  <1>2. CASE path = NoFile /\ (Reopen \/ Create)
    <2>1. /\ file' = Append(file, << >>) /\ path' = Len(file) + 1 /\ logged' = logged
          /\ writer' \in {writer, Len(file) + 1}
      BY <1>2 DEF Reopen, Create
    <2>2. /\ Len(file') = Len(file) + 1
          /\ DOMAIN file' = (DOMAIN file) \union {Len(file) + 1}
          /\ \A i \in DOMAIN file : file'[i] = file[i]
          /\ file'[Len(file) + 1] = << >>
      BY <2>1, Added
    <2>3. PathIsNewest' /\ NothingAhead'
      BY <1>0, <2>1, <2>2 DEF FilesInv, PathIsNewest, NothingAhead
    <2>4. Runs' /\ FilesInOrder'
      BY <1>0, <2>1, <2>2 DEF FilesInv, Runs, FilesInOrder
    <2>5. UpToDate'
      BY <1>0, <2>1, <2>2 DEF FilesInv, UpToDate, Size
    <2> QED BY <2>3, <2>4, <2>5 DEF FilesInv
  <1>3. CASE CopyTruncate
    <2>1. /\ DOMAIN file' = DOMAIN file /\ Len(file') = Len(file)
          /\ path \in DOMAIN file /\ file'[path] = << >>
          /\ \A i \in DOMAIN file : i # path => file'[i] = file[i]
          /\ UNCHANGED <<path, writer, logged>>
      BY <1>3, Truncated DEF CopyTruncate
    <2>2. PathIsNewest' /\ NothingAhead'
      BY <2>1 DEF FilesInv, PathIsNewest, NothingAhead
    <2>3. Runs' /\ FilesInOrder'
      BY <2>1 DEF FilesInv, Runs, FilesInOrder
    <2>4. UpToDate'
      BY <2>1 DEF FilesInv, UpToDate, Size, TypeOK
    <2> QED BY <2>2, <2>3, <2>4 DEF FilesInv
  <1>4. CASE Rename
    BY <1>4 DEF Rename, FilesInv, PathIsNewest, NothingAhead, Runs, UpToDate, FilesInOrder, Size
  <1> QED BY <1>1, <1>2, <1>3, <1>4 DEF Create

LEMMA FilesUntouched ==
    ASSUME FilesInv, UNCHANGED logVars
    PROVE  FilesInv'
  BY DEF FilesInv, PathIsNewest, NothingAhead, Runs, UpToDate, FilesInOrder, Size, logVars

-------------------------------------------------------------------------------
(* LogTail: what the follower reads and sends *)

\* What a poll reads.
LEMMA ReadNews ==
    ASSUME TypeOK, NEW i \in DOMAIN file, NEW p \in 0 .. MaxLines, ReadNew(i, p)
    PROVE  /\ fh' = i
           /\ pos' = IF Size(i) > p THEN Size(i) ELSE p
           /\ queue' \in Seq(Lines) /\ Len(queue') <= BatchLines
           /\ DOMAIN queue' = 1 .. Len(queue') /\ Len(queue') \in Nat
           /\ \A k \in DOMAIN queue' : p + k \in DOMAIN file[i] /\ queue'[k] = file[i][p + k]
           /\ past' \in Explanations
           /\ past'.raced = past.raced /\ past'.rotated = past.rotated
           /\ past.cut => past'.cut
           /\ ~past'.cut => Len(queue') = IF Size(i) > p THEN Size(i) - p ELSE 0
  <1>1. /\ file[i] \in Seq(Lines) /\ Size(i) = Len(file[i]) /\ Size(i) \in Nat /\ p \in Nat
        /\ BatchLines \in Nat
    BY FileTypes, TailAssumption DEF Size
  <1> DEFINE new == From(file[i], p)
  <1>2. /\ new \in Seq(Lines) /\ Len(new) = IF Len(file[i]) > p THEN Len(file[i]) - p ELSE 0
        /\ \A k \in DOMAIN new : p + k \in DOMAIN file[i] /\ new[k] = file[i][p + k]
    BY <1>1, FromLines
  <1> DEFINE old == Oldest(new, BatchLines)
  <1>3. queue' = old
    BY DEF ReadNew
  <1>5. Len(new) \in Nat
    BY <1>2
  <1> HIDE DEF new
  <1>4. /\ old \in Seq(Lines)
        /\ Len(old) = IF Len(new) < BatchLines THEN Len(new) ELSE BatchLines
        /\ DOMAIN old = 1 .. Len(old)
        /\ \A k \in DOMAIN old : k \in DOMAIN new /\ old[k] = new[k]
    BY <1>1, <1>2, OldestLines
  <1> HIDE DEF old
  <1>6. /\ past' = [past EXCEPT !.cut = past.cut \/ Size(i) > p + BatchLines] /\ fh' = i
        /\ pos' = IF Size(i) > p THEN Size(i) ELSE p
    BY DEF ReadNew
  <1>7. /\ past' \in Explanations
        /\ past'.raced = past.raced /\ past'.rotated = past.rotated
        /\ past'.cut = (past.cut \/ Size(i) > p + BatchLines)
    BY <1>6 DEF TypeOK, Explanations
  <1>8. ~past'.cut => Len(old) = IF Size(i) > p THEN Size(i) - p ELSE 0
    <2> SUFFICES ASSUME ~past'.cut PROVE Len(old) = IF Size(i) > p THEN Size(i) - p ELSE 0
      OBVIOUS
    <2>1. ~(Size(i) > p + BatchLines)
      BY <1>7
    <2>2. Len(new) = IF Size(i) > p THEN Size(i) - p ELSE 0
      BY <1>1, <1>2
    <2> QED BY <1>1, <1>4, <2>1, <2>2
  <1>9. Len(old) <= BatchLines /\ Len(old) \in Nat
    BY <1>1, <1>4, <1>5
  <1>10. \A k \in DOMAIN old : p + k \in DOMAIN file[i] /\ old[k] = file[i][p + k]
    BY <1>2, <1>4
  <1> QED BY <1>3, <1>4, <1>6, <1>7, <1>8, <1>9, <1>10

\* What the first tail reads.
LEMMA ReadsTail ==
    ASSUME TypeOK, ReadTail
    PROVE  /\ queue' \in Seq(Lines) /\ Len(queue') <= HelloLines
           /\ DOMAIN queue' = 1 .. Len(queue') /\ Len(queue') \in Nat
           /\ path = NoFile => queue' = << >> /\ pos' = 0
           /\ path # NoFile =>
                 /\ path \in DOMAIN file /\ pos' = Size(path) /\ Size(path) \in Nat
                 /\ \E p \in Nat : /\ Len(queue') = Size(path) - p
                                   /\ \A k \in DOMAIN queue' : /\ p + k \in DOMAIN file[path]
                                                               /\ queue'[k] = file[path][p + k]
  <1>0. HelloLines \in Nat
    BY TailAssumption
  <1>1. CASE path = NoFile
    <2>1. queue' = << >> /\ pos' = 0
      BY <1>1 DEF ReadTail
    <2> QED BY <1>0, <1>1, <2>1
  <1>2. CASE path # NoFile
    <2>1. path \in DOMAIN file /\ file[path] \in Seq(Lines) /\ Size(path) = Len(file[path])
          /\ Size(path) \in Nat /\ pos' = Size(path)
      BY <1>2, FileTypes DEF TypeOK, Size, ReadTail
    <2>2. PICK w \in Nat \ {0} : queue' = HelloTail(file[path], w)
      BY <1>2, TailAssumption DEF ReadTail
    <2>3. PICK p \in Nat : /\ HelloTail(file[path], w) = From(file[path], p)
                           /\ p <= Len(file[path]) /\ Len(file[path]) - p <= HelloLines
      BY <2>1, HelloLinesOf
    <2>4. /\ queue' \in Seq(Lines)
          /\ Len(queue') = IF Len(file[path]) > p THEN Len(file[path]) - p ELSE 0
          /\ DOMAIN queue' = 1 .. Len(queue')
          /\ \A k \in DOMAIN queue' : p + k \in DOMAIN file[path] /\ queue'[k] = file[path][p + k]
      BY <2>1, <2>2, <2>3, FromLines
    <2>5. Len(queue') = Size(path) - p /\ Len(queue') \in Nat /\ Len(queue') <= HelloLines
      BY <1>0, <2>1, <2>3, <2>4
    <2> QED BY <1>2, <2>1, <2>4, <2>5
  <1> QED BY <1>1, <1>2

\* What sending one line does to the stream as a whole: nothing.
LEMMA Moved ==
    ASSUME NEW S, NEW s \in Seq(S), NEW q \in Seq(S), NEW u \in Seq(S), NEW v \in Seq(S),
           q # << >>, Len(u) = Len(s) + 1, Len(v) = Len(q) - 1,
           \A k \in 1 .. Len(s) : u[k] = s[k],
           u[Len(s) + 1] = q[1],
           \A k \in 1 .. Len(v) : v[k] = q[k + 1]
    PROVE  u \o v = s \o q
  <1>1. u \o v \in Seq(S) /\ Len(u \o v) = Len(u) + Len(v) /\ Len(u) \in Nat /\ Len(v) \in Nat
    BY ConcatProperties, LenProperties
  <1>2. s \o q \in Seq(S) /\ Len(s \o q) = Len(s) + Len(q) /\ Len(s) \in Nat /\ Len(q) \in Nat
    OBVIOUS
  <1>3. \A k \in 1 .. Len(u) + Len(v) : (u \o v)[k] = (s \o q)[k]
    <2> SUFFICES ASSUME NEW k \in 1 .. Len(u) + Len(v) PROVE (u \o v)[k] = (s \o q)[k]
      OBVIOUS
    <2>1. (s \o q)[k] = IF k <= Len(s) THEN s[k] ELSE q[k - Len(s)]
      BY <1>1, <1>2
    <2>2. (u \o v)[k] = IF k <= Len(u) THEN u[k] ELSE v[k - Len(u)]
      BY <1>1, <1>2
    <2>3. CASE k <= Len(s)
      BY <1>1, <1>2, <2>1, <2>2, <2>3
    <2>4. CASE k = Len(s) + 1
      BY <1>1, <1>2, <2>1, <2>2, <2>4
    <2>5. CASE k > Len(s) + 1
      <3>0. k - Len(u) \in 1 .. Len(v)
        BY <1>1, <1>2, <2>5
      <3>1. PICK d \in 1 .. Len(v) : d = k - Len(u)
        BY <3>0
      <3>2. d + 1 = k - Len(s)
        BY <1>1, <1>2, <3>1
      <3>3. (u \o v)[k] = v[d] /\ (s \o q)[k] = q[d + 1]
        BY <1>1, <1>2, <2>1, <2>2, <2>5, <3>1, <3>2
      <3> QED BY <3>3
    <2> QED BY <1>1, <1>2, <2>3, <2>4, <2>5
  <1>4. Len(u \o v) = Len(s \o q)
    BY <1>1, <1>2
  <1> QED BY ONLY <1>1, <1>2, <1>3, <1>4, SameLines

LEMMA MovedOver ==
    ASSUME NEW S, NEW s \in Seq(S), NEW q \in Seq(S), q # << >>
    PROVE  Append(s, Head(q)) \o Tail(q) = s \o q
  <1>1. /\ Append(s, Head(q)) \in Seq(S) /\ Len(Append(s, Head(q))) = Len(s) + 1
        /\ Tail(q) \in Seq(S) /\ Len(Tail(q)) = Len(q) - 1
        /\ \A k \in 1 .. Len(Tail(q)) : Tail(q)[k] = q[k + 1]
        /\ \A k \in 1 .. Len(s) : Append(s, Head(q))[k] = s[k]
        /\ Append(s, Head(q))[Len(s) + 1] = q[1]
    OBVIOUS
  <1> QED BY <1>1, Moved

\* A frame is sent: the first line of the queue moves over.
LEMMA Sends ==
    ASSUME TypeOK, Send
    PROVE  /\ queue' \in Seq(Lines) /\ sent' \in Seq(Lines)
           /\ Len(queue) > 0 /\ Len(queue') = Len(queue) - 1
           /\ (sent \o queue)' = sent \o queue
  <1>1. queue \in Seq(Lines) /\ sent \in Seq(Lines) /\ queue # << >>
    BY DEF TypeOK, Lines, Send
  <1>2. sent' = Append(sent, Head(queue)) /\ queue' = From(queue, 1)
    BY DEF Send
  <1>3. From(queue, 1) = Tail(queue) /\ Len(queue) > 0
    BY <1>1 DEF From
  <1>4. Append(sent, Head(queue)) \in Seq(Lines) /\ Tail(queue) \in Seq(Lines)
        /\ Len(Tail(queue)) = Len(queue) - 1
    BY <1>1
  <1>5. Append(sent, Head(queue)) \o Tail(queue) = sent \o queue
    BY <1>1, MovedOver
  <1> QED BY <1>2, <1>3, <1>4, <1>5

LEMMA TailTypeWorld ==
    ASSUME TypeOK, FilesInv, Log \/ Reopen \/ CopyTruncate \/ Rename \/ Create
    PROVE  TypeOK'
  <1>0. DOMAIN file = 1 .. Len(file) /\ Len(file) \in Nat /\ MaxFiles \in Nat
    BY FileTypes, TailAssumption
  <1>1. UNCHANGED <<step, fh, pos, queue, sent, gone>>
    BY DEF Log, Reopen, CopyTruncate, Rename, Create, followerVars
  <1>2. past' \in Explanations
    BY DEF TypeOK, Log, Reopen, CopyTruncate, Rename, Create, Explanations
  <1>3. CASE Log
    BY <1>1, <1>2, <1>3, Logged DEF TypeOK, Lines
  <1>4. CASE Reopen /\ path # NoFile
    BY <1>1, <1>2, <1>4 DEF TypeOK, Reopen
  <1>5. CASE path = NoFile /\ (Reopen \/ Create)
    <2>1. /\ file' = Append(file, << >>) /\ path' = Len(file) + 1 /\ logged' = logged
          /\ writer' \in {writer, Len(file) + 1} /\ Len(file) < MaxFiles
      BY <1>5 DEF Reopen, Create
    <2>2. /\ file' \in Seq(Seq(Lines)) /\ Len(file') = Len(file) + 1
          /\ DOMAIN file' = (DOMAIN file) \union {Len(file) + 1}
      BY <2>1, Added
    <2> QED BY <1>0, <1>1, <1>2, <2>1, <2>2 DEF TypeOK, Lines
  <1>6. CASE CopyTruncate
    BY <1>1, <1>2, <1>6, Truncated DEF TypeOK, CopyTruncate, Lines
  <1>7. CASE Rename
    BY <1>1, <1>2, <1>7 DEF TypeOK, Rename
  <1> QED BY <1>3, <1>4, <1>5, <1>6, <1>7 DEF Create

\* A follower that polls has a file open.
HasOpened == step = "follow" => fh \in DOMAIN file

LEMMA TailTypeFollower ==
    ASSUME TypeOK, FilesInv, HasOpened, Connect \/ Disconnect \/ Follow
    PROVE  TypeOK'
  <1>0. \A i \in DOMAIN file : Size(i) \in 0 .. MaxLines
    BY SizeBound
  <1>1. UNCHANGED logVars
    BY DEF Connect, Disconnect, Follow, ReadTail, Send, SendFails, Open, Poll
  <1>2. BatchLines \in Nat /\ HelloLines \in Nat /\ MaxLines \in Nat
    BY TailAssumption
  <1>3. CASE Connect
    BY <1>1, <1>3 DEF TypeOK, logVars, Connect, Steps
  <1>4. CASE Disconnect
    BY <1>1, <1>4 DEF TypeOK, logVars, Disconnect
  <1>5. CASE SendFails
    <2>1. queue' = << >> /\ queue' \in Seq(1 .. MaxLines) /\ Len(queue') = 0 /\ step' = "ended"
      BY <1>5 DEF SendFails
    <2> QED BY <1>1, <1>2, <1>5, <2>1 DEF TypeOK, logVars, SendFails, Steps
  <1>6. CASE ReadTail
    <2>1. pos' \in 0 .. MaxLines
      BY <1>0, <1>2, <1>6, ReadsTail
    <2>2. queue' \in Seq(Lines) /\ Len(queue') <= HelloLines
      BY <1>6, ReadsTail
    <2>3. step' = "tail" /\ past' \in Explanations /\ UNCHANGED <<fh, sent, gone>>
      BY <1>6 DEF ReadTail, Unexplained, Explanations
    <2> QED BY <1>1, <2>1, <2>2, <2>3 DEF TypeOK, logVars, Steps, Lines
  <1>7. CASE Send
    <2>1. queue' \in Seq(Lines) /\ sent' \in Seq(Lines) /\ Len(queue') = Len(queue) - 1
      BY <1>7, Sends
    <2>2. Len(queue) \in Nat /\ UNCHANGED <<step, fh, pos, gone, past>>
      BY <1>7 DEF TypeOK, Send
    <2> QED BY <1>1, <1>2, <2>1, <2>2 DEF TypeOK, logVars, Lines
  <1>8. CASE Open
    <2>1. UNCHANGED <<queue, sent, gone>> /\ Len(queue) = 0
      BY <1>8 DEF Open
    <2>2. CASE path = NoFile
      BY <1>1, <1>2, <1>8, <2>1, <2>2 DEF Open, TypeOK, logVars, Steps
    <2>3. CASE path # NoFile
      <3>1. path \in DOMAIN file /\ fh' = path /\ pos' = Size(path) /\ step' = "follow"
        BY <1>8, <2>3 DEF Open, TypeOK
      <3>2. past' \in Explanations
        BY <1>8, <2>3 DEF Open, TypeOK, Explanations
      <3>3. pos' \in 0 .. MaxLines
        BY <1>0, <3>1
      <3> QED BY <1>1, <1>2, <2>1, <3>1, <3>2, <3>3 DEF TypeOK, logVars, Steps
    <2> QED BY <2>2, <2>3
  <1>9. CASE Poll
    <2>0. fh \in DOMAIN file
      BY <1>9 DEF Poll, HasOpened
    <2>1. PICK i \in DOMAIN file, p \in 0 .. MaxLines : ReadNew(i, p)
      <3>1. pos \in 0 .. MaxLines /\ 0 \in 0 .. MaxLines /\ path \in DOMAIN file
        BY <1>2, <1>9 DEF Poll, TypeOK
      <3> QED BY <1>9, <2>0, <3>1 DEF Poll
    <2>2. /\ fh' = i /\ pos' \in 0 .. MaxLines
          /\ queue' \in Seq(Lines) /\ Len(queue') <= BatchLines /\ past' \in Explanations
      BY <1>0, <2>1, ReadNews
    <2>3. step' = "follow" /\ UNCHANGED <<sent, gone>>
      BY <1>9 DEF Poll
    <2> QED BY <1>1, <2>2, <2>3 DEF TypeOK, logVars, Steps, Lines
  <1> QED BY <1>3, <1>4, <1>5, <1>6, <1>7, <1>8, <1>9 DEF Follow

-------------------------------------------------------------------------------
(* LogTail: the stream is in order *)

\* The steps of the server that logs and of the operator.
World == Log \/ Reopen \/ CopyTruncate \/ Rename \/ Create

\* Every line then in a file was there before, or is the one just logged.
LEMMA WorldLines ==
    ASSUME TypeOK, FilesInv, World
    PROVE  /\ DOMAIN file \subseteq DOMAIN file'
           /\ \A i \in DOMAIN file' : \A k \in DOMAIN file'[i] :
                 \/ /\ i \in DOMAIN file /\ k \in DOMAIN file[i]
                    /\ file'[i][k] = file[i][k]
                    /\ Len(file[i]) <= Len(file'[i])
                 \/ file'[i][k] = logged + 1
           /\ logged' \in {logged, logged + 1}
           /\ UNCHANGED followerVars
  <1>0. \A i \in DOMAIN file : Len(file[i]) \in Nat /\ DOMAIN file[i] = 1 .. Len(file[i])
    BY FileTypes DEF Size
  <1>1. CASE Log
    <2>1. /\ DOMAIN file' = DOMAIN file /\ writer \in DOMAIN file
          /\ \A i \in DOMAIN file : i # writer => file'[i] = file[i]
          /\ Len(file'[writer]) = Len(file[writer]) + 1
          /\ DOMAIN file'[writer] = 1 .. Len(file[writer]) + 1
          /\ \A k \in DOMAIN file[writer] : file'[writer][k] = file[writer][k]
          /\ file'[writer][Len(file[writer]) + 1] = logged + 1
          /\ logged' = logged + 1 /\ UNCHANGED <<writer, followerVars>>
      BY <1>1, Logged DEF Size
    <2>2. ASSUME NEW k \in DOMAIN file'[writer]
          PROVE  \/ k \in DOMAIN file[writer]
                 \/ k = Len(file[writer]) + 1
      BY <1>0, <2>1
    <2> QED BY <1>0, <2>1, <2>2
  <1>2. CASE UNCHANGED file /\ (Reopen \/ Rename)
    BY <1>0, <1>2 DEF Reopen, Rename
  <1>3. CASE file' = Append(file, << >>) /\ (Reopen \/ Create)
    <2>1. /\ DOMAIN file' = (DOMAIN file) \union {Len(file) + 1}
          /\ \A i \in DOMAIN file : file'[i] = file[i]
          /\ file'[Len(file) + 1] = << >>
      BY <1>3, Added
    <2> QED BY <1>0, <1>3, <2>1 DEF Reopen, Create
  <1>4. CASE CopyTruncate
    BY <1>0, <1>4, Truncated DEF CopyTruncate
  <1> QED BY <1>1, <1>2, <1>3, <1>4 DEF World, Reopen, Rename, Create

\* The stream is a sequence of lines: sent ones, then the queue.
LEMMA StreamLines ==
    ASSUME TypeOK
    PROVE  /\ Stream \in Seq(Lines) /\ Len(Stream) = Len(sent) + Len(queue)
           /\ Len(sent) \in Nat /\ Len(queue) \in Nat
           /\ DOMAIN Stream = 1 .. Len(Stream)
           /\ \A i \in DOMAIN Stream :
                 /\ Stream[i] \in Lines
                 /\ Stream[i] = IF i <= Len(sent) THEN sent[i] ELSE queue[i - Len(sent)]
  <1>1. sent \in Seq(Lines) /\ queue \in Seq(Lines)
    BY DEF TypeOK, Lines
  <1> QED BY <1>1, ConcatProperties, LenProperties DEF Stream

\* A follower's queue, sent and unsent, before it has begun.
Idle == step \in {"away", "accepted"} => sent = << >> /\ queue = << >>

\* What was read was logged before.
SentLogged == \A i \in DOMAIN Stream : Stream[i] <= logged

\* Whatever the next poll may read is newer than line n.
Newer(n) ==
    /\ \A k \in DOMAIN file[fh] : Size(fh) < pos \/ k > pos => n < file[fh][k]
    /\ \A j \in DOMAIN file : j > fh => \A k \in DOMAIN file[j] : n < file[j][k]

\* Whatever is in the stream is older than all that may still be read.
Ahead == step = "follow" => \A i \in DOMAIN Stream : Newer(Stream[i])

\* The inductive invariant behind StreamInOrder.
OrderInv == TypeOK /\ FilesInv /\ HasOpened /\ Idle /\ SentLogged /\ Ahead /\ StreamInOrder

LEMMA OrderInit == Init => OrderInv
  <1> SUFFICES ASSUME Init PROVE OrderInv
    OBVIOUS
  <1>1. step = "away" /\ sent = << >> /\ queue = << >>
    BY DEF Init
  <1>2. TypeOK /\ FilesInv
    BY TailInit
  <1>3. DOMAIN Stream = {}
    BY <1>1 DEF Stream
  <1> QED BY <1>1, <1>2, <1>3 DEF OrderInv, HasOpened, Idle, SentLogged, Ahead, StreamInOrder

LEMMA OrderWorld ==
    ASSUME OrderInv, World
    PROVE  OrderInv'
  <1>1. TypeOK' /\ FilesInv'
    BY TailTypeWorld, LogKeepsFiles, OperatorKeepsFiles DEF OrderInv, World
  <1>2. /\ DOMAIN file \subseteq DOMAIN file'
        /\ \A i \in DOMAIN file' : \A k \in DOMAIN file'[i] :
                 \/ /\ i \in DOMAIN file /\ k \in DOMAIN file[i]
                    /\ file'[i][k] = file[i][k]
                    /\ Len(file[i]) <= Len(file'[i])
                 \/ file'[i][k] = logged + 1
        /\ logged' \in {logged, logged + 1}
        /\ UNCHANGED <<step, fh, pos, queue, sent, gone>>
    BY WorldLines DEF OrderInv, followerVars
  <1>3. Stream' = Stream
    BY <1>2 DEF Stream
  <1>4. HasOpened' /\ Idle' /\ StreamInOrder'
    BY <1>2, <1>3 DEF OrderInv, HasOpened, Idle, StreamInOrder
  <1>5. logged \in Nat /\ pos \in Nat /\ \A i \in DOMAIN Stream : Stream[i] \in Nat
    BY StreamLines, TailAssumption DEF OrderInv, TypeOK, Lines
  <1>6. SentLogged'
    BY <1>2, <1>3, <1>5 DEF OrderInv, SentLogged
  <1>7. Ahead'
    <2> SUFFICES ASSUME step = "follow", NEW m \in DOMAIN Stream PROVE Newer(Stream[m])'
      BY <1>2, <1>3 DEF Ahead
    <2>1. PICK n \in Nat : n = Stream[m]
      BY <1>5
    <2>2. Newer(n) /\ n <= logged /\ fh \in DOMAIN file
      BY <2>1 DEF OrderInv, Ahead, SentLogged, HasOpened
    <2>3. ASSUME NEW k \in DOMAIN file'[fh], Len(file'[fh]) < pos \/ k > pos
          PROVE  n < file'[fh][k]
      <3>1. Len(file[fh]) \in Nat /\ Len(file'[fh]) \in Nat
        BY <1>1, <1>2, <2>2, FileTypes DEF OrderInv, Size, TypeOK
      <3> QED BY <1>2, <1>5, <2>2, <2>3, <3>1 DEF Newer, Size
    <2>4. ASSUME NEW j \in DOMAIN file', j > fh, NEW k \in DOMAIN file'[j]
          PROVE  n < file'[j][k]
      BY <1>2, <1>5, <2>2, <2>4 DEF Newer
    <2>5. Newer(n)'
      BY <1>2, <2>3, <2>4 DEF Newer, Size
    <2> QED BY <1>3, <2>1, <2>5
  <1> QED BY <1>1, <1>4, <1>6, <1>7 DEF OrderInv

\* The steps that read nothing.
LEMMA OrderQuiet ==
    ASSUME OrderInv, TypeOK', Connect \/ Disconnect \/ Send \/ SendFails \/ Open
    PROVE  OrderInv'
  <1>1. UNCHANGED logVars /\ FilesInv'
    BY FilesUntouched DEF OrderInv, Connect, Disconnect, Send, SendFails, Open
  <1>2. CASE Connect \/ Disconnect
    <2>1. /\ UNCHANGED <<file, logged, fh, pos, queue, sent>>
          /\ step' = "follow" => step = "follow"
          /\ step' \in {"away", "accepted"} => step \in {"away", "accepted"}
      BY <1>1, <1>2 DEF Connect, Disconnect, logVars
    <2>2. Stream' = Stream
      BY <2>1 DEF Stream
    <2>3. HasOpened' /\ Idle' /\ SentLogged' /\ StreamInOrder'
      BY <2>1, <2>2 DEF OrderInv, HasOpened, Idle, SentLogged, StreamInOrder
    <2>4. Ahead'
      BY <2>1, <2>2 DEF OrderInv, Ahead, Newer, Size
    <2> QED BY <1>1, <2>3, <2>4 DEF OrderInv
  <1>3. CASE Send
    <2>1. Stream' = Stream
      BY <1>3, Sends DEF OrderInv, Stream
    <2>2. UNCHANGED <<file, logged, step, fh, pos>> /\ step \notin {"away", "accepted"}
      BY <1>1, <1>3 DEF Send, logVars, OrderInv, Idle
    <2> QED BY <1>1, <2>1, <2>2
            DEF OrderInv, HasOpened, Idle, SentLogged, Ahead, Newer, StreamInOrder, Size
  <1>4. CASE SendFails
    <2>1. /\ sent' = sent /\ queue' = << >> /\ step' = "ended" /\ logged' = logged
      BY <1>1, <1>4 DEF SendFails, logVars
    <2>2. \A i \in DOMAIN Stream' : i \in DOMAIN Stream /\ Stream'[i] = Stream[i]
      <3>1. /\ Len(Stream') = Len(sent) /\ DOMAIN Stream' = 1 .. Len(Stream')
            /\ \A i \in DOMAIN Stream' :
                  Stream'[i] = IF i <= Len(sent) THEN sent[i] ELSE queue'[i - Len(sent)]
        <4>1. sent' \in Seq(Lines) /\ queue' \in Seq(Lines) /\ Len(queue') = 0
          BY <2>1 DEF TypeOK, Lines
        <4> QED BY <2>1, <4>1, ConcatProperties, LenProperties DEF Stream
      <3>2. /\ Len(Stream) = Len(sent) + Len(queue) /\ DOMAIN Stream = 1 .. Len(Stream)
            /\ Len(sent) \in Nat /\ Len(queue) \in Nat
            /\ \A i \in DOMAIN Stream :
                  Stream[i] = IF i <= Len(sent) THEN sent[i] ELSE queue[i - Len(sent)]
        BY StreamLines DEF OrderInv
      <3> QED BY <3>1, <3>2
    <2> QED BY <1>1, <2>1, <2>2 DEF OrderInv, HasOpened, Idle, SentLogged, Ahead, StreamInOrder
  <1>5. CASE Open
    <2>1. Stream' = Stream /\ UNCHANGED <<file, logged>> /\ step' \in {"ended", "follow"}
      BY <1>1, <1>5 DEF Open, Stream, logVars
    <2>2. Idle' /\ SentLogged' /\ StreamInOrder'
      BY <2>1 DEF OrderInv, Idle, SentLogged, StreamInOrder
    <2>3. CASE step' = "follow"
      <3>1. path \in DOMAIN file /\ fh' = path /\ pos' = Size(path)
        BY <1>5, <2>3 DEF Open, OrderInv, TypeOK
      <3>2. path = Len(file) /\ DOMAIN file = 1 .. Len(file) /\ DOMAIN file[path] = 1 .. Size(path)
            /\ Size(path) \in Nat /\ Len(file) \in Nat
        BY <3>1, FileTypes DEF OrderInv, FilesInv, PathIsNewest, NoFile
      <3>3. HasOpened'
        BY <2>1, <3>1 DEF HasOpened
      <3>4. Ahead'
        BY <2>1, <3>1, <3>2 DEF Ahead, Newer, Size
      <3> QED BY <1>1, <2>2, <3>3, <3>4 DEF OrderInv
    <2>4. CASE step' = "ended"
      BY <1>1, <2>2, <2>4 DEF OrderInv, HasOpened, Ahead
    <2> QED BY <2>1, <2>3, <2>4
  <1> QED BY <1>2, <1>3, <1>4, <1>5

LEMMA OrderReadTail ==
    ASSUME OrderInv, TypeOK', ReadTail
    PROVE  OrderInv'
  <1>1. UNCHANGED logVars /\ FilesInv' /\ UNCHANGED <<file, logged>>
    BY FilesUntouched DEF OrderInv, ReadTail, logVars
  <1>2. sent' = << >> /\ step' = "tail"
    BY DEF ReadTail, OrderInv, Idle
  <1>3. Stream' = queue' /\ DOMAIN queue' = 1 .. Len(queue') /\ Len(queue') \in Nat
    <2>1. queue' \in Seq(Lines)
      BY ReadsTail DEF OrderInv
    <2> QED BY <1>2, <2>1, ConcatEmptySeq, LenProperties DEF Stream
  <1>4. SentLogged' /\ StreamInOrder'
    <2>1. CASE path = NoFile
      <3>1. queue' = << >>
        BY <2>1, ReadsTail DEF OrderInv
      <3> QED BY <1>3, <3>1 DEF SentLogged, StreamInOrder
    <2>2. CASE path # NoFile
      <3>1. path \in DOMAIN file
        BY <2>2, ReadsTail DEF OrderInv
      <3>2. PICK p \in Nat : \A k \in DOMAIN queue' :
               p + k \in DOMAIN file[path] /\ queue'[k] = file[path][p + k]
        BY <2>2, ReadsTail DEF OrderInv
      <3>3. \A k \in DOMAIN file[path] :
               file[path][k] = file[path][1] + k - 1 /\ file[path][k] <= logged
        BY <3>1 DEF OrderInv, FilesInv, Runs
      <3>4. \A k \in DOMAIN queue' : queue'[k] = file[path][1] + (p + k) - 1 /\ queue'[k] <= logged
        BY <3>2, <3>3
      <3>5. DOMAIN queue' # {} => file[path][1] \in Nat
        BY <1>3, <3>1, <3>2, FileTypes DEF OrderInv
      <3>6. \A k, l \in DOMAIN queue' : k < l => queue'[k] < queue'[l]
        BY <1>3, <3>4, <3>5
      <3> QED BY <1>1, <1>3, <3>4, <3>6 DEF SentLogged, StreamInOrder
    <2> QED BY <2>1, <2>2
  <1> QED BY <1>1, <1>2, <1>4 DEF OrderInv, HasOpened, Idle, Ahead

\* Every line the poll reads is newer than all before.
LEMMA OrderPoll ==
    ASSUME OrderInv, TypeOK', Poll
    PROVE  OrderInv'
  <1> USE DEF OrderInv
  <1>0. UNCHANGED logVars /\ FilesInv' /\ UNCHANGED <<file, logged>>
    BY FilesUntouched DEF Poll, logVars
  <1>1. step = "follow" /\ step' = "follow" /\ sent' = sent /\ queue = << >> /\ fh \in DOMAIN file
    BY DEF Poll, HasOpened
  <1>2. pos \in 0 .. MaxLines /\ 0 \in 0 .. MaxLines /\ path \in DOMAIN file /\ path = Len(file)
        /\ DOMAIN file = 1 .. Len(file) /\ Len(file) \in Nat
    BY TailAssumption, FileTypes DEF Poll, TypeOK, FilesInv, PathIsNewest
  <1>3. /\ \A i \in DOMAIN file : /\ DOMAIN file[i] = 1 .. Size(i) /\ Size(i) \in Nat
                                  /\ \A k \in DOMAIN file[i] : file[i][k] \in Nat
    BY FileTypes
  <1>4. /\ DOMAIN Stream = 1 .. Len(sent) /\ Len(sent) \in Nat
        /\ \A i \in 1 .. Len(sent) : Stream[i] = sent[i] /\ sent[i] \in Nat /\ Newer(sent[i])
    <2>1. /\ Len(Stream) = Len(sent) + Len(queue) /\ Len(sent) \in Nat
          /\ DOMAIN Stream = 1 .. Len(Stream)
          /\ \A i \in DOMAIN Stream : Stream[i] \in Nat
                 /\ Stream[i] = IF i <= Len(sent) THEN sent[i] ELSE queue[i - Len(sent)]
      BY StreamLines, FileTypes
    <2>2. Len(queue) = 0
      BY <1>1
    <2>3. \A i \in DOMAIN Stream : Newer(Stream[i])
      BY <1>1 DEF Ahead
    <2> QED BY <2>1, <2>2, <2>3
  <1>5. PICK i \in DOMAIN file, p \in 0 .. MaxLines :
           /\ ReadNew(i, p)
           /\ fh <= i
           /\ p > Size(i) => i = fh /\ p = pos
           /\ \A m \in 1 .. Len(sent), k \in DOMAIN file[i] : k > p => sent[m] < file[i][k]
    <2>1. CASE Size(path) < pos
      <3>1. ReadNew(path, 0) /\ fh <= path /\ ~(0 > Size(path))
        BY <1>1, <1>2, <1>3, <2>1 DEF Poll
      <3>2. ASSUME NEW m \in 1 .. Len(sent), NEW k \in DOMAIN file[path]
            PROVE  sent[m] < file[path][k]
        <4>1. CASE path = fh
          BY <1>4, <2>1, <4>1 DEF Newer
        <4>2. CASE path > fh
          BY <1>2, <1>4, <4>2 DEF Newer
        <4> QED BY <1>1, <1>2, <4>1, <4>2
      <3> QED BY <1>2, <3>1, <3>2
    <2>2. CASE ~(Size(path) < pos)
      <3>1. ReadNew(fh, pos)
        BY <1>1, <2>2 DEF Poll
      <3>2. \A m \in 1 .. Len(sent), k \in DOMAIN file[fh] : k > pos => sent[m] < file[fh][k]
        BY <1>4 DEF Newer
      <3> QED BY <1>1, <1>2, <3>1, <3>2
    <2> QED BY <2>1, <2>2
  <1>6. /\ fh' = i /\ pos' = (IF Size(i) > p THEN Size(i) ELSE p)
        /\ Len(queue') \in Nat
        /\ DOMAIN queue' = 1 .. Len(queue')
        /\ \A k \in DOMAIN queue' : p + k \in DOMAIN file[i] /\ queue'[k] = file[i][p + k]
    BY <1>5, ReadNews
  <1>7. /\ DOMAIN Stream' = 1 .. Len(sent) + Len(queue')
        /\ \A m \in DOMAIN Stream' :
              Stream'[m] = IF m <= Len(sent) THEN sent[m] ELSE queue'[m - Len(sent)]
    <2>1. sent' \in Seq(Lines) /\ queue' \in Seq(Lines)
      BY DEF TypeOK, Lines
    <2> QED BY <1>1, <2>1, ConcatProperties, LenProperties DEF Stream
  \* Each line is one sent before or one of the file, behind p.
  <1>8. ASSUME NEW m \in DOMAIN Stream'
        PROVE  \/ m \in 1 .. Len(sent) /\ Stream'[m] = sent[m]
               \/ /\ m > Len(sent) /\ p + (m - Len(sent)) \in DOMAIN file[i]
                  /\ Stream'[m] = file[i][p + (m - Len(sent))]
    <2>1. CASE m <= Len(sent)
      BY <1>4, <1>6, <1>7, <2>1
    <2>2. CASE m > Len(sent)
      <3>1. m - Len(sent) \in DOMAIN queue' /\ Stream'[m] = queue'[m - Len(sent)]
        BY <1>4, <1>6, <1>7, <2>2
      <3> QED BY <1>6, <2>2, <3>1
    <2> QED BY <1>4, <1>6, <1>7, <2>1, <2>2
  <1>9. SentLogged'
    <2>1. \A m \in 1 .. Len(sent) : sent[m] <= logged
      BY <1>4 DEF SentLogged
    <2>2. \A k \in DOMAIN file[i] : file[i][k] <= logged
      BY DEF FilesInv, Runs
    <2> QED BY <1>0, <1>8, <2>1, <2>2 DEF SentLogged
  <1>10. StreamInOrder'
    <2> SUFFICES ASSUME NEW m \in DOMAIN Stream', NEW l \in DOMAIN Stream', m < l
                 PROVE  Stream'[m] < Stream'[l]
      BY DEF StreamInOrder
    <2>0. m \in Nat /\ l \in Nat
      BY <1>4, <1>6, <1>7
    <2>1. CASE l <= Len(sent)
      <3>1. m \in 1 .. Len(sent) /\ l \in 1 .. Len(sent)
        BY <1>4, <1>6, <1>7, <2>0, <2>1
      <3>2. sent[m] < sent[l]
        BY <1>4, <3>1 DEF StreamInOrder
      <3> QED BY <1>7, <2>1, <3>1, <3>2
    <2>2. CASE l > Len(sent) /\ m <= Len(sent)
      <3>1. m \in 1 .. Len(sent) /\ Stream'[m] = sent[m]
        BY <1>4, <1>8, <2>0, <2>2
      <3>2. /\ p + (l - Len(sent)) \in DOMAIN file[i]
            /\ Stream'[l] = file[i][p + (l - Len(sent))]
        BY <1>4, <1>8, <2>0, <2>2
      <3>3. p + (l - Len(sent)) > p
        BY <1>4, <2>0, <2>2
      <3> QED BY <1>5, <3>1, <3>2, <3>3
    <2>3. CASE m > Len(sent)
      <3>1. /\ p + (l - Len(sent)) \in DOMAIN file[i] /\ p + (m - Len(sent)) \in DOMAIN file[i]
            /\ Stream'[l] = file[i][p + (l - Len(sent))]
            /\ Stream'[m] = file[i][p + (m - Len(sent))]
        BY <1>4, <1>8, <2>0, <2>3
      <3>2. \A k \in DOMAIN file[i] : file[i][k] = file[i][1] + k - 1
        BY DEF FilesInv, Runs
      <3>3. file[i][1] \in Nat
        BY <1>3, <3>1
      <3>4. /\ Stream'[l] = file[i][1] + (p + (l - Len(sent))) - 1
            /\ Stream'[m] = file[i][1] + (p + (m - Len(sent))) - 1
        BY <3>1, <3>2
      <3> QED BY <1>4, <2>0, <3>3, <3>4
    <2> QED BY <1>4, <2>0, <2>1, <2>2, <2>3
  <1>11. Ahead'
    <2> SUFFICES ASSUME NEW m \in DOMAIN Stream' PROVE Newer(Stream[m])'
      BY DEF Ahead
    <2>0. PICK n : n = Stream'[m]
      OBVIOUS
    <2>1. ASSUME NEW j \in DOMAIN file, j > i, NEW k \in DOMAIN file[j] PROVE n < file[j][k]
      <3>1. \A l \in DOMAIN file[i] : file[i][l] < file[j][k]
        BY <2>1, <1>2 DEF FilesInv, FilesInOrder
      <3>2. j > fh
        BY <1>1, <1>2, <1>5, <2>1
      <3>3. \A l \in 1 .. Len(sent) : sent[l] < file[j][k]
        BY <1>4, <2>1, <3>2 DEF Newer
      <3> QED BY <1>8, <2>0, <3>1, <3>3
    <2>2. ASSUME NEW k \in DOMAIN file[i], Size(i) < pos' \/ k > pos' PROVE n < file[i][k]
      <3>1. p > Size(i) /\ pos' = p
        BY <1>2, <1>3, <1>6, <2>2
      <3>2. i = fh /\ p = pos
        BY <1>5, <3>1
      <3>3. m \in 1 .. Len(sent) /\ n = sent[m]
        <4>1. p + (m - Len(sent)) \notin DOMAIN file[i] \/ ~(m > Len(sent))
          BY <1>3, <1>4, <1>6, <1>7, <3>1
        <4> QED BY <1>8, <2>0, <4>1
      <3> QED BY <1>4, <2>2, <3>1, <3>2, <3>3 DEF Newer
    <2>3. Newer(n)'
      BY <1>0, <1>6, <2>1, <2>2 DEF Newer, Size
    <2> QED BY <2>0, <2>3
  <1>12. HasOpened' /\ Idle'
    BY <1>0, <1>1, <1>6 DEF HasOpened, Idle
  <1> QED BY <1>0, <1>9, <1>10, <1>11, <1>12

\* Every step of LogTail keeps the order.
LEMMA OrderNext == OrderInv /\ [Next]_vars => OrderInv'
  <1> SUFFICES ASSUME OrderInv, [Next]_vars PROVE OrderInv'
    OBVIOUS
  <1>1. CASE World
    BY <1>1, OrderWorld
  <1>2. CASE Connect \/ Disconnect \/ Follow
    <2>1. TypeOK'
      BY <1>2, TailTypeFollower DEF OrderInv
    <2> QED BY <1>2, <2>1, OrderQuiet, OrderReadTail, OrderPoll DEF Follow
  <1>3. CASE UNCHANGED vars
    <2>1. UNCHANGED logVars /\ UNCHANGED <<file, logged, step, fh, pos, queue, sent>>
      BY <1>3 DEF vars, logVars
    <2>2. TypeOK' /\ FilesInv'
      BY <1>3, <2>1, FilesUntouched DEF vars, OrderInv, TypeOK
    <2>3. Stream' = Stream
      BY <2>1 DEF Stream
    <2>4. HasOpened' /\ Idle' /\ SentLogged' /\ StreamInOrder'
      BY <2>1, <2>3 DEF OrderInv, HasOpened, Idle, SentLogged, StreamInOrder
    <2>5. Ahead'
      BY <2>1, <2>3 DEF OrderInv, Ahead, Newer, Size
    <2> QED BY <2>2, <2>4, <2>5 DEF OrderInv
  <1> QED BY <1>1, <1>2, <1>3 DEF Next, World

\* The types of LogTail, with the bound of the queue: no poll and no first tail leaves more
\* to send than its cap.
THEOREM TailTypes == Spec => []TypeOK
  BY OrderInit, OrderNext, PTL DEF Spec, OrderInv

\* logs.py:157-161: however files are rotated, truncated and reopened, no line is sent
\* twice or after a later one.
THEOREM InOrder == Spec => []StreamInOrder
  BY OrderInit, OrderNext, PTL DEF Spec, OrderInv

-------------------------------------------------------------------------------
(* LogTail: the stream has no gap *)

\* The stream is a run of lines.
NoGap == \A i \in DOMAIN Stream : i > 1 => Stream[i] = Stream[i - 1] + 1

\* The last line the follower has read is the one before position p of file i.
ReadUpTo(i, p) ==
    DOMAIN Stream # {} => p \in DOMAIN file[i] /\ file[i][p] = Stream[Len(Stream)]

\* After the first tail, unless LOG_FILE was rotated: the stream ends where it was read to.
TailUnbroken ==
    step = "tail" /\ ~past.rotated =>
        /\ NoGap
        /\ path = NoFile => DOMAIN Stream = {}
        /\ path # NoFile => ReadUpTo(path, pos)

\* While the file is followed and nothing explains a missing line: the same, and the file
\* that is open is the one that LOG_FILE names.
FollowUnbroken ==
    step = "follow" /\ past = Unexplained =>
        /\ NoGap
        /\ path = fh /\ pos <= Size(fh) /\ ReadUpTo(fh, pos)

\* The inductive invariant behind StreamContiguous.
GapInv == OrderInv /\ TailUnbroken /\ FollowUnbroken

LEMMA GapInit == Init => GapInv
  <1> SUFFICES ASSUME Init PROVE GapInv
    OBVIOUS
  <1>1. step = "away"
    BY DEF Init
  <1> QED BY <1>1, OrderInit DEF GapInv, TailUnbroken, FollowUnbroken

\* A file that is neither truncated nor renamed keeps its name and its lines.
LEMMA WorldUnrotated ==
    ASSUME OrderInv, World, ~past'.rotated, path # NoFile
    PROVE  /\ past' = past /\ path' = path
           /\ DOMAIN file[path] \subseteq DOMAIN file'[path] /\ Size(path)' >= Size(path)
           /\ \A k \in DOMAIN file[path] : file'[path][k] = file[path][k]
  <1> USE DEF OrderInv
  <1>0. path \in DOMAIN file /\ DOMAIN file[path] = 1 .. Size(path) /\ Size(path) \in Nat
    BY FileTypes DEF TypeOK
  <1>1. ~CopyTruncate /\ ~Rename /\ ~Create
    BY DEF CopyTruncate, Rename, Create, TypeOK, Explanations
  <1>2. CASE Log
    <2>1. path' = path /\ past' = past
      BY <1>2, Logged
    <2>2. CASE path = writer
      <3>1. /\ Len(file'[path]) = Size(path) + 1 /\ DOMAIN file'[path] = 1 .. Size(path) + 1
            /\ \A k \in DOMAIN file[path] : file'[path][k] = file[path][k]
        BY <1>2, <2>2, Logged DEF Size
      <3> QED BY <1>0, <2>1, <3>1 DEF Size
    <2>3. CASE path # writer
      <3>1. file'[path] = file[path]
        BY <1>0, <1>2, <2>3, Logged
      <3> QED BY <1>0, <2>1, <3>1 DEF Size
    <2> QED BY <2>2, <2>3
  <1>3. CASE Reopen
    BY <1>0, <1>3 DEF Reopen, Size
  <1> QED BY <1>1, <1>2, <1>3 DEF World

LEMMA WorldHistory ==
    ASSUME TypeOK, World, ~past'.rotated
    PROVE  past' = past /\ ~past.rotated
  BY DEF World, Log, Reopen, CopyTruncate, Rename, Create, TypeOK, Explanations

LEMMA GapWorld ==
    ASSUME GapInv, OrderInv', World
    PROVE  GapInv'
  <1>1. UNCHANGED <<step, fh, pos, queue, sent>>
    BY WorldLines DEF GapInv, OrderInv, followerVars
  <1>2. Stream' = Stream
    BY <1>1 DEF Stream
  <1>3. TailUnbroken'
    <2> SUFFICES ASSUME step = "tail", ~past'.rotated
                 PROVE  /\ NoGap
                        /\ path' = NoFile => DOMAIN Stream = {}
                        /\ path' # NoFile => ReadUpTo(path, pos)'
      BY <1>1, <1>2 DEF TailUnbroken, NoGap
    <2>1. NoGap /\ (path = NoFile => DOMAIN Stream = {}) /\ (path # NoFile => ReadUpTo(path, pos))
      BY WorldHistory DEF GapInv, OrderInv, TailUnbroken
    <2>2. CASE path = NoFile
      BY <1>2, <2>1, <2>2 DEF ReadUpTo
    <2>3. CASE path # NoFile
      BY <1>1, <1>2, <2>1, <2>3, WorldUnrotated DEF ReadUpTo, GapInv
    <2> QED BY <2>2, <2>3
  <1>4. FollowUnbroken'
    <2> SUFFICES ASSUME step = "follow", past' = Unexplained
                 PROVE  NoGap /\ path' = fh /\ pos <= Size(fh)' /\ ReadUpTo(fh, pos)'
      BY <1>1, <1>2 DEF FollowUnbroken, NoGap, Size, ReadUpTo
    <2>1. ~past'.rotated
      BY DEF Unexplained
    <2>2. past = Unexplained
      BY <2>1, WorldHistory DEF GapInv, OrderInv
    <2>3. NoGap /\ path = fh /\ pos <= Size(fh) /\ ReadUpTo(fh, pos)
      BY <2>2 DEF GapInv, FollowUnbroken
    <2>4. fh \in DOMAIN file /\ fh # NoFile /\ Size(fh) \in Nat /\ pos \in Nat
      BY FileTypes, TailAssumption DEF GapInv, OrderInv, HasOpened, NoFile, TypeOK
    <2>5. /\ path' = path /\ DOMAIN file[path] \subseteq DOMAIN file'[path]
          /\ Size(path)' >= Size(path)
          /\ \A k \in DOMAIN file[path] : file'[path][k] = file[path][k]
      BY <2>1, <2>3, <2>4, WorldUnrotated DEF GapInv
    <2>6. Size(path)' \in Nat
      <3>1. path' \in DOMAIN file'
        BY <1>1, <2>3, <2>5 DEF OrderInv, HasOpened
      <3> QED BY <2>5, <3>1, FileTypes DEF OrderInv, Size, TypeOK
    <2> QED BY <1>1, <1>2, <2>3, <2>4, <2>5, <2>6 DEF ReadUpTo, Size
  <1> QED BY <1>3, <1>4 DEF GapInv

LEMMA GapReadTail ==
    ASSUME GapInv, OrderInv', ReadTail
    PROVE  GapInv'
  <1> USE DEF GapInv, OrderInv
  <1>1. UNCHANGED <<file, path>> /\ step' = "tail" /\ sent' = << >>
    BY DEF ReadTail, logVars, Idle
  <1>2. Stream' = queue' /\ DOMAIN queue' = 1 .. Len(queue') /\ Len(queue') \in Nat
    <2>1. queue' \in Seq(Lines)
      BY ReadsTail
    <2> QED BY <1>1, <2>1, ConcatEmptySeq, LenProperties DEF Stream
  <1>3. CASE path = NoFile
    <2>1. queue' = << >>
      BY <1>3, ReadsTail
    <2> QED BY <1>1, <1>2, <1>3, <2>1 DEF TailUnbroken, FollowUnbroken, NoGap
  <1>4. CASE path # NoFile
    <2>1. path \in DOMAIN file /\ pos' = Size(path) /\ Size(path) \in Nat
      BY <1>4, ReadsTail
    <2>2. PICK p \in Nat : /\ Len(queue') = Size(path) - p
                           /\ \A k \in DOMAIN queue' : /\ p + k \in DOMAIN file[path]
                                                       /\ queue'[k] = file[path][p + k]
      BY <1>4, ReadsTail
    <2>3. \A k \in DOMAIN file[path] :
             file[path][k] = file[path][1] + k - 1 /\ file[path][1] \in Nat
      <3>1. ASSUME NEW k \in DOMAIN file[path] PROVE file[path][1] \in Nat
        BY <2>1, FileTypes
      <3> QED BY <2>1, <3>1 DEF FilesInv, Runs
    <2>4. NoGap'
      <3> SUFFICES ASSUME NEW k \in DOMAIN queue', k > 1 PROVE queue'[k] = queue'[k - 1] + 1
        BY <1>2 DEF NoGap
      <3>1. k \in Nat /\ k - 1 \in DOMAIN queue'
        BY <1>2
      <3>2. /\ queue'[k] = file[path][1] + (p + k) - 1
            /\ queue'[k - 1] = file[path][1] + (p + (k - 1)) - 1
            /\ file[path][1] \in Nat
        BY <2>2, <2>3, <3>1
      <3> QED BY <3>1, <3>2
    <2>5. ReadUpTo(path, pos)'
      <3> SUFFICES ASSUME DOMAIN queue' # {}
                   PROVE  /\ Size(path) \in DOMAIN file[path]
                          /\ file[path][Size(path)] = queue'[Len(queue')]
        BY <1>1, <1>2, <2>1 DEF ReadUpTo
      <3>1. Len(queue') \in DOMAIN queue' /\ p + Len(queue') = Size(path)
        BY <1>2, <2>1, <2>2
      <3> QED BY <2>2, <3>1
    <2> QED BY <1>1, <1>4, <2>4, <2>5 DEF TailUnbroken, FollowUnbroken
  <1> QED BY <1>3, <1>4

LEMMA GapQuiet ==
    ASSUME GapInv, OrderInv', Connect \/ Disconnect \/ Send \/ SendFails \/ Open
    PROVE  GapInv'
  <1> USE DEF GapInv, OrderInv
  <1>1. UNCHANGED <<file, path>>
    BY DEF Connect, Disconnect, Send, SendFails, Open, logVars
  <1>2. CASE Connect \/ SendFails
    BY <1>2 DEF Connect, SendFails, TailUnbroken, FollowUnbroken
  <1>3. CASE Disconnect \/ Send
    <2>1. Stream' = Stream
      BY <1>3, Sends DEF Disconnect, Stream
    <2>2. UNCHANGED <<step, fh, pos, past>>
      BY <1>3 DEF Disconnect, Send
    <2> QED BY <1>1, <2>1, <2>2 DEF TailUnbroken, FollowUnbroken, NoGap, ReadUpTo, Size
  <1>4. CASE Open /\ path = NoFile
    BY <1>4 DEF Open, TailUnbroken, FollowUnbroken
  <1>5. CASE Open /\ path # NoFile
    <2>1. /\ step = "tail" /\ step' = "follow" /\ fh' = path /\ pos' = Size(path)
          /\ past' = [past EXCEPT !.raced = Size(path) # pos] /\ Stream' = Stream
      BY <1>5 DEF Open, Stream
    <2>2. path \in DOMAIN file /\ Size(path) \in Nat
      BY <1>5, FileTypes DEF TypeOK
    <2>3. ASSUME past' = Unexplained PROVE ~past.rotated /\ Size(path) = pos
      <3>1. past'.rotated = past.rotated /\ past'.raced = (Size(path) # pos)
        BY <2>1 DEF TypeOK, Explanations
      <3> QED BY <2>3, <3>1 DEF Unexplained
    <2>4. past' = Unexplained => NoGap /\ ReadUpTo(path, Size(path))
      BY <1>5, <2>1, <2>3 DEF TailUnbroken, ReadUpTo
    <2> QED BY <1>1, <2>1, <2>2, <2>4 DEF TailUnbroken, FollowUnbroken, NoGap, ReadUpTo, Size
  <1> QED BY <1>2, <1>3, <1>4, <1>5

LEMMA GapPoll ==
    ASSUME GapInv, OrderInv', Poll
    PROVE  GapInv'
  <1> USE DEF GapInv, OrderInv
  <1>1. /\ UNCHANGED <<file, path>> /\ step = "follow" /\ step' = "follow"
        /\ sent' = sent /\ queue = << >> /\ fh \in DOMAIN file
    BY DEF Poll, HasOpened, logVars
  <1>2. TailUnbroken'
    BY <1>1 DEF TailUnbroken
  <1>3. ASSUME past' = Unexplained
        PROVE  NoGap' /\ path = fh /\ fh' = fh /\ pos' <= Size(fh) /\ ReadUpTo(fh, pos)'
    <2>0. pos \in 0 .. MaxLines /\ 0 \in 0 .. MaxLines /\ path \in DOMAIN file /\ MaxLines \in Nat
      BY TailAssumption DEF Poll, TypeOK
    <2>1. past = Unexplained
      <3>1. PICK i \in DOMAIN file, p \in 0 .. MaxLines : ReadNew(i, p)
        BY <1>1, <2>0 DEF Poll
      <3>2. ~past.cut /\ ~past.raced /\ ~past.rotated
        BY <1>3, <3>1, ReadNews DEF Unexplained
      <3> QED BY <3>2 DEF TypeOK, Explanations, Unexplained
    <2>2. NoGap /\ path = fh /\ pos <= Size(fh) /\ ReadUpTo(fh, pos)
      BY <1>1, <2>1 DEF FollowUnbroken
    <2>3. /\ DOMAIN file[fh] = 1 .. Size(fh) /\ Size(fh) \in Nat
          /\ \A k \in DOMAIN file[fh] : file[fh][k] = file[fh][1] + k - 1 /\ file[fh][1] \in Nat
      <3>1. ASSUME NEW k \in DOMAIN file[fh] PROVE file[fh][1] \in Nat
        BY <1>1, FileTypes
      <3> QED BY <1>1, <3>1, FileTypes DEF FilesInv, Runs
    <2>4. ReadNew(fh, pos)
      BY <2>0, <2>2, <2>3 DEF Poll
    <2>5. ~past'.cut
      BY <1>3 DEF Unexplained
    <2>6. /\ fh' = fh
          /\ pos' = (IF Size(fh) > pos THEN Size(fh) ELSE pos)
          /\ queue' \in Seq(Lines) /\ Len(queue') \in Nat /\ DOMAIN queue' = 1 .. Len(queue')
          /\ \A k \in DOMAIN queue' : pos + k \in DOMAIN file[fh] /\ queue'[k] = file[fh][pos + k]
          /\ Len(queue') = IF Size(fh) > pos THEN Size(fh) - pos ELSE 0
      BY <1>1, <2>0, <2>4, <2>5, ReadNews
    <2>7. pos' = Size(fh) /\ pos + Len(queue') = Size(fh)
      BY <2>0, <2>2, <2>3, <2>6
    <2>8. /\ DOMAIN Stream = 1 .. Len(sent) /\ Len(Stream) = Len(sent) /\ Len(sent) \in Nat
          /\ \A m \in DOMAIN Stream : Stream[m] = sent[m]
      <3>1. /\ Len(Stream) = Len(sent) + Len(queue) /\ Len(sent) \in Nat
            /\ DOMAIN Stream = 1 .. Len(Stream)
            /\ \A m \in DOMAIN Stream :
                  Stream[m] = IF m <= Len(sent) THEN sent[m] ELSE queue[m - Len(sent)]
        BY StreamLines
      <3>2. Len(queue) = 0
        BY <1>1
      <3> QED BY <3>1, <3>2
    <2>9. /\ DOMAIN Stream' = 1 .. Len(sent) + Len(queue') /\ Len(Stream') = Len(sent) + Len(queue')
          /\ \A m \in DOMAIN Stream' :
                Stream'[m] = IF m <= Len(sent) THEN sent[m] ELSE queue'[m - Len(sent)]
      <3>1. sent' \in Seq(Lines)
        BY DEF TypeOK, Lines
      <3> QED BY <1>1, <2>6, <3>1, ConcatProperties, LenProperties DEF Stream
    \* Where the lines of the new stream come from.
    <2>10. ASSUME NEW m \in DOMAIN Stream', m > Len(sent)
           PROVE  LET k == pos + (m - Len(sent))
                  IN  /\ k \in DOMAIN file[fh] /\ file[fh][1] \in Nat
                      /\ Stream'[m] = file[fh][1] + k - 1
      <3>1. m - Len(sent) \in DOMAIN queue' /\ Stream'[m] = queue'[m - Len(sent)]
        BY <2>6, <2>8, <2>9, <2>10
      <3>2. PICK k : k = pos + (m - Len(sent))
        OBVIOUS
      <3>3. k \in DOMAIN file[fh] /\ Stream'[m] = file[fh][k]
        BY <2>6, <3>1, <3>2
      <3> QED BY <2>3, <3>2, <3>3
    <2>11. NoGap'
      <3> SUFFICES ASSUME NEW m \in DOMAIN Stream', m > 1 PROVE Stream'[m] = Stream'[m - 1] + 1
        BY DEF NoGap
      <3>0. m \in Nat /\ m - 1 \in DOMAIN Stream'
        BY <2>6, <2>8, <2>9
      <3>1. CASE m <= Len(sent)
        <4>1. m \in DOMAIN Stream /\ m - 1 \in DOMAIN Stream
          BY <2>8, <3>0, <3>1
        <4>2. Stream[m] = Stream[m - 1] + 1
          BY <2>2, <4>1 DEF NoGap
        <4>3. Stream'[m] = sent[m] /\ Stream'[m - 1] = sent[m - 1]
          BY <2>8, <2>9, <3>0, <3>1
        <4> QED BY <2>8, <4>1, <4>2, <4>3
      <3>2. CASE m = Len(sent) + 1
        <4>1. Len(sent) \in DOMAIN Stream /\ Stream'[m - 1] = Stream[Len(Stream)]
          BY <2>8, <2>9, <3>0, <3>2
        <4>2. pos \in DOMAIN file[fh] /\ file[fh][pos] = Stream[Len(Stream)]
          BY <2>2, <4>1 DEF ReadUpTo
        <4>3. Stream[Len(Stream)] = file[fh][1] + pos - 1
          BY <2>3, <4>2
        <4>4. m > Len(sent) /\ pos + (m - Len(sent)) = pos + 1
          BY <2>0, <2>8, <3>2
        <4>5. Stream'[m] = file[fh][1] + (pos + 1) - 1 /\ file[fh][1] \in Nat
          BY <2>10, <4>4
        <4> QED BY <2>0, <4>1, <4>3, <4>5
      <3>3. CASE m > Len(sent) + 1
        <4>1. m - 1 > Len(sent) /\ m > Len(sent)
          BY <2>8, <3>0, <3>3
        <4>2. Stream'[m] = file[fh][1] + (pos + (m - Len(sent))) - 1 /\ file[fh][1] \in Nat
          BY <2>10, <4>1
        <4>3. Stream'[m - 1] = file[fh][1] + (pos + ((m - 1) - Len(sent))) - 1
          BY <2>10, <3>0, <4>1
        <4> QED BY <2>0, <2>8, <3>0, <4>2, <4>3
      <3> QED BY <2>8, <3>0, <3>1, <3>2, <3>3
    <2>12. ReadUpTo(fh, pos)'
      <3> SUFFICES ASSUME DOMAIN Stream' # {}
                   PROVE  Size(fh) \in DOMAIN file[fh] /\ file[fh][Size(fh)] = Stream'[Len(Stream')]
        BY <1>1, <2>6, <2>7 DEF ReadUpTo
      <3>1. CASE Len(queue') > 0
        <4>1. Len(queue') \in DOMAIN queue' /\ Len(Stream') \in DOMAIN Stream'
          BY <2>6, <2>8, <2>9, <3>1
        <4>2. Stream'[Len(Stream')] = queue'[Len(queue')]
          BY <2>6, <2>8, <2>9, <3>1, <4>1
        <4> QED BY <2>6, <2>7, <4>1, <4>2
      <3>2. CASE Len(queue') = 0
        <4>1. pos = Size(fh) /\ Len(Stream') = Len(sent) /\ Len(sent) \in DOMAIN Stream
              /\ Len(sent) \in DOMAIN Stream'
          BY <2>0, <2>7, <2>8, <2>9, <3>2
        <4>2. Stream'[Len(Stream')] = Stream[Len(Stream)]
          BY <2>8, <2>9, <4>1
        <4> QED BY <2>2, <4>1, <4>2 DEF ReadUpTo
      <3> QED BY <2>6, <3>1, <3>2
    <2>13. pos' <= Size(fh)
      BY <2>3, <2>7
    <2> QED BY <2>2, <2>6, <2>11, <2>12, <2>13
  <1>4. FollowUnbroken'
    BY <1>1, <1>3 DEF FollowUnbroken, Size, ReadUpTo
  <1> QED BY <1>2, <1>4

LEMMA GapNext == GapInv /\ [Next]_vars => GapInv'
  <1> SUFFICES ASSUME GapInv, [Next]_vars PROVE GapInv'
    OBVIOUS
  <1>1. OrderInv'
    BY OrderNext DEF GapInv
  <1>2. CASE UNCHANGED vars
    <2>1. UNCHANGED <<file, path, step, fh, pos, queue, sent, past>>
      BY <1>2 DEF vars
    <2>2. Stream' = Stream
      BY <2>1 DEF Stream
    <2> QED BY <1>1, <2>1, <2>2 DEF GapInv, TailUnbroken, FollowUnbroken, NoGap, ReadUpTo, Size
  <1> QED BY <1>1, <1>2, GapWorld, GapReadTail, GapQuiet, GapPoll DEF Next, World, Follow

\* Without a rotation, a burst above the cap or a race with the first tail, the browser is
\* sent a run of lines: the stream, followed by what is still to be read, has no gap.
THEOREM Contiguous == Spec => []StreamContiguous
  <1>1. GapInv => StreamContiguous
    <2> SUFFICES ASSUME GapInv, step \in {"tail", "follow"}, past = Unexplained,
                        NEW lines, lines = Stream \o Unread,
                        NEW i \in DOMAIN lines, i > 1
                 PROVE  lines[i] = lines[i - 1] + 1
      BY DEF StreamContiguous
    <2>1. ~past.rotated
      BY DEF Unexplained
    <2>2. /\ Stream \in Seq(Lines) /\ DOMAIN Stream = 1 .. Len(Stream) /\ Len(Stream) \in Nat
          /\ NoGap
      BY <2>1, StreamLines, LenProperties DEF GapInv, OrderInv, TailUnbroken, FollowUnbroken
    <2>3. /\ Unread \in Seq(Lines) /\ Len(Unread) \in Nat /\ DOMAIN Unread = 1 .. Len(Unread)
          /\ step = "tail" => Len(Unread) = 0
          /\ step = "follow" => \A k \in DOMAIN Unread : /\ pos + k \in DOMAIN file[fh]
                                                        /\ Unread[k] = file[fh][pos + k]
      <3>1. CASE step = "tail"
        BY <3>1 DEF Unread
      <3>2. CASE step = "follow"
        <4>1. fh \in DOMAIN file /\ file[fh] \in Seq(Lines) /\ pos \in Nat
          BY <3>2, FileTypes, TailAssumption DEF GapInv, OrderInv, HasOpened, TypeOK
        <4> QED BY <3>2, <4>1, FromLines, LenProperties DEF Unread
      <3> QED BY <3>1, <3>2
    <2>4. /\ DOMAIN lines = 1 .. Len(Stream) + Len(Unread)
          /\ \A m \in DOMAIN lines :
                lines[m] = IF m <= Len(Stream) THEN Stream[m] ELSE Unread[m - Len(Stream)]
      BY <2>2, <2>3, ConcatProperties, LenProperties
    <2>5. i \in Nat /\ i - 1 \in DOMAIN lines
      BY <2>2, <2>3, <2>4
    <2>6. CASE i <= Len(Stream)
      BY <2>2, <2>4, <2>5, <2>6 DEF NoGap
    <2>7. CASE i > Len(Stream)
      <3>1. step = "follow" /\ fh \in DOMAIN file /\ pos \in Nat
        BY <2>2, <2>3, <2>4, <2>5, <2>7, TailAssumption DEF GapInv, OrderInv, HasOpened, TypeOK
      <3>2. \A k \in DOMAIN file[fh] : file[fh][k] = file[fh][1] + k - 1 /\ file[fh][1] \in Nat
        <4>1. ASSUME NEW k \in DOMAIN file[fh] PROVE file[fh][1] \in Nat
          BY <3>1, FileTypes DEF GapInv, OrderInv
        <4> QED BY <3>1, <4>1 DEF GapInv, OrderInv, FilesInv, Runs
      <3>3. ReadUpTo(fh, pos)
        BY <3>1 DEF GapInv, FollowUnbroken
      <3>4. PICK k \in DOMAIN Unread : k = i - Len(Stream)
        BY <2>2, <2>3, <2>4, <2>5, <2>7
      <3>5. lines[i] = file[fh][1] + (pos + k) - 1 /\ file[fh][1] \in Nat
        BY <2>3, <2>4, <2>7, <3>1, <3>2, <3>4
      <3>6. k \in Nat
        BY <2>3
      <3>7. CASE k = 1
        <4>1. i - 1 = Len(Stream) /\ i - 1 \in DOMAIN Stream
          BY <2>2, <2>5, <3>4, <3>7
        <4>2. lines[i - 1] = Stream[Len(Stream)]
          BY <2>4, <2>5, <4>1
        <4>3. lines[i - 1] = file[fh][1] + pos - 1
          BY <3>2, <3>3, <4>1, <4>2 DEF ReadUpTo
        <4>4. lines[i] = file[fh][1] + (pos + 1) - 1
          BY <3>5, <3>7
        <4>5. PICK f \in Nat, p \in Nat : f = file[fh][1] /\ p = pos
          BY <3>1, <3>5
        <4>6. lines[i] = f + (p + 1) - 1 /\ lines[i - 1] = f + p - 1
          BY <4>3, <4>4, <4>5
        <4> QED BY ONLY <4>5, <4>6
      <3>8. CASE k > 1
        <4>1. k - 1 \in DOMAIN Unread /\ k - 1 = (i - 1) - Len(Stream) /\ ~(i - 1 <= Len(Stream))
          BY <2>2, <2>3, <2>5, <3>4, <3>6, <3>8
        <4>2. lines[i - 1] = file[fh][1] + (pos + (k - 1)) - 1
          BY <2>3, <2>4, <2>5, <3>1, <3>2, <4>1
        <4> QED BY <3>1, <3>5, <3>6, <4>2
      <3> QED BY <2>3, <3>7, <3>8
    <2> QED BY <2>2, <2>5, <2>6, <2>7
  <1> QED BY <1>1, GapInit, GapNext, PTL DEF Spec

-------------------------------------------------------------------------------
(* AuditTrail: the invariant, and what an emit does to the files *)

\* The server is between two steps of a rotation.
Rotating == server.does = "rotates"

\* While the files are rotated, the record that caused it is made and not yet written;
\* the lines that can be read hold records that were written.
RecordsKnown ==
    /\ Rotating => made # << >> /\ Len(made) \notin written
    /\ written \subseteq 1 .. Len(made)
    /\ \A i \in DOMAIN gen : \A l \in DOMAIN gen[i] :
          gen[i][l].readable => gen[i][l].ended /\ gen[i][l].record \in written

\* The file after the one that is to be renamed next has been renamed, except that the
\* last file is in place until it is replaced.
NextIsFree == Rotating /\ server.from < Keep - 1 => server.from + 1 \notin DOMAIN gen

\* A record that was written is in no file any more.
Lost == \E n \in written : ~Kept(n)

\* Generation h is there, or is the one that the next renaming makes.
Place(h) == h \in DOMAIN gen \/ (Rotating /\ h = server.from + 1)

\* Rotated files are full, and audit.log is while it waits to be renamed.
RotatedAreFull == \A j \in DOMAIN gen : j >= 1 \/ (Rotating /\ server.from >= 0) => Full(gen[j])

\* Without a kill during a rotation the generations are consecutive, and a record is lost
\* only when all are there.
NoHoles == ~interrupted => \A j \in DOMAIN gen : \A h \in 0 .. j : Place(h)
LostFromTheBack == ~interrupted /\ Lost => \A h \in 0 .. Keep : Place(h)

\* What every lemma about a step needs; and what a loss tells of the files.
TrailInv == TrailTypeOK /\ RecordsKnown /\ NextIsFree
RetentionInv == RotatedAreFull /\ NoHoles /\ LostFromTheBack

LEMMA KeepNat == ASSUME TrailTypeOK PROVE Keep \in Nat /\ rotateKeep \in Int
  BY AuditAssumption DEF TrailTypeOK, Keep

\* What appending a line to a file does: the lines that are there stay, except that half
\* a line goes; what is new is the line, at the end, or cannot be read.
AppendsTo(lines, line, new) ==
    /\ new \in Seq(Line)
    /\ DOMAIN new = 1 .. Len(new) /\ Len(new) \in Nat \ {0}
    /\ \A l \in DOMAIN lines :
          \/ l \in DOMAIN new /\ new[l] = lines[l]
          \/ ~Clean(lines) /\ l = Len(lines) /\ ~lines[l].ended
    /\ \A l \in DOMAIN new :
          \/ l \in DOMAIN lines /\ new[l] = lines[l]
          \/ l = Len(new) /\ Clean(lines) /\ l \notin DOMAIN lines /\ new[l] = line
          \/ l = Len(new) /\ ~Clean(lines) /\ ~new[l].readable
    /\ Clean(lines) => new[Len(new)] = line /\ Len(new) \in DOMAIN new

LEMMA AppendedLines ==
    ASSUME NEW lines \in Seq(Line), NEW line \in Line
    PROVE  AppendsTo(lines, line, Appended(lines, line))
  <1>0. PICK new : new = Appended(lines, line)
    OBVIOUS
  <1> SUFFICES AppendsTo(lines, line, new)
    BY <1>0
  <1>1. DOMAIN lines = 1 .. Len(lines) /\ Len(lines) \in Nat
    OBVIOUS
  <1>2. CASE Clean(lines)
    <2>1. new = Append(lines, line)
      BY <1>0, <1>2 DEF Appended
    <2>2. /\ new \in Seq(Line) /\ Len(new) = Len(lines) + 1 /\ DOMAIN new = 1 .. Len(lines) + 1
          /\ \A l \in 1 .. Len(lines) : new[l] = lines[l]
          /\ new[Len(lines) + 1] = line
      BY <1>1, <2>1
    <2>3. \A l \in DOMAIN new : l \in DOMAIN lines \/ (l = Len(new) /\ l \notin DOMAIN lines)
      BY <1>1, <2>2
    <2>4. Len(new) \in Nat \ {0} /\ Len(new) \in DOMAIN new
      BY <1>1, <2>2
    <2> QED BY <1>1, <1>2, <2>2, <2>3, <2>4 DEF AppendsTo
  <1>3. CASE ~Clean(lines)
    <2> DEFINE front == Front(lines)
    <2> DEFINE last == [line EXCEPT !.readable = FALSE]
    <2>1. new = Append(front, last)
      BY <1>0, <1>3 DEF Appended
    <2>2. last \in Line /\ ~last.readable
      BY DEF Line
    <2>3. Len(lines) > 0 /\ ~lines[Len(lines)].ended
      BY <1>1, <1>3 DEF Clean, Last
    <2>4. /\ front \in Seq(Line) /\ Len(front) = Len(lines) - 1
          /\ DOMAIN front = 1 .. Len(lines) - 1
          /\ \A l \in 1 .. Len(lines) - 1 : front[l] = lines[l]
      BY <1>1, <2>3 DEF Front
    <2> HIDE DEF front, last
    <2>5. /\ new \in Seq(Line) /\ Len(new) = Len(lines) /\ DOMAIN new = 1 .. Len(lines)
          /\ \A l \in 1 .. Len(lines) - 1 : new[l] = lines[l]
          /\ new[Len(lines)] = last
      <3>1. DOMAIN new = 1 .. Len(front) + 1 /\ Len(new) = Len(front) + 1 /\ new \in Seq(Line)
        BY <2>1, <2>2, <2>4
      <3>2. /\ \A l \in 1 .. Len(front) : new[l] = front[l]
            /\ new[Len(front) + 1] = last
        BY <2>1, <2>2, <2>4
      <3>3. Len(front) + 1 = Len(lines)
        BY <1>1, <2>4
      <3> QED BY <3>1, <3>2, <3>3, <2>4
    <2>6. \A l \in 1 .. Len(lines) : l \in 1 .. Len(lines) - 1 \/ l = Len(lines)
      <3>1. PICK n \in Nat : n = Len(lines)
        BY <1>1
      <3>2. \A l \in 1 .. n : l \in 1 .. n - 1 \/ l = n
        BY ONLY n \in Nat
      <3> QED BY <3>1, <3>2
    <2>7. /\ DOMAIN new = 1 .. Len(new) /\ Len(new) \in Nat \ {0} /\ DOMAIN new = DOMAIN lines
      BY <1>1, <2>3, <2>5
    <2>8. \A l \in DOMAIN lines : new[l] = lines[l] \/ l = Len(lines)
      BY <1>1, <2>4, <2>5, <2>6
    <2>9. ~new[Len(lines)].readable
      BY <2>2, <2>5
    <2> QED BY <1>1, <1>3, <2>3, <2>5, <2>7, <2>8, <2>9 DEF AppendsTo
  <1> QED BY <1>2, <1>3

\* What an emit does to the files: record n may come to those that can be read from
\* audit.log, behind them, and nothing else changes of what can be read.
EmitsTo(files, n) ==
    /\ DOMAIN gen' = DOMAIN files
    /\ \A i \in DOMAIN files : gen'[i] \in Seq(Line) /\ (i # 0 => gen'[i] = files[i])
    /\ \A i \in DOMAIN files : \A l \in DOMAIN files[i] :
          files[i][l].readable => l \in DOMAIN gen'[i] /\ gen'[i][l] = files[i][l]
    /\ \A i \in DOMAIN files : \A l \in DOMAIN gen'[i] : gen'[i][l].readable =>
          \/ l \in DOMAIN files[i] /\ gen'[i][l] = files[i][l]
          \/ /\ i = 0 /\ \A m \in DOMAIN gen'[0] : m <= l
             /\ gen'[0][l].record = n /\ gen'[0][l].ended /\ written' = written \union {n}
    /\ \/ written' = written
       \/ /\ written' = written \union {n}
          /\ \E l \in DOMAIN gen'[0] : gen'[0][l].readable /\ gen'[0][l].record = n

LEMMA Emits ==
    ASSUME NEW files, 0 \in DOMAIN files,
           \A i \in DOMAIN files : files[i] \in Seq(Line),
           \A i \in DOMAIN files : \A l \in DOMAIN files[i] :
               files[i][l].readable => files[i][l].ended,
           NEW n \in 1 .. MaxRecords, NEW size \in Nat,
           Emit(files, n, size)
    PROVE  server' = Ready /\ EmitsTo(files, n)
  <1>0. server' = Ready
    BY DEF Emit
  <1>1. /\ WholeLine(n, size) \in Line /\ HalfLine(n, size) \in Line
        /\ ~HalfLine(n, size).readable
        /\ WholeLine(n, size).record = n /\ WholeLine(n, size).ended
        /\ WholeLine(n, size).readable
    BY DEF WholeLine, HalfLine, Line
  <1>2. CASE gen' = files /\ UNCHANGED written
    BY <1>0, <1>2 DEF EmitsTo
  <1>3. ASSUME NEW line \in Line,
               gen' = [files EXCEPT ![0] = Appended(files[0], line)],
               \/ line = WholeLine(n, size)
                  /\ written' = (IF Clean(files[0]) THEN written \union {n} ELSE written)
               \/ line = HalfLine(n, size) /\ written' = written
        PROVE  EmitsTo(files, n)
    <2>1. PICK new : new = Appended(files[0], line)
      OBVIOUS
    <2>2. AppendsTo(files[0], line, new)
      BY <2>1, AppendedLines
    <2>3. /\ DOMAIN gen' = DOMAIN files /\ gen'[0] = new
          /\ \A i \in DOMAIN files : i # 0 => gen'[i] = files[i]
      BY <1>3, <2>1
    <2>4. \A i \in DOMAIN files : gen'[i] \in Seq(Line) /\ (i # 0 => gen'[i] = files[i])
      BY <2>2, <2>3 DEF AppendsTo
    <2>5. ASSUME NEW i \in DOMAIN files, NEW l \in DOMAIN files[i], files[i][l].readable
          PROVE  l \in DOMAIN gen'[i] /\ gen'[i][l] = files[i][l]
      <3>1. CASE i = 0
        BY <2>2, <2>3, <2>5, <3>1 DEF AppendsTo
      <3> QED BY <2>3, <3>1
    <2>6. ASSUME NEW i \in DOMAIN files, NEW l \in DOMAIN gen'[i], gen'[i][l].readable
          PROVE  \/ l \in DOMAIN files[i] /\ gen'[i][l] = files[i][l]
                 \/ /\ i = 0 /\ \A m \in DOMAIN gen'[0] : m <= l
                    /\ gen'[0][l].record = n /\ gen'[0][l].ended
                    /\ written' = written \union {n}
      <3>1. CASE i = 0 /\ ~(l \in DOMAIN files[0] /\ gen'[0][l] = files[0][l])
        <4>1. l = Len(new) /\ Clean(files[0]) /\ new[l] = line /\ line.readable
          BY <2>2, <2>3, <2>6, <3>1 DEF AppendsTo
        <4>2. line = WholeLine(n, size) /\ written' = written \union {n}
          BY <1>1, <1>3, <4>1
        <4>3. \A m \in DOMAIN gen'[0] : m <= l
          BY <2>2, <2>3, <4>1 DEF AppendsTo
        <4> QED BY <1>1, <2>3, <3>1, <4>1, <4>2, <4>3
      <3>2. CASE i # 0
        BY <2>3, <2>6, <3>2
      <3> QED BY <3>1, <3>2
    <2>7. \/ written' = written
          \/ /\ written' = written \union {n}
             /\ \E l \in DOMAIN gen'[0] : gen'[0][l].readable /\ gen'[0][l].record = n
      <3>1. CASE Clean(files[0]) /\ line = WholeLine(n, size)
        <4>1. Len(new) \in DOMAIN gen'[0] /\ gen'[0][Len(new)] = WholeLine(n, size)
          BY <2>2, <2>3, <3>1 DEF AppendsTo
        <4>2. written' = written \union {n} \/ written' = written
          BY <1>3
        <4> QED BY <1>1, <4>1, <4>2
      <3> QED BY <1>3, <3>1
    <2> QED BY <2>3, <2>4, <2>5, <2>6, <2>7 DEF EmitsTo
  <1>4. CASE /\ gen' = [files EXCEPT ![0] = Appended(files[0], WholeLine(n, size))]
             /\ written' = IF Clean(files[0]) THEN written \union {n} ELSE written
    BY <1>0, <1>1, <1>3, <1>4
  <1>5. CASE /\ gen' = [files EXCEPT ![0] = Appended(files[0], HalfLine(n, size))]
             /\ UNCHANGED written
    BY <1>0, <1>1, <1>3, <1>5
  <1> QED BY <1>0, <1>2, <1>4, <1>5 DEF Emit

-------------------------------------------------------------------------------
(* AuditTrail: what each action does to the files *)

\* A step that may open audit.log and write record n to it.
Grows(n) ==
    /\ DOMAIN gen' = (DOMAIN gen) \union {0}
    /\ \A i \in DOMAIN gen' : gen'[i] \in Seq(Line)
    /\ \A i \in DOMAIN gen : i # 0 => gen'[i] = gen[i]
    /\ \A i \in DOMAIN gen : \A l \in DOMAIN gen[i] :
          gen[i][l].readable => l \in DOMAIN gen'[i] /\ gen'[i][l] = gen[i][l]
    /\ \A i \in DOMAIN gen' : \A l \in DOMAIN gen'[i] : gen'[i][l].readable =>
          \/ i \in DOMAIN gen /\ l \in DOMAIN gen[i] /\ gen'[i][l] = gen[i][l]
          \/ /\ i = 0 /\ \A m \in DOMAIN gen'[0] : m <= l
             /\ gen'[0][l].record = n /\ gen'[0][l].ended /\ written' = written \union {n}
    /\ \/ written' = written
       \/ /\ written' = written \union {n}
          /\ \E l \in DOMAIN gen'[0] : gen'[0][l].readable /\ gen'[0][l].record = n

LEMMA OpenedFile ==
    /\ DOMAIN Opened = (DOMAIN gen) \union {0}
    /\ \A i \in DOMAIN gen : Opened[i] = gen[i]
    /\ 0 \notin DOMAIN gen => Opened[0] = << >>
    /\ 0 \in DOMAIN gen => Opened = gen
  BY DEF Opened, OpenedNew

LEMMA Writes ==
    ASSUME TrailInv, NEW n \in 1 .. MaxRecords, NEW size \in Nat, Emit(Opened, n, size)
    PROVE  server' = Ready /\ Grows(n)
  <1> DEFINE files == Opened
  <1>1. /\ DOMAIN files = (DOMAIN gen) \union {0}
        /\ \A i \in DOMAIN gen : files[i] = gen[i]
        /\ 0 \notin DOMAIN gen => files[0] = << >>
    BY OpenedFile
  <1>2. Emit(files, n, size)
    OBVIOUS
  <1> HIDE DEF files
  <1>3. \A i \in DOMAIN files : files[i] \in Seq(Line)
    <2>1. << >> \in Seq(Line) /\ \A i \in DOMAIN gen : gen[i] \in Seq(Line)
      BY DEF TrailInv, TrailTypeOK
    <2>2. \A i \in DOMAIN files : i \in DOMAIN gen \/ (i = 0 /\ files[i] = << >>)
      BY <1>1
    <2> QED BY <1>1, <2>1, <2>2
  <1>4. \A i \in DOMAIN files : \A l \in DOMAIN files[i] :
           files[i][l].readable => files[i][l].ended
    BY <1>1 DEF TrailInv, RecordsKnown
  <1>5. server' = Ready /\ EmitsTo(files, n)
    BY <1>1, <1>2, <1>3, <1>4, Emits
  <1>6. \A i \in DOMAIN files : \A l \in DOMAIN files[i] : i \in DOMAIN gen /\ l \in DOMAIN gen[i]
    BY <1>1
  <1> QED BY <1>1, <1>5, <1>6 DEF EmitsTo, Grows

\* What a call of AuditLog.record does: it begins a rotation of a full file, or writes.
LEMMA Records ==
    ASSUME TrailInv, NEW k \in Kinds, Record(k)
    PROVE  /\ Len(made) \in Nat /\ Len(made) + 1 \in 1 .. MaxRecords
           /\ made' \in Seq(Kinds) /\ Len(made') = Len(made) + 1
           /\ server = Ready /\ 0 \in DOMAIN gen
           /\ \/ /\ server' = Rolling(Keep - 1) /\ UNCHANGED <<gen, written>>
                 /\ Full(gen[0])
              \/ server' = Ready /\ Grows(Len(made) + 1)
           /\ UNCHANGED <<rotateBytes, rotateKeep, interrupted>>
  <1>1. /\ made \in Seq(Kinds) /\ Len(made) < MaxRecords /\ server = Ready /\ 0 \in DOMAIN gen
        /\ made' = Append(made, k)
        /\ UNCHANGED <<rotateBytes, rotateKeep, interrupted>>
    BY DEF Record, TrailInv, TrailTypeOK
  <1>2. Len(made) \in Nat /\ MaxRecords \in Nat /\ k.size \in Nat
    BY <1>1, AuditAssumption
  <1>3. /\ Len(made) + 1 \in 1 .. MaxRecords /\ Len(made) + 1 \in Nat
        /\ made' \in Seq(Kinds) /\ Len(made') = Len(made) + 1
    BY <1>1, <1>2
  <1>4. CASE RotatesAt(k.size)
    BY <1>1, <1>2, <1>3, <1>4 DEF Record, RotatesAt, Full
  <1>5. CASE ~RotatesAt(k.size)
    <2>1. Emit(Opened, Len(made) + 1, k.size)
      BY <1>1, <1>5, OpenedFile DEF Record
    <2>2. \A n \in 1 .. MaxRecords, size \in Nat :
             Emit(Opened, n, size) => server' = Ready /\ Grows(n)
      BY Writes
    <2> QED BY <1>1, <1>2, <1>3, <2>1, <2>2
  <1> QED BY <1>4, <1>5

LEMMA RotationEnds ==
    ASSUME TrailInv, EndRotation
    PROVE  /\ server' = Ready /\ Grows(Len(made))
           /\ Len(made) \in 1 .. MaxRecords
           /\ Rotating /\ server.from = -1
           /\ UNCHANGED <<rotateBytes, rotateKeep, made, interrupted>>
  <1>1. /\ Rotating /\ server.from = -1 /\ made \in Seq(Kinds) /\ made # << >>
        /\ Len(made) <= MaxRecords
        /\ Emit(Opened, Len(made), made[Len(made)].size)
        /\ UNCHANGED <<rotateBytes, rotateKeep, made, interrupted>>
    BY KeepNat DEF EndRotation, TrailInv, TrailTypeOK, RecordsKnown, Rotating
  <1>2. Len(made) \in 1 .. MaxRecords /\ made[Len(made)] \in Kinds
    BY <1>1, AuditAssumption
  <1>3. made[Len(made)].size \in Nat
    BY <1>2, AuditAssumption
  <1>4. \A n \in 1 .. MaxRecords, size \in Nat :
           Emit(Opened, n, size) => server' = Ready /\ Grows(n)
    BY Writes
  <1> QED BY <1>1, <1>2, <1>3, <1>4

LEMMA Starts ==
    ASSUME TrailInv, Start, NEW n
    PROVE  Grows(n) /\ server' = Ready /\ server = Down /\ ~Rotating
           /\ UNCHANGED <<rotateBytes, rotateKeep, made, written, interrupted>>
  <1>1. /\ gen' = Opened /\ server = Down /\ server' = Ready
        /\ UNCHANGED <<rotateBytes, rotateKeep, made, written, interrupted>>
    BY DEF Start
  <1>2. \A i \in DOMAIN gen : gen[i] \in Seq(Line)
    BY DEF TrailInv, TrailTypeOK
  <1>3. ~Rotating
    BY <1>1 DEF Rotating, Down
  <1> QED BY <1>1, <1>2, <1>3, OpenedFile DEF Grows

\* What a step of the rotation does: the last file goes, a file becomes the next one, or
\* there is none to be renamed.
LEMMA Rotates ==
    ASSUME TrailInv, Rotate
    PROVE  /\ Rotating /\ Keep \in Nat
           /\ UNCHANGED <<rotateBytes, rotateKeep, made, written, interrupted>>
           /\ \E i \in 0 .. Keep - 1 :
                 /\ server.from = i
                 /\ \/ /\ i = Keep - 1 /\ i \in DOMAIN gen /\ Keep \in DOMAIN gen
                       /\ DOMAIN gen' = (DOMAIN gen) \ {Keep}
                       /\ \A j \in DOMAIN gen' : gen'[j] = gen[j]
                       /\ server' = server
                    \/ /\ i \in DOMAIN gen /\ i + 1 \notin DOMAIN gen
                       /\ DOMAIN gen' = ((DOMAIN gen) \ {i}) \union {i + 1}
                       /\ gen'[i + 1] = gen[i]
                       /\ \A j \in (DOMAIN gen) \ {i} : gen'[j] = gen[j]
                       /\ server' = Rolling(i - 1)
                    \/ /\ i \notin DOMAIN gen
                       /\ gen' = gen
                       /\ server' = Rolling(i - 1)
  <1>1. Rotating /\ Keep \in Nat
        /\ UNCHANGED <<rotateBytes, rotateKeep, made, written, interrupted>>
    BY KeepNat DEF Rotate, Rotating, TrailInv
  <1>2. PICK i \in 0 .. Keep - 1 : i = server.from
    BY <1>1 DEF Rotate, Rotating, TrailInv, TrailTypeOK
  <1>3. CASE {i, i + 1} \subseteq DOMAIN gen /\ gen' = Without(i + 1) /\ server' = server
    <2>1. i = Keep - 1
      BY <1>1, <1>2, <1>3 DEF TrailInv, NextIsFree
    <2>2. i + 1 = Keep
      BY <1>1, <2>1
    <2> QED BY <1>1, <1>2, <1>3, <2>1, <2>2 DEF Without
  <1>4. CASE /\ i \in DOMAIN gen /\ i + 1 \notin DOMAIN gen
             /\ gen' = [j \in (DOMAIN gen \ {i}) \union {i + 1} |->
                           IF j = i + 1 THEN gen[i] ELSE gen[j]]
             /\ server' = Rolling(i - 1)
    BY <1>1, <1>2, <1>4
  <1>5. CASE i \notin DOMAIN gen /\ gen' = gen /\ server' = Rolling(i - 1)
    BY <1>1, <1>2, <1>5
  <1> QED BY <1>1, <1>2, <1>3, <1>4, <1>5 DEF Rotate

-------------------------------------------------------------------------------
(* AuditTrail: a step that writes keeps the invariant *)

\* At first there is one empty file.
LEMMA TrailBegins == TrailInit => TrailInv /\ TrailContiguous /\ RetentionInv
  <1> SUFFICES ASSUME TrailInit PROVE TrailInv /\ TrailContiguous /\ RetentionInv
    OBVIOUS
  <1>1. /\ gen = [i \in {0} |-> << >>] /\ made = << >> /\ server = Ready /\ written = {}
        /\ interrupted = FALSE /\ rotateBytes \in RotateBytes /\ rotateKeep \in RotateKeep
    BY DEF TrailInit
  <1>2. DOMAIN gen = {0} /\ gen[0] = << >> /\ DOMAIN gen[0] = {} /\ << >> \in Seq(Line)
    BY <1>1
  <1>3. Keep \in Nat
    BY <1>1, AuditAssumption DEF Keep
  <1>4. ~Rotating
    BY <1>1 DEF Rotating, Ready
  <1>5. TrailTypeOK
    <2>1. << >> \in Seq(Kinds) /\ Len(<< >>) = 0 /\ MaxRecords \in Nat
      BY AuditAssumption
    <2>2. server.does # "rotates" /\ server \in Servers
      BY <1>1 DEF Ready, Servers
    <2> QED BY <1>1, <1>2, <1>3, <2>1, <2>2 DEF TrailTypeOK
  <1>6. RecordsKnown /\ NextIsFree
    BY <1>1, <1>2, <1>4 DEF RecordsKnown, NextIsFree
  <1>7. TrailContiguous
    BY <1>1, <1>2 DEF TrailContiguous, Kept
  <1>8. RetentionInv
    BY <1>1, <1>2, <1>4 DEF RetentionInv, RotatedAreFull, NoHoles, LostFromTheBack, Lost, Place
  <1> QED BY <1>5, <1>6, <1>7, <1>8 DEF TrailInv

\* The type of the files after a step, and what the lines that can be read hold.
LEMMA GrownTypes ==
    ASSUME TrailInv, NEW n \in Nat, Grows(n), server' = Ready,
           UNCHANGED <<rotateBytes, rotateKeep, interrupted>>,
           made' \in Seq(Kinds), Len(made') <= MaxRecords, written' \subseteq 1 .. Len(made')
    PROVE  TrailInv'
  <1>1. Keep' = Keep /\ Keep \in Nat
    BY KeepNat DEF TrailInv, Keep
  <1>2. ~Rotating' /\ server' \in Servers
    BY DEF Rotating, Ready, Servers
  <1>3. Len(made) \in Nat /\ Len(made') \in Nat /\ MaxRecords \in Nat
    BY AuditAssumption DEF TrailInv, TrailTypeOK
  <1>4. written' \in {written, written \union {n}}
    BY DEF Grows
  <1>5. written' \subseteq 1 .. MaxRecords /\ written' \subseteq 1 .. Len(made')
    BY <1>3
  <1>6. TrailTypeOK'
    BY <1>1, <1>2, <1>5 DEF TrailInv, TrailTypeOK, Grows, Ready, Rotating
  <1>7. RecordsKnown'
    <2> SUFFICES ASSUME NEW i \in DOMAIN gen', NEW l \in DOMAIN gen'[i], gen'[i][l].readable
                 PROVE  gen'[i][l].ended /\ gen'[i][l].record \in written'
      BY <1>2, <1>5 DEF RecordsKnown
    <2>1. CASE i \in DOMAIN gen /\ l \in DOMAIN gen[i] /\ gen'[i][l] = gen[i][l]
      BY <1>4, <2>1 DEF TrailInv, RecordsKnown
    <2>2. CASE gen'[0][l].record = n /\ gen'[0][l].ended /\ written' = written \union {n} /\ i = 0
      BY <2>2
    <2> QED BY <2>1, <2>2 DEF Grows
  <1>8. NextIsFree'
    BY <1>2 DEF NextIsFree
  <1> QED BY <1>6, <1>7, <1>8 DEF TrailInv

\* What is written last is newer than all before.
LEMMA GrownContiguous ==
    ASSUME TrailInv, TrailContiguous, NEW n \in Nat, Grows(n),
           \A m \in written : m < n
    PROVE  TrailContiguous'
  <1>0. /\ n \in Nat /\ written \subseteq Nat
        /\ \A i \in DOMAIN gen : \A l \in DOMAIN gen[i] :
              gen[i][l].readable => gen[i][l].record \in written
        /\ DOMAIN gen \subseteq Nat
    BY AuditAssumption, KeepNat DEF TrailInv, TrailTypeOK, RecordsKnown
  <1> DEFINE Old(i, l) == i \in DOMAIN gen /\ l \in DOMAIN gen[i] /\ gen'[i][l] = gen[i][l]
  <1> DEFINE New(i, l) == /\ i = 0 /\ \A m \in DOMAIN gen'[0] : m <= l
                          /\ gen'[0][l].record = n /\ written' = written \union {n}
  <1>1. \A i \in DOMAIN gen' : \A l \in DOMAIN gen'[i] :
           gen'[i][l].readable => Old(i, l) \/ New(i, l)
    BY DEF Grows
  <1>2. ASSUME NEW i \in DOMAIN gen', NEW l \in DOMAIN gen'[i], NEW m \in DOMAIN gen'[i],
               l < m, gen'[i][l].readable, gen'[i][m].readable
        PROVE  gen'[i][l].record < gen'[i][m].record
    <2>0. l \in Nat /\ m \in Nat
      <3>1. gen'[i] \in Seq(Line)
        BY DEF Grows
      <3> QED BY <3>1
    <2>1. CASE Old(i, l) /\ Old(i, m)
      BY <1>2, <2>1 DEF TrailContiguous
    <2>2. CASE Old(i, l) /\ New(i, m)
      BY <1>0, <1>2, <2>2
    <2>3. CASE New(i, l)
      BY <1>2, <2>0, <2>3
    <2> QED BY <1>1, <1>2, <2>1, <2>2, <2>3
  <1>3. ASSUME NEW i \in DOMAIN gen', NEW j \in DOMAIN gen', j < i,
               NEW l \in DOMAIN gen'[i], NEW m \in DOMAIN gen'[j],
               gen'[i][l].readable, gen'[j][m].readable
        PROVE  gen'[i][l].record < gen'[j][m].record
    <2>1. CASE Old(i, l) /\ Old(j, m)
      BY <1>3, <2>1 DEF TrailContiguous
    <2>2. CASE Old(i, l) /\ New(j, m)
      BY <1>0, <1>3, <2>2
    <2>3. CASE New(i, l)
      <3>1. j \in Nat
        BY <1>0 DEF Grows
      <3> QED BY <1>3, <2>3, <3>1
    <2> QED BY <1>1, <1>3, <2>1, <2>2, <2>3
  <1>4. \A m \in 1 .. MaxRecords : Kept(m)' => m \in written'
    <2> SUFFICES ASSUME NEW i \in DOMAIN gen', NEW l \in DOMAIN gen'[i], gen'[i][l].readable
                 PROVE  gen'[i][l].record \in written'
      BY DEF Kept, Reads
    <2>1. CASE Old(i, l)
      BY <1>0, <2>1 DEF Grows
    <2>2. CASE New(i, l)
      BY <2>2
    <2> QED BY <1>1, <2>1, <2>2
  <1>5. ASSUME NEW m \in written', NEW k \in written', m < k, Kept(m)'
        PROVE  Kept(k)'
    <2>1. CASE k = n /\ written' = written \union {n}
          /\ \E l \in DOMAIN gen'[0] : gen'[0][l].readable /\ gen'[0][l].record = n
      BY <2>1 DEF Grows, Kept, Reads
    <2>2. CASE k \in written
      <3>1. k < n /\ m < n /\ m \in written
        BY <1>0, <1>5, <2>2 DEF Grows
      <3>2. Kept(m)
        <4>1. PICK i \in DOMAIN gen' : \E l \in DOMAIN gen'[i] :
                 gen'[i][l].readable /\ gen'[i][l].record = m
          BY <1>5 DEF Kept, Reads
        <4>2. PICK l \in DOMAIN gen'[i] : gen'[i][l].readable /\ gen'[i][l].record = m
          BY <4>1
        <4>3. Old(i, l)
          BY <1>0, <1>1, <3>1, <4>2
        <4> QED BY <4>2, <4>3 DEF Kept, Reads
      <3>3. Kept(k)
        BY <1>5, <2>2, <3>1, <3>2 DEF TrailContiguous
      <3> QED BY <3>3 DEF Kept, Reads, Grows
    <2> QED BY <2>1, <2>2 DEF Grows
  <1> HIDE DEF Old, New
  <1> QED BY <1>2, <1>3, <1>4, <1>5 DEF TrailContiguous, Reads

\* Nothing is lost by writing.
LEMMA GrownRetention ==
    ASSUME TrailInv, RetentionInv, NEW n \in Nat, Grows(n), server' = Ready,
           Rotating => server.from = -1,
           UNCHANGED <<rotateBytes, rotateKeep, interrupted>>
    PROVE  RetentionInv'
  <1>1. Keep' = Keep /\ Keep \in Nat /\ ~Rotating'
    BY KeepNat DEF TrailInv, Keep, Rotating, Ready
  <1>2. RotatedAreFull'
    <2> SUFFICES ASSUME NEW j \in DOMAIN gen', j >= 1 PROVE Full(gen[j])'
      BY <1>1 DEF RotatedAreFull
    <2>1. j \in DOMAIN gen /\ gen'[j] = gen[j]
      BY DEF Grows
    <2>2. Full(gen[j])
      BY <2>1 DEF RetentionInv, RotatedAreFull
    <2> QED BY <2>1, <2>2 DEF Full
  <1>3. \A h \in DOMAIN gen' : h \in DOMAIN gen \/ h = 0
    BY DEF Grows
  <1>4. \A h : Place(h) => Place(h)'
    BY <1>1 DEF Place, Grows
  <1>5. NoHoles'
    <2> SUFFICES ASSUME ~interrupted, NEW j \in DOMAIN gen', NEW h \in 0 .. j PROVE Place(h)'
      BY DEF NoHoles
    <2>1. CASE j \in DOMAIN gen
      BY <1>4, <2>1 DEF RetentionInv, NoHoles
    <2>2. CASE j = 0
      BY <2>2 DEF Place, Grows
    <2> QED BY <1>3, <2>1, <2>2
  <1>6. Lost' => Lost
    <2> SUFFICES ASSUME NEW m \in written', ~Kept(m)' PROVE Lost
      BY DEF Lost
    <2>1. CASE m \in written
      BY <2>1 DEF Lost, Kept, Reads, Grows
    <2>2. CASE m \notin written
      BY <2>2 DEF Kept, Reads, Grows
    <2> QED BY <2>1, <2>2
  <1>7. LostFromTheBack'
    BY <1>1, <1>4, <1>6 DEF RetentionInv, LostFromTheBack
  <1> QED BY <1>2, <1>5, <1>7 DEF RetentionInv

-------------------------------------------------------------------------------
(* AuditTrail: a step of the rotation keeps the invariant *)

LEMMA RotatedTypes ==
    ASSUME TrailInv, Rotate
    PROVE  TrailInv'
  <1>1. /\ Rotating /\ Keep \in Nat
        /\ UNCHANGED <<rotateBytes, rotateKeep, made, written, interrupted>>
    BY Rotates
  <1>2. Keep' = Keep
    BY <1>1 DEF Keep
  <1>3. PICK i \in 0 .. Keep - 1 :
           /\ server.from = i
           /\ \/ /\ i = Keep - 1 /\ i \in DOMAIN gen /\ Keep \in DOMAIN gen
                 /\ DOMAIN gen' = (DOMAIN gen) \ {Keep}
                 /\ \A j \in DOMAIN gen' : gen'[j] = gen[j]
                 /\ server' = server
              \/ /\ i \in DOMAIN gen /\ i + 1 \notin DOMAIN gen
                 /\ DOMAIN gen' = ((DOMAIN gen) \ {i}) \union {i + 1}
                 /\ gen'[i + 1] = gen[i]
                 /\ \A j \in (DOMAIN gen) \ {i} : gen'[j] = gen[j]
                 /\ server' = Rolling(i - 1)
              \/ /\ i \notin DOMAIN gen
                 /\ gen' = gen
                 /\ server' = Rolling(i - 1)
    BY Rotates
  <1>4. \A j \in DOMAIN gen' : j \in 0 .. Keep /\ \E h \in DOMAIN gen : gen'[j] = gen[h]
    BY <1>1, <1>3 DEF TrailInv, TrailTypeOK
  <1>5. /\ Rotating' /\ server' \in Servers /\ server'.from \in -1 .. Keep - 1
        /\ server' # Ready
    <2>1. CASE server' = server
      BY <1>1, <1>3, <2>1 DEF TrailInv, TrailTypeOK, Rotating, Ready
    <2>2. CASE server' = Rolling(i - 1)
      BY <1>1, <2>2 DEF Rolling, Rotating, Servers, Ready
    <2> QED BY <1>3, <2>1, <2>2
  <1>6. TrailTypeOK'
    BY <1>1, <1>2, <1>4, <1>5 DEF TrailInv, TrailTypeOK
  <1>7. RecordsKnown'
    BY <1>1, <1>4, <1>5 DEF TrailInv, RecordsKnown
  <1>8. NextIsFree'
    <2>1. CASE server' = server /\ i = Keep - 1
      BY <1>1, <1>2, <1>3, <2>1 DEF NextIsFree
    <2>2. CASE server' = Rolling(i - 1)
      <3>1. server'.from + 1 = i /\ i \notin DOMAIN gen'
        BY <1>1, <1>3, <2>2 DEF Rolling, Rotating
      <3> QED BY <3>1 DEF NextIsFree
    <2> QED BY <1>3, <2>1, <2>2
  <1> QED BY <1>6, <1>7, <1>8 DEF TrailInv

\* A renaming keeps the order of the files; the file that goes has the oldest records.
LEMMA RotatedContiguous ==
    ASSUME TrailInv, TrailContiguous, Rotate
    PROVE  TrailContiguous'
  <1>1. Keep \in Nat /\ written' = written /\ DOMAIN gen \subseteq 0 .. Keep
    BY Rotates DEF TrailInv, TrailTypeOK
  <1>2. PICK i \in 0 .. Keep - 1 :
           \/ /\ i = Keep - 1 /\ Keep \in DOMAIN gen
              /\ DOMAIN gen' = (DOMAIN gen) \ {Keep}
              /\ \A j \in DOMAIN gen' : gen'[j] = gen[j]
           \/ /\ i \in DOMAIN gen /\ i + 1 \notin DOMAIN gen
              /\ DOMAIN gen' = ((DOMAIN gen) \ {i}) \union {i + 1}
              /\ gen'[i + 1] = gen[i]
              /\ \A j \in (DOMAIN gen) \ {i} : gen'[j] = gen[j]
           \/ gen' = gen
    BY Rotates
  <1>3. CASE gen' = gen
    BY <1>1, <1>3 DEF TrailContiguous, Kept, Reads
  <1>4. CASE /\ Keep \in DOMAIN gen
             /\ DOMAIN gen' = (DOMAIN gen) \ {Keep}
             /\ \A j \in DOMAIN gen' : gen'[j] = gen[j]
    <2>1. \A j \in DOMAIN gen' : j < Keep /\ j \in DOMAIN gen
      BY <1>1, <1>4
    <2>2. /\ \A n : Kept(n)' => Kept(n)
          /\ \A n \in 1 .. MaxRecords : Kept(n)' => n \in written'
      BY <1>1, <1>4, <2>1 DEF TrailContiguous, Kept, Reads
    <2>3. ASSUME NEW m \in written, NEW n \in written, m < n, Kept(m)'
          PROVE  Kept(n)'
      <3>1. m \in Nat /\ n \in Nat
        BY AuditAssumption DEF TrailInv, TrailTypeOK
      <3>2. PICK j \in DOMAIN gen' : \E l \in DOMAIN gen'[j] :
                gen'[j][l].readable /\ gen'[j][l].record = m
        BY <2>3 DEF Kept, Reads
      <3>3. Kept(n)
        BY <2>2, <2>3 DEF TrailContiguous
      <3>4. PICK h \in DOMAIN gen : \E l \in DOMAIN gen[h] :
                gen[h][l].readable /\ gen[h][l].record = n
        BY <3>3 DEF Kept, Reads
      <3>5. h # Keep
        BY <1>4, <2>1, <3>1, <3>2, <3>4, <2>3 DEF TrailContiguous
      <3> QED BY <1>4, <3>4, <3>5 DEF Kept, Reads
    <2> QED BY <1>1, <1>4, <2>1, <2>2, <2>3 DEF TrailContiguous, Reads
  <1>5. CASE /\ i \in DOMAIN gen /\ i + 1 \notin DOMAIN gen
             /\ DOMAIN gen' = ((DOMAIN gen) \ {i}) \union {i + 1}
             /\ gen'[i + 1] = gen[i]
             /\ \A j \in (DOMAIN gen) \ {i} : gen'[j] = gen[j]
    <2> DEFINE Was(j) == IF j = i + 1 THEN i ELSE j
    <2>1. \A j \in DOMAIN gen' : Was(j) \in DOMAIN gen /\ gen'[j] = gen[Was(j)]
      BY <1>1, <1>5
    <2>2. \A j, h \in DOMAIN gen' : j < h => Was(j) < Was(h)
      BY <1>1, <1>5
    <2>3. \A n : Kept(n)' => Kept(n)
      BY <2>1 DEF Kept, Reads
    <2>4. ASSUME NEW n, Kept(n) PROVE Kept(n)'
      <3>1. PICK h \in DOMAIN gen : \E l \in DOMAIN gen[h] :
                gen[h][l].readable /\ gen[h][l].record = n
        BY <2>4 DEF Kept, Reads
      <3>2. CASE h = i
        BY <1>5, <3>1, <3>2 DEF Kept, Reads
      <3>3. CASE h # i
        BY <1>5, <3>1, <3>3 DEF Kept, Reads
      <3> QED BY <3>2, <3>3
    <2> HIDE DEF Was
    <2>5. \A h \in DOMAIN gen' : \A l, m \in DOMAIN gen'[h] :
             l < m /\ gen'[h][l].readable /\ gen'[h][m].readable
                => gen'[h][l].record < gen'[h][m].record
      BY <2>1 DEF TrailContiguous
    <2>6. \A h, j \in DOMAIN gen' : j < h =>
             \A l \in DOMAIN gen'[h], m \in DOMAIN gen'[j] :
                gen'[h][l].readable /\ gen'[j][m].readable
                   => gen'[h][l].record < gen'[j][m].record
      BY <2>1, <2>2 DEF TrailContiguous
    <2>7. \A n \in 1 .. MaxRecords : Kept(n)' => n \in written'
      BY <1>1, <2>3 DEF TrailContiguous
    <2>8. \A m, n \in written' : m < n /\ Kept(m)' => Kept(n)'
      BY <1>1, <2>3, <2>4 DEF TrailContiguous
    <2> QED BY <2>5, <2>6, <2>7, <2>8 DEF TrailContiguous
  <1> QED BY <1>2, <1>3, <1>4, <1>5

\* When the last file goes all are there, and full; a renaming fills the next place.
LEMMA RotatedRetention ==
    ASSUME TrailInv, RetentionInv, Rotate
    PROVE  RetentionInv'
  <1>1. /\ Rotating /\ Keep \in Nat
        /\ UNCHANGED <<rotateBytes, rotateKeep, made, written, interrupted>>
        /\ DOMAIN gen \subseteq 0 .. Keep
    BY Rotates DEF TrailInv, TrailTypeOK
  <1>2. Keep' = Keep
    BY <1>1 DEF Keep
  <1>3. PICK i \in 0 .. Keep - 1 :
           /\ server.from = i
           /\ \/ /\ i = Keep - 1 /\ i \in DOMAIN gen /\ Keep \in DOMAIN gen
                 /\ DOMAIN gen' = (DOMAIN gen) \ {Keep}
                 /\ \A j \in DOMAIN gen' : gen'[j] = gen[j]
                 /\ server' = server
              \/ /\ i \in DOMAIN gen /\ i + 1 \notin DOMAIN gen
                 /\ DOMAIN gen' = ((DOMAIN gen) \ {i}) \union {i + 1}
                 /\ gen'[i + 1] = gen[i]
                 /\ \A j \in (DOMAIN gen) \ {i} : gen'[j] = gen[j]
                 /\ server' = Rolling(i - 1)
              \/ /\ i \notin DOMAIN gen
                 /\ gen' = gen
                 /\ server' = Rolling(i - 1)
    BY Rotates
  <1>4. \A j \in DOMAIN gen' : \E h \in DOMAIN gen : gen'[j] = gen[h]
    BY <1>1, <1>3
  <1>5. \A j \in DOMAIN gen : Full(gen[j])
    BY <1>1, <1>3 DEF RetentionInv, RotatedAreFull
  <1>6. RotatedAreFull'
    BY <1>1, <1>4, <1>5 DEF RotatedAreFull, Full
  <1>7. CASE /\ i = Keep - 1 /\ Keep \in DOMAIN gen
             /\ DOMAIN gen' = (DOMAIN gen) \ {Keep}
             /\ server' = server
    <2>1. Rotating' /\ server'.from + 1 = Keep
      BY <1>1, <1>3, <1>7 DEF Rotating
    <2>2. \A h : Place(h) => Place(h)'
      BY <1>1, <1>3, <1>7, <2>1 DEF Place
    <2>3. NoHoles'
      BY <1>1, <1>7, <2>2 DEF RetentionInv, NoHoles
    <2>4. LostFromTheBack'
      BY <1>1, <1>2, <1>7, <2>2 DEF RetentionInv, NoHoles, LostFromTheBack
    <2> QED BY <1>6, <2>3, <2>4 DEF RetentionInv
  <1>8. CASE /\ i \in DOMAIN gen /\ i + 1 \notin DOMAIN gen
             /\ DOMAIN gen' = ((DOMAIN gen) \ {i}) \union {i + 1}
             /\ gen'[i + 1] = gen[i]
             /\ \A j \in (DOMAIN gen) \ {i} : gen'[j] = gen[j]
             /\ server' = Rolling(i - 1)
    <2>1. Rotating' /\ server'.from + 1 = i
      BY <1>1, <1>8 DEF Rotating, Rolling
    <2>2. \A h : Place(h) => Place(h)'
      BY <1>1, <1>3, <1>8, <2>1 DEF Place
    <2>3. NoHoles'
      <3> SUFFICES ASSUME ~interrupted, NEW j \in DOMAIN gen', NEW h \in 0 .. j PROVE Place(h)'
        BY <1>1 DEF NoHoles
      <3>1. CASE j \in DOMAIN gen
        BY <2>2, <3>1 DEF RetentionInv, NoHoles
      <3>2. CASE j = i + 1
        <4>1. CASE h \in 0 .. i
          BY <1>8, <2>2, <4>1 DEF RetentionInv, NoHoles
        <4>2. CASE h = i + 1
          BY <1>8, <4>2 DEF Place
        <4> QED BY <3>2, <4>1, <4>2
      <3> QED BY <1>8, <3>1, <3>2
    <2>4. ASSUME NEW n, Kept(n) PROVE Kept(n)'
      <3>1. PICK h \in DOMAIN gen : \E l \in DOMAIN gen[h] :
                gen[h][l].readable /\ gen[h][l].record = n
        BY <2>4 DEF Kept, Reads
      <3>2. CASE h = i
        BY <1>8, <3>1, <3>2 DEF Kept, Reads
      <3>3. CASE h # i
        BY <1>8, <3>1, <3>3 DEF Kept, Reads
      <3> QED BY <3>2, <3>3
    <2>5. Lost' => Lost
      BY <1>1, <2>4 DEF Lost
    <2>6. LostFromTheBack'
      BY <1>1, <1>2, <2>2, <2>5 DEF RetentionInv, LostFromTheBack
    <2> QED BY <1>6, <2>3, <2>6 DEF RetentionInv
  <1>9. CASE /\ i \notin DOMAIN gen
             /\ gen' = gen
             /\ server' = Rolling(i - 1)
    <2>1. ~Place(i)
      BY <1>1, <1>3, <1>9 DEF Place
    <2>2. ~interrupted => \A j \in DOMAIN gen : j < i
      BY <1>1, <2>1 DEF RetentionInv, NoHoles
    <2>3. NoHoles'
      <3> SUFFICES ASSUME ~interrupted, NEW j \in DOMAIN gen, NEW h \in 0 .. j PROVE Place(h)'
        BY <1>1, <1>9 DEF NoHoles
      <3>1. Place(h) /\ h # server.from + 1
        BY <1>1, <1>3, <2>2 DEF RetentionInv, NoHoles
      <3> QED BY <1>9, <3>1 DEF Place
    <2>4. ~interrupted => ~Lost
      BY <1>1, <2>1 DEF RetentionInv, LostFromTheBack
    <2>5. Lost' => Lost
      BY <1>1, <1>9 DEF Lost, Kept, Reads
    <2> QED BY <1>1, <1>6, <2>3, <2>4, <2>5 DEF RetentionInv, LostFromTheBack
  <1> QED BY <1>3, <1>7, <1>8, <1>9

-------------------------------------------------------------------------------
(* AuditTrail: every step keeps the invariant *)

\* A rotation begins when audit.log is full.
LEMMA RotationBegins ==
    ASSUME TrailInv, TrailContiguous, RetentionInv, server = Ready, 0 \in DOMAIN gen,
           Len(made) \in Nat, Len(made) + 1 \in 1 .. MaxRecords,
           made' \in Seq(Kinds), Len(made') = Len(made) + 1,
           server' = Rolling(Keep - 1), UNCHANGED <<gen, written>>, Full(gen[0]),
           UNCHANGED <<rotateBytes, rotateKeep, interrupted>>
    PROVE  TrailInv' /\ TrailContiguous' /\ RetentionInv'
  <1>1. /\ Keep \in Nat /\ Keep' = Keep /\ ~Rotating /\ Rotating' /\ server'.from = Keep - 1
        /\ server' # Ready /\ MaxRecords \in Nat /\ DOMAIN gen \subseteq 0 .. Keep
    BY KeepNat, AuditAssumption
    DEF TrailInv, TrailTypeOK, Keep, Rotating, Ready, Rolling
  <1>2. server' \in Servers /\ server'.from \in -1 .. Keep - 1
    BY <1>1 DEF Rolling, Servers
  <1>3. TrailTypeOK'
    BY <1>1, <1>2 DEF TrailInv, TrailTypeOK
  <1>4. made' # << >> /\ Len(made') \notin written
    BY DEF TrailInv, RecordsKnown
  <1>5. written \subseteq 1 .. Len(made')
    BY DEF TrailInv, RecordsKnown
  <1>6. RecordsKnown' /\ NextIsFree'
    BY <1>1, <1>4, <1>5 DEF TrailInv, RecordsKnown, NextIsFree
  <1>7. TrailContiguous'
    BY DEF TrailContiguous, Kept, Reads
  <1>8. RotatedAreFull'
    <2>1. \A j \in DOMAIN gen : j >= 1 \/ j = 0
      BY <1>1
    <2>2. \A j \in DOMAIN gen : Full(gen[j])
      BY <2>1 DEF RetentionInv, RotatedAreFull
    <2> QED BY <2>2 DEF RotatedAreFull, Full
  <1>9. \A h : Place(h) => Place(h)'
    BY <1>1 DEF Place
  <1>10. NoHoles' /\ LostFromTheBack'
    BY <1>1, <1>9 DEF RetentionInv, NoHoles, LostFromTheBack, Lost, Kept, Reads
  <1> QED BY <1>3, <1>6, <1>7, <1>8, <1>10 DEF TrailInv, RetentionInv

\* A kill leaves the files; if they were being rotated, history says so.
LEMMA Killed ==
    ASSUME TrailInv, TrailContiguous, RetentionInv, Kill
    PROVE  TrailInv' /\ TrailContiguous' /\ RetentionInv'
  <1>1. /\ server' = Down /\ interrupted' = (interrupted \/ Rotating)
        /\ UNCHANGED <<rotateBytes, rotateKeep, gen, made, written>>
    BY DEF Kill, Rotating
  <1>2. ~Rotating' /\ server' \in Servers /\ server' # Ready /\ interrupted' \in BOOLEAN
    BY <1>1 DEF Rotating, Down, Servers, Ready
  <1>3. Keep' = Keep
    BY <1>1 DEF Keep
  <1>4. TrailTypeOK'
    BY <1>1, <1>2, <1>3 DEF TrailInv, TrailTypeOK, Rotating
  <1>5. RecordsKnown' /\ NextIsFree'
    BY <1>1, <1>2 DEF TrailInv, RecordsKnown, NextIsFree
  <1>6. TrailContiguous'
    BY <1>1 DEF TrailContiguous, Kept, Reads
  <1>7. RotatedAreFull'
    BY <1>1, <1>2 DEF RetentionInv, RotatedAreFull, Full
  <1>8. NoHoles'
    BY <1>1 DEF RetentionInv, NoHoles, Place
  <1>9. Lost' => Lost
    BY <1>1 DEF Lost, Kept, Reads
  <1>10. LostFromTheBack'
    BY <1>1, <1>3, <1>9 DEF RetentionInv, LostFromTheBack, Place
  <1> QED BY <1>4, <1>5, <1>6, <1>7, <1>8, <1>10 DEF TrailInv, RetentionInv

\* Every step of AuditTrail keeps the three invariants.
LEMMA TrailSteps ==
    ASSUME TrailInv, TrailContiguous, RetentionInv, [TrailNext]_trailVars
    PROVE  TrailInv' /\ TrailContiguous' /\ RetentionInv'
  <1>0. /\ Len(made) \in Nat /\ made \in Seq(Kinds) /\ Len(made) <= MaxRecords
        /\ written \subseteq 1 .. Len(made) /\ MaxRecords \in Nat \ {0}
    BY AuditAssumption DEF TrailInv, TrailTypeOK, RecordsKnown
  <1>1. ASSUME NEW k \in Kinds, Record(k)
        PROVE  TrailInv' /\ TrailContiguous' /\ RetentionInv'
    <2>1. /\ Len(made) + 1 \in 1 .. MaxRecords
          /\ made' \in Seq(Kinds) /\ Len(made') = Len(made) + 1
          /\ server = Ready /\ 0 \in DOMAIN gen
          /\ \/ /\ server' = Rolling(Keep - 1) /\ UNCHANGED <<gen, written>>
                /\ Full(gen[0])
             \/ server' = Ready /\ Grows(Len(made) + 1)
          /\ UNCHANGED <<rotateBytes, rotateKeep, interrupted>>
      BY <1>1, Records
    <2>2. CASE server' = Rolling(Keep - 1) /\ UNCHANGED <<gen, written>> /\ Full(gen[0])
      BY <1>0, <2>1, <2>2, RotationBegins
    <2>3. CASE server' = Ready /\ Grows(Len(made) + 1)
      <3>1. PICK n \in 1 .. MaxRecords : n = Len(made) + 1
        BY <2>1
      <3>2. /\ n \in Nat /\ Grows(n) /\ Len(made') <= MaxRecords /\ \A m \in written : m < n
            /\ written' \in {written, written \union {n}}
        BY <1>0, <2>1, <2>3, <3>1 DEF Grows
      <3>2a. written' \subseteq 1 .. Len(made')
        BY <1>0, <2>1, <3>1, <3>2
      <3>3. ~Rotating
        BY <2>1 DEF Rotating, Ready
      <3>4. TrailInv'
        BY <2>1, <2>3, <3>2, <3>2a, GrownTypes
      <3>5. TrailContiguous'
        BY <3>2, GrownContiguous
      <3>6. RetentionInv'
        BY <2>1, <2>3, <3>2, <3>3, GrownRetention
      <3> QED BY <3>4, <3>5, <3>6
    <2> QED BY <2>1, <2>2, <2>3
  <1>2. CASE Rotate
    BY <1>2, RotatedTypes, RotatedContiguous, RotatedRetention
  <1>3. CASE EndRotation
    <2>1. /\ server' = Ready /\ Grows(Len(made)) /\ Len(made) \in 1 .. MaxRecords
          /\ Rotating /\ server.from = -1
          /\ UNCHANGED <<rotateBytes, rotateKeep, made, interrupted>>
      BY <1>3, RotationEnds
    <2>2. PICK n \in 1 .. MaxRecords : n = Len(made)
      BY <2>1
    <2>3. Len(made) \notin written
      BY <2>1 DEF TrailInv, RecordsKnown
    <2>4. /\ n \in Nat /\ Grows(n) /\ \A m \in written : m < n
          /\ written' \in {written, written \union {n}}
      BY <1>0, <2>1, <2>2, <2>3 DEF Grows
    <2>4a. written' \subseteq 1 .. Len(made')
      BY <1>0, <2>1, <2>2, <2>4
    <2>5. TrailInv'
      BY <1>0, <2>1, <2>4, <2>4a, GrownTypes
    <2>6. TrailContiguous'
      BY <2>4, GrownContiguous
    <2>7. RetentionInv'
      BY <2>1, <2>4, GrownRetention
    <2> QED BY <2>5, <2>6, <2>7
  <1>4. CASE Kill
    BY <1>4, Killed
  <1>5. CASE Start
    <2>0. /\ server' = Ready /\ ~Rotating
          /\ UNCHANGED <<rotateBytes, rotateKeep, made, written, interrupted>>
      BY <1>5, Starts
    <2>1. PICK n \in Nat : n = MaxRecords + 1
      BY <1>0
    <2>2. Grows(n)
      BY <1>5, Starts
    <2>3. /\ made' \in Seq(Kinds) /\ Len(made') <= MaxRecords
          /\ written' \subseteq 1 .. Len(made') /\ \A m \in written : m < n
      BY <1>0, <2>0, <2>1
    <2>4. TrailInv'
      BY <2>0, <2>2, <2>3, GrownTypes
    <2>5. TrailContiguous'
      BY <2>2, <2>3, GrownContiguous
    <2>6. RetentionInv'
      BY <2>0, <2>2, GrownRetention
    <2> QED BY <2>4, <2>5, <2>6
  <1>6. CASE UNCHANGED trailVars
    <2>1. UNCHANGED <<rotateBytes, rotateKeep, gen, made, server, written, interrupted>>
      BY <1>6 DEF trailVars
    <2>2. TrailInv'
      BY <2>1 DEF TrailInv, TrailTypeOK, RecordsKnown, NextIsFree, Keep, Rotating
    <2>3. TrailContiguous'
      BY <2>1 DEF TrailContiguous, Kept, Reads
    <2>4. RetentionInv'
      BY <2>1 DEF RetentionInv, RotatedAreFull, NoHoles, LostFromTheBack, Lost, Place, Kept,
                  Reads, Full, Keep, Rotating
    <2> QED BY <2>2, <2>3, <2>4
  <1> QED BY <1>1, <1>2, <1>3, <1>4, <1>5, <1>6 DEF TrailNext

-------------------------------------------------------------------------------
(* AuditTrail: where the latest record is *)

\* If the latest record was written, it can be read from audit.log.
LatestIsActive ==
    Len(made) \in written => 0 \in DOMAIN gen /\ \E l \in DOMAIN gen[0] : Reads(0, l, Len(made))

LEMMA GrownLatest ==
    ASSUME NEW n, Grows(n), n \notin written, Len(made') = n
    PROVE  LatestIsActive'
  BY DEF Grows, LatestIsActive, Reads

LEMMA LatestStays ==
    ASSUME TrailInv, LatestIsActive, [TrailNext]_trailVars
    PROVE  LatestIsActive'
  <1>0. Len(made) \in Nat /\ written \subseteq 1 .. Len(made)
    BY DEF TrailInv, TrailTypeOK, RecordsKnown
  <1>1. ASSUME NEW k \in Kinds, Record(k) PROVE LatestIsActive'
    <2>1. /\ Len(made') = Len(made) + 1 /\ Len(made) + 1 \notin written
          /\ \/ UNCHANGED <<gen, written>>
             \/ Grows(Len(made) + 1)
      BY <1>0, <1>1, Records
    <2>2. CASE UNCHANGED <<gen, written>>
      BY <2>1, <2>2 DEF LatestIsActive
    <2>3. CASE Grows(Len(made) + 1)
      BY <2>1, <2>3, GrownLatest
    <2> QED BY <2>1, <2>2, <2>3
  <1>2. CASE Rotate
    <2>1. Rotating /\ UNCHANGED <<made, written>>
      BY <1>2, Rotates
    <2> QED BY <2>1 DEF TrailInv, RecordsKnown, LatestIsActive
  <1>3. CASE EndRotation
    <2>1. Rotating /\ Grows(Len(made)) /\ made' = made
      BY <1>3, RotationEnds
    <2>2. Len(made) \notin written
      BY <2>1 DEF TrailInv, RecordsKnown
    <2> QED BY <2>1, <2>2, GrownLatest
  <1>4. CASE Kill
    BY <1>4 DEF Kill, LatestIsActive, Reads
  <1>5. CASE Start
    <2>1. Grows(0) /\ UNCHANGED <<made, written>>
      BY <1>5, Starts
    <2> QED BY <2>1 DEF Grows, LatestIsActive, Reads
  <1>6. CASE UNCHANGED trailVars
    BY <1>6 DEF trailVars, LatestIsActive, Reads
  <1> QED BY <1>1, <1>2, <1>3, <1>4, <1>5, <1>6 DEF TrailNext

-------------------------------------------------------------------------------
(* Induction on natural numbers *)

\* A set of natural numbers that is not empty has a least member.
LEMMA Least ==
    ASSUME NEW T \in SUBSET Nat, T # {}
    PROVE  \E x \in T : \A y \in T : x <= y
  <1>1. PICK x \in T : \A y \in T : ~(<<y, x>> \in OpToRel(<, Nat))
    BY NatLessThanWellFounded, WFMin
  <1>2. \A y \in T : ~(y < x)
    BY <1>1 DEF OpToRel
  <1> QED BY <1>2

\* Induction for a set rather than an operator, which is what the provers can instantiate.
LEMMA AllNumbers ==
    ASSUME NEW T, 0 \in T, \A k \in Nat : k \in T => k + 1 \in T
    PROVE  Nat \subseteq T
  <1> SUFFICES ASSUME ~(Nat \subseteq T) PROVE FALSE
    OBVIOUS
  <1>1. Nat \ T # {} /\ Nat \ T \in SUBSET Nat
    OBVIOUS
  <1>2. PICK n \in Nat \ T : \A m \in Nat \ T : n <= m
    BY <1>1, Least
  <1>3. n - 1 \in Nat
    BY <1>2
  <1>4. n - 1 \in T
    BY <1>2, <1>3
  <1> QED BY <1>2, <1>3, <1>4

-------------------------------------------------------------------------------
(* AuditTrail: the loops that fill the pages *)

\* One turn of the loop of Places, over a file of `top` lines.
Turn(top, wanted, limit, before, k) ==
    IF top + 1 - k \in wanted /\ Len(before) < limit THEN Append(before, top + 1 - k) ELSE before

Loop(top, wanted, limit, n, p) ==
    p = [k \in 0 .. n |-> IF k = 0 THEN << >> ELSE Turn(top, wanted, limit, p[k - 1], k)]

LEMMA LoopEnds ==
    ASSUME NEW top, NEW wanted, NEW limit
    PROVE  \A n \in Nat : \E p : Loop(top, wanted, limit, n, p)
  <1> DEFINE T == {n \in Nat : \E p : Loop(top, wanted, limit, n, p)}
  <1>1. 0 \in T
    <2>1. Loop(top, wanted, limit, 0, [k \in 0 .. 0 |-> << >>])
      BY DEF Loop
    <2> QED BY <2>1
  <1>2. ASSUME NEW n \in Nat, n \in T PROVE n + 1 \in T
    <2>1. PICK p : Loop(top, wanted, limit, n, p)
      BY <1>2
    <2> DEFINE q == [k \in 0 .. n + 1 |-> IF k = n + 1 THEN Turn(top, wanted, limit, p[n], n + 1)
                                          ELSE p[k]]
    <2>2. \A k \in 0 .. n + 1 : q[k] = IF k = 0 THEN << >> ELSE Turn(top, wanted, limit, q[k - 1], k)
      <3> SUFFICES ASSUME NEW k \in 0 .. n + 1
                   PROVE  q[k] = IF k = 0 THEN << >> ELSE Turn(top, wanted, limit, q[k - 1], k)
        OBVIOUS
      <3>1. CASE k = n + 1
        <4>1. k # 0 /\ k - 1 = n /\ n \in 0 .. n + 1 /\ n # n + 1
          BY <3>1
        <4>2. q[k - 1] = p[n] /\ q[k] = Turn(top, wanted, limit, p[n], n + 1)
          BY <3>1, <4>1
        <4> HIDE DEF q
        <4> QED BY <3>1, <4>1, <4>2
      <3>2. CASE k # n + 1
        <4>1. k \in 0 .. n /\ (k # 0 => k - 1 \in 0 .. n /\ k - 1 \in 0 .. n + 1 /\ k - 1 # n + 1)
          BY <3>2
        <4>2. q[k] = p[k] /\ (k # 0 => q[k - 1] = p[k - 1])
          BY <3>2, <4>1
        <4>3. p[k] = IF k = 0 THEN << >> ELSE Turn(top, wanted, limit, p[k - 1], k)
          BY <2>1, <4>1 DEF Loop
        <4> HIDE DEF q
        <4> QED BY <4>2, <4>3
      <3> QED BY <3>1, <3>2
    <2>3. q = [k \in 0 .. n + 1 |-> q[k]]
      OBVIOUS
    <2> HIDE DEF q
    <2>4. Loop(top, wanted, limit, n + 1, q)
      BY <2>2, <2>3 DEF Loop
    <2> QED BY <2>4
  <1>3. Nat \subseteq T
    <2> HIDE DEF T
    <2> QED BY <1>1, <1>2, AllNumbers
  <1> QED BY <1>3

\* Places is what a loop of n turns ends with.
LEMMA PlacesLoop ==
    ASSUME NEW lines, NEW wanted, NEW n \in Nat, NEW limit
    PROVE  \E p : Loop(Len(lines), wanted, limit, n, p) /\ Places(lines, wanted, n, limit) = p[n]
  <1>1. PICK p : p = CHOOSE q : Loop(Len(lines), wanted, limit, n, q)
    OBVIOUS
  <1>2. Loop(Len(lines), wanted, limit, n, p)
    BY <1>1, LoopEnds
  <1>3. Places(lines, wanted, n, limit) = p[n]
    BY <1>1 DEF Places, Loop, Turn
  <1> QED BY <1>2, <1>3

\* What the loop has collected after k turns: wanted lines among the last k, from the last
\* one back, and all of them until the limit is reached.
Collects(p, top, wanted, limit, k) ==
    /\ p \in Seq(Nat)
    /\ \A i \in DOMAIN p : p[i] \in wanted /\ p[i] > top - k
    /\ \A i, j \in DOMAIN p : i < j => p[i] > p[j]
    /\ \A l \in wanted : l > top - k =>
          \/ \E i \in DOMAIN p : p[i] = l
          \/ Len(p) >= limit /\ \A i \in DOMAIN p : p[i] > l

LEMMA TurnCollects ==
    ASSUME NEW top \in Nat, NEW wanted \in SUBSET (1 .. top), NEW limit \in Nat, NEW k \in 1 .. top,
           NEW p, Collects(p, top, wanted, limit, k - 1)
    PROVE  Collects(Turn(top, wanted, limit, p, k), top, wanted, limit, k)
  <1> DEFINE l == top + 1 - k
  <1>1. /\ l \in 1 .. top /\ l \in Nat /\ l = (top - k) + 1 /\ l = top - (k - 1)
        /\ \A m \in Nat : m > top - k <=> m >= l
        /\ \A m \in Nat : m > top - (k - 1) <=> m > l
    OBVIOUS
  <1>2. /\ p \in Seq(Nat) /\ Len(p) \in Nat /\ DOMAIN p = 1 .. Len(p)
        /\ \A i \in DOMAIN p : p[i] \in Nat /\ p[i] \in wanted /\ p[i] > l
        /\ \A i, j \in DOMAIN p : i < j => p[i] > p[j]
        /\ \A m \in wanted : m > l =>
              \/ \E i \in DOMAIN p : p[i] = m
              \/ Len(p) >= limit /\ \A i \in DOMAIN p : p[i] > m
    <2>1. p \in Seq(Nat)
      BY DEF Collects
    <2>2. Len(p) \in Nat /\ DOMAIN p = 1 .. Len(p) /\ \A i \in DOMAIN p : p[i] \in Nat
      BY <2>1
    <2> QED BY <1>1, <2>1, <2>2 DEF Collects
  <1>3. CASE l \in wanted /\ Len(p) < limit
    <2> DEFINE q == Append(p, l)
    <2>1. Turn(top, wanted, limit, p, k) = q
      BY <1>3 DEF Turn
    <2>2. /\ q \in Seq(Nat) /\ Len(q) = Len(p) + 1 /\ DOMAIN q = 1 .. Len(p) + 1
          /\ \A i \in 1 .. Len(p) : q[i] = p[i]
          /\ q[Len(p) + 1] = l
      BY <1>1, <1>2
    <2> HIDE DEF q, l
    <2>3. \A i \in DOMAIN q : (i \in DOMAIN p /\ q[i] = p[i]) \/ (i = Len(p) + 1 /\ q[i] = l)
      BY <1>2, <2>2
    <2>4. \A i \in DOMAIN q : q[i] \in wanted /\ q[i] >= l /\ q[i] \in Nat
      BY <1>1, <1>2, <1>3, <2>3
    <2>5. ASSUME NEW i \in DOMAIN q, NEW j \in DOMAIN q, i < j PROVE q[i] > q[j]
      <3>1. i \in DOMAIN p /\ q[i] = p[i]
        BY <1>2, <2>2, <2>3, <2>5
      <3> QED BY <1>2, <2>3, <2>5, <3>1
    <2>6. ASSUME NEW m \in wanted, m >= l
          PROVE  \/ \E i \in DOMAIN q : q[i] = m
                 \/ Len(q) >= limit /\ \A i \in DOMAIN q : q[i] > m
      <3>1. CASE m = l
        BY <1>2, <2>2, <3>1
      <3>2. CASE m > l
        <4>1. \E i \in DOMAIN p : p[i] = m
          BY <1>2, <1>3, <3>2
        <4> QED BY <1>2, <2>2, <4>1
      <3>3. m \in Nat
        OBVIOUS
      <3> QED BY <1>1, <2>6, <3>1, <3>2, <3>3
    <2> QED BY <1>1, <2>1, <2>2, <2>4, <2>5, <2>6 DEF Collects
  <1>4. CASE ~(l \in wanted /\ Len(p) < limit)
    <2>1. Turn(top, wanted, limit, p, k) = p
      BY <1>4 DEF Turn
    <2> HIDE DEF l
    <2>2. ASSUME NEW m \in wanted, m >= l
          PROVE  \/ \E i \in DOMAIN p : p[i] = m
                 \/ Len(p) >= limit /\ \A i \in DOMAIN p : p[i] > m
      <3>1. m \in Nat
        OBVIOUS
      <3>2. CASE m = l
        BY <1>2, <1>4, <3>2
      <3>3. CASE m > l
        BY <1>2, <3>3
      <3> QED BY <1>1, <2>2, <3>1, <3>2, <3>3
    <2>3. \A i \in DOMAIN p : p[i] > top - k
      BY <1>1, <1>2
    <2> QED BY <1>1, <1>2, <2>1, <2>2, <2>3 DEF Collects
  <1> QED BY <1>3, <1>4

\* What a loop over the last n lines keeps.
LEMMA PlacesCollect ==
    ASSUME NEW lines, Len(lines) \in Nat, NEW wanted \in SUBSET (1 .. Len(lines)),
           NEW limit \in Nat, NEW n \in 0 .. Len(lines)
    PROVE  Collects(Places(lines, wanted, n, limit), Len(lines), wanted, limit, n)
  <1>1. PICK top \in Nat : top = Len(lines)
    OBVIOUS
  <1>2. PICK p : Loop(top, wanted, limit, n, p) /\ Places(lines, wanted, n, limit) = p[n]
    BY <1>1, PlacesLoop
  <1> DEFINE T == {k \in Nat : k <= n => Collects(p[k], top, wanted, limit, k)}
  <1>3. 0 \in T
    <2>1. p[0] = << >>
      BY <1>2 DEF Loop
    <2>2. \A l \in wanted : ~(l > top - 0)
      BY <1>1
    <2>3. Collects(<< >>, top, wanted, limit, 0)
      BY <2>2 DEF Collects
    <2> QED BY <2>1, <2>3
  <1>4. ASSUME NEW k \in Nat, k \in T PROVE k + 1 \in T
    <2> SUFFICES ASSUME k + 1 <= n PROVE Collects(p[k + 1], top, wanted, limit, k + 1)
      OBVIOUS
    <2>1. k + 1 \in 1 .. top /\ k + 1 \in 0 .. n /\ k + 1 # 0 /\ (k + 1) - 1 = k /\ k <= n
      BY <1>1
    <2>2. Collects(p[k], top, wanted, limit, (k + 1) - 1)
      BY <1>4, <2>1
    <2>3. p[k + 1] = Turn(top, wanted, limit, p[k], k + 1)
      BY <1>2, <2>1 DEF Loop
    <2> QED BY <1>1, <2>1, <2>2, <2>3, TurnCollects
  <1>5. Nat \subseteq T
    <2> HIDE DEF T
    <2> QED BY <1>3, <1>4, AllNumbers
  <1> QED BY <1>1, <1>2, <1>5

\* Which lines of audit.log a page of the given records should show.
Shows(wanted, records) ==
    \A l \in DOMAIN Active : l \in wanted <=> Active[l].readable /\ Active[l].record \in records

LEMMA ActiveType ==
    ASSUME TrailTypeOK
    PROVE  /\ Active \in Seq(Line)
           /\ Len(Active) \in Nat
           /\ DOMAIN Active = 1 .. Len(Active)
           /\ \A l \in DOMAIN Active : Active[l].record \in Nat
  <1>1. Active \in Seq(Line)
    BY DEF TrailTypeOK, Active
  <1>2. \A l \in DOMAIN Active : Active[l] \in Line
    BY <1>1
  <1> QED BY <1>1, <1>2, AuditAssumption DEF Line

\* A page filled from the last n lines of audit.log with those of some records shows the
\* newest of these records: what is newer than a record in audit.log is there too.
LEMMA PageIsNewest ==
    ASSUME TrailInv, TrailContiguous, NEW records \in SUBSET written,
           NEW wanted \in SUBSET DOMAIN Active, Shows(wanted, records),
           NEW limit \in Nat, NEW n \in 0 .. Len(Active)
    PROVE  NewestOf(LinesAt(Active, Places(Active, wanted, n, limit)), records)
  <1>1. /\ DOMAIN Active = 1 .. Len(Active) /\ Len(Active) \in Nat
        /\ \A l \in DOMAIN Active : Active[l].record \in Nat
    BY ActiveType DEF TrailInv
  <1>2. PICK p : p = Places(Active, wanted, n, limit)
    OBVIOUS
  <1>3. PICK top \in Nat : top = Len(Active)
    BY <1>1
  <1>4. Collects(p, top, wanted, limit, n)
    BY <1>1, <1>2, <1>3, PlacesCollect
  <1>5. PICK page : page = LinesAt(Active, p)
    OBVIOUS
  <1>6. DOMAIN page = DOMAIN p /\ \A i \in DOMAIN p : page[i] = Active[p[i]]
    BY <1>5 DEF LinesAt
  <1>7. /\ \A i \in DOMAIN p : p[i] \in wanted /\ p[i] \in Nat /\ p[i] > top - n
        /\ \A i, j \in DOMAIN p : i < j => p[i] > p[j]
        /\ \A l \in wanted : l > top - n =>
              (\E i \in DOMAIN p : p[i] = l) \/ \A i \in DOMAIN p : p[i] > l
    BY <1>1, <1>4 DEF Collects
  <1>8. \A l \in wanted : /\ l \in DOMAIN Active /\ Active[l].readable
                          /\ Active[l].record \in records /\ l \in Nat
    BY <1>1 DEF Shows
  <1>9. \A l \in wanted : 0 \in DOMAIN gen /\ Active = gen[0]
    BY <1>8 DEF Active
  <1>10. \A l, m \in wanted : l < m => Active[l].record < Active[m].record
    BY <1>8, <1>9 DEF TrailContiguous
  <1>11. ASSUME NEW i \in DOMAIN page, NEW j \in DOMAIN page, i < j
         PROVE  page[i].record > page[j].record
    <2>1. p[i] \in wanted /\ p[j] \in wanted /\ p[j] < p[i]
      BY <1>6, <1>7, <1>11
    <2>2. Active[p[j]].record < Active[p[i]].record
      BY <1>10, <2>1
    <2> QED BY <1>1, <1>6, <1>8, <2>1, <2>2
  <1>12. \A i \in DOMAIN page : page[i].record \in records
    BY <1>6, <1>7, <1>8
  <1>13. ASSUME NEW i \in DOMAIN page, NEW r \in records, r > page[i].record
         PROVE  \E j \in DOMAIN page : page[j].record = r
    <2>1. PICK m \in wanted : m = p[i] /\ page[i] = Active[m] /\ m > top - n
      BY <1>6, <1>7
    <2>2. /\ 0 \in DOMAIN gen /\ Active = gen[0] /\ m \in DOMAIN gen[0] /\ m \in Nat
          /\ gen[0][m].readable /\ gen[0][m].record \in written /\ gen[0][m].record < r
          /\ gen[0][m].record \in Nat /\ r \in Nat
      <3>1. written \subseteq Nat
        BY AuditAssumption DEF TrailInv, TrailTypeOK
      <3> QED BY <1>8, <1>9, <1>13, <2>1, <3>1
    <2>3. Kept(gen[0][m].record)
      BY <2>2 DEF Kept, Reads
    <2>4. Kept(r)
      BY <2>2, <2>3 DEF TrailContiguous
    <2>5. PICK g \in DOMAIN gen : \E l \in DOMAIN gen[g] : Reads(g, l, r)
      BY <2>4 DEF Kept
    <2>6. PICK l \in DOMAIN gen[g] : gen[g][l].readable /\ gen[g][l].record = r
      BY <2>5 DEF Reads
    <2>7. g = 0
      <3>1. g \in Nat
        BY KeepNat DEF TrailInv, TrailTypeOK
      <3>2. CASE g > 0
        <4>1. gen[g][l].record < gen[0][m].record
          BY <2>2, <2>6, <3>2 DEF TrailContiguous
        <4> QED BY <2>2, <2>6, <4>1
      <3> QED BY <3>1, <3>2
    <2>8. l \in wanted /\ l \in Nat
      BY <1>1, <2>2, <2>6, <2>7 DEF Shows
    <2>9. l > m
      <3>1. ~(l < m)
        <4> SUFFICES ASSUME l < m PROVE FALSE
          OBVIOUS
        <4>1. Active[l].record < Active[m].record
          BY <1>10, <2>8
        <4> QED BY <2>2, <2>6, <2>7, <4>1
      <3>2. l # m
        BY <2>2, <2>6, <2>7
      <3> QED BY <2>2, <2>8, <3>1, <3>2
    <2>10. l > top - n
      BY <1>3, <2>1, <2>2, <2>8, <2>9
    <2>11. \E j \in DOMAIN p : p[j] = l
      BY <1>6, <1>7, <2>1, <2>2, <2>8, <2>9, <2>10
    <2> QED BY <1>6, <2>2, <2>6, <2>7, <2>11
  <1>14. NewestOf(page, records)
    BY <1>11, <1>12, <1>13 DEF NewestOf
  <1> QED BY <1>2, <1>5, <1>14

\* A page over all of audit.log is not empty if there is a line for it.
LEMMA PageNotEmpty ==
    ASSUME TrailTypeOK, NEW wanted \in SUBSET DOMAIN Active, wanted # {}, NEW limit \in Nat \ {0}
    PROVE  LinesAt(Active, Places(Active, wanted, Len(Active), limit)) # << >>
  <1>1. DOMAIN Active = 1 .. Len(Active) /\ Len(Active) \in Nat
    BY ActiveType
  <1>2. PICK p : p = Places(Active, wanted, Len(Active), limit)
    OBVIOUS
  <1>3. Collects(p, Len(Active), wanted, limit, Len(Active))
    BY <1>1, <1>2, PlacesCollect
  <1>4. PICK l \in wanted : l \in 1 .. Len(Active)
    BY <1>1
  <1>5. (\E i \in DOMAIN p : p[i] = l) \/ Len(p) >= limit
    BY <1>1, <1>3, <1>4 DEF Collects
  <1>6. DOMAIN p # {}
    <2>1. p \in Seq(Nat)
      BY <1>3 DEF Collects
    <2>2. Len(p) \in Nat /\ DOMAIN p = 1 .. Len(p)
      BY <2>1
    <2>3. CASE Len(p) >= limit
      <3>1. 1 \in 1 .. Len(p)
        BY <2>2, <2>3
      <3> QED BY <2>2, <3>1
    <2> QED BY <1>5, <2>3
  <1>7. DOMAIN LinesAt(Active, p) = DOMAIN p
    BY DEF LinesAt
  <1>8. DOMAIN << >> = {}
    OBVIOUS
  <1> QED BY <1>2, <1>6, <1>7, <1>8

-------------------------------------------------------------------------------
(* AuditTrail: the theorems *)

\* The inductive invariant behind the theorems about the audit trail.
AuditInv == TrailInv /\ TrailContiguous /\ RetentionInv /\ LatestIsActive

LEMMA TrailAlways == TrailSpec => []AuditInv
  <1>1. TrailInit => AuditInv
    BY TrailBegins DEF AuditInv, TrailInit, LatestIsActive
  <1>2. AuditInv /\ [TrailNext]_trailVars => AuditInv'
    BY TrailSteps, LatestStays DEF AuditInv
  <1> QED BY <1>1, <1>2, PTL DEF TrailSpec

\* The types of AuditTrail: audit.log.i exists for i up to backupCount only, and a server
\* that serves has audit.log open.
THEOREM TrailTypes == TrailSpec => []TrailTypeOK
  <1>1. AuditInv => TrailTypeOK
    BY DEF AuditInv, TrailInv
  <1> QED BY <1>1, TrailAlways, PTL

\* docs/observability.md:61-62: whatever is killed between two renames and whichever
\* write fails, the files hold a run of the records that were written, in order and up
\* to the latest.
THEOREM TrailUnbroken == TrailSpec => []TrailContiguous
  <1>1. AuditInv => TrailContiguous
    BY DEF AuditInv
  <1> QED BY <1>1, TrailAlways, PTL

\* docs/security.md:103-105: a record is lost only when all of the RotateKeep rotated
\* files are there and full, unless the server was killed while it rotated them.
THEOREM RetentionKept == TrailSpec => []RetentionFloor
  <1>1. TrailInv /\ RetentionInv => RetentionFloor
    <2> SUFFICES ASSUME TrailInv, RetentionInv, ~interrupted, server = Ready, Lost,
                        NEW i \in 1 .. rotateKeep
                 PROVE  i \in DOMAIN gen /\ Full(gen[i])
      BY DEF RetentionFloor, Lost
    <2>1. ~Rotating /\ rotateKeep \in Int
      BY KeepNat DEF Rotating, Ready, TrailInv
    <2>2. i \in 0 .. Keep /\ i >= 1
      BY <2>1 DEF Keep
    <2>3. i \in DOMAIN gen
      BY <2>1, <2>2 DEF RetentionInv, LostFromTheBack, Place
    <2> QED BY <2>2, <2>3 DEF RetentionInv, RotatedAreFull
  <1>2. AuditInv => TrailInv /\ RetentionInv
    BY DEF AuditInv
  <1> QED BY <1>1, <1>2, TrailAlways, PTL
\* docs/gui-guide.md:26, observability.md:51-53: the pages show the newest records that
\* match their filter, however many there are and whichever lines cannot be read, and the
\* latest is on the admin page as soon as its call is answered.
THEOREM PagesShowNewest == TrailSpec => []ViewIsNewest
  <1>1. AuditInv => ViewIsNewest
    <2> SUFFICES ASSUME AuditInv PROVE ViewIsNewest
      OBVIOUS
    <2>1. TrailInv /\ TrailContiguous /\ LatestIsActive /\ TrailTypeOK
      BY DEF AuditInv, TrailInv
    <2>2. \A l \in DOMAIN Active : Active[l].readable => Active[l].record \in written
      BY <2>1 DEF TrailInv, RecordsKnown, Active
    <2>3. PageLimit \in Nat \ {0} /\ RecentLines \in Nat \ {0} /\ Len(Active) \in Nat
      BY <2>1, AuditAssumption, ActiveType
    <2>4. ASSUME NEW f \in Filters
          PROVE  LET matching == {n \in written : Matches(n, f)}
                 IN  /\ NewestOf(AdminPage(f), matching)
                     /\ server = Ready /\ Len(made) \in matching => AdminPage(f) # << >>
      <3> DEFINE matching == {n \in written : Matches(n, f)}
      <3>1. Shows(Wanted(f), matching)
        BY <2>2 DEF Shows, Wanted
      <3>2. Wanted(f) \in SUBSET DOMAIN Active /\ matching \in SUBSET written
        BY DEF Wanted
      <3>3. NewestOf(AdminPage(f), matching)
        <4>1. Len(Active) \in 0 .. Len(Active) /\ PageLimit \in Nat
          BY <2>3
        <4> HIDE DEF matching
        <4> QED BY <2>1, <3>1, <3>2, <4>1, PageIsNewest DEF AdminPage
      <3>4. ASSUME Len(made) \in matching PROVE AdminPage(f) # << >>
        <4>1. PICK l \in DOMAIN gen[0] : 0 \in DOMAIN gen /\ Reads(0, l, Len(made))
          BY <2>1, <3>4 DEF LatestIsActive
        <4>2. Active = gen[0]
          BY <4>1 DEF Active
        <4>3. l \in Wanted(f)
          BY <3>1, <3>4, <4>1, <4>2 DEF Shows, Reads
        <4> QED BY <2>1, <2>3, <3>2, <4>3, PageNotEmpty DEF AdminPage
      <3> QED BY <3>3, <3>4
    <2>5. NewestOf(Dashboard, written)
      <3>1. PICK n \in 0 .. Len(Active) : n = IF Len(Active) < RecentLines THEN Len(Active)
                                              ELSE RecentLines
        BY <2>3
      <3>2. Shows(Readable, written) /\ Readable \in SUBSET DOMAIN Active
        BY <2>2 DEF Shows, Readable
      <3>3. n \in Nat
        BY <2>3, <3>1
      <3>4. NewestOf(LinesAt(Active, Places(Active, Readable, n, n)), written)
        BY <2>1, <3>2, <3>3, PageIsNewest
      <3> QED BY <3>1, <3>4 DEF Dashboard
    <2> QED BY <2>4, <2>5 DEF ViewIsNewest
  <1> QED BY <1>1, TrailAlways, PTL
===============================================================================
