--------------------------- MODULE AuditLogProofs ---------------------------
(* The chain of module AuditLog, for every number of threads, every length  *)
(* of the file and every fault: type correctness, what verify() says of a   *)
(* file that nobody else touched, and the survival of acknowledged entries. *)
EXTENDS AuditLog, SequenceTheorems, TLAPS

Lines(f) == {f[i] : i \in DOMAIN f}

IsFile(f) == f \in Seq(Lines(f))

EntryOK(e) == DOMAIN e = {"seq", "payload", "prev", "hash"} /\ e.seq \in Nat

LineOK(line) ==
    /\ DOMAIN line = {"parses", "ended", "entry"}
    /\ line.parses \in BOOLEAN /\ line.ended \in BOOLEAN
    /\ line.parses => EntryOK(line.entry)

FileOK == IsFile(file) /\ \A i \in 1..Len(file) : LineOK(file[i])

ThreadsOK ==
    /\ DOMAIN thread = Threads
    /\ \A t \in Threads :
          /\ DOMAIN thread[t] = {"pc", "entry"}
          /\ thread[t].pc # "idle" => EntryOK(thread[t].entry) /\ status = "up"

TypesOK ==
    TypeOK /\ FileOK /\ ThreadsOK /\ damage \in Nat \cup {None}

(* Line i comes before whatever a fault may have spoiled.                   *)
Unspoiled(i) == damage = None \/ i < damage

LinesSound ==
    \A i \in 1..Len(file) : Unspoiled(i) => Good(file, i) /\ file[i].ended

Wrote(t) == thread[t].pc \in {"written", "synced"}

(* The writer knows the end of the file, unless that is spoiled.            *)
EndKnown ==
    status = "up" /\ Unspoiled(Len(file) + 1) =>
        /\ (\A t \in Threads : ~Wrote(t)) => mem = Resumed(file)
        /\ \A t \in Threads :
              /\ thread[t].pc = "built" =>
                    LET e == thread[t].entry
                    IN  e = Entry(Len(file) + 1, e.payload, Resumed(file).prev)
              /\ Wrote(t) => /\ file # << >> /\ Last(file).parses
                             /\ Last(file).entry = thread[t].entry
              /\ thread[t].pc = "synced" => synced = Len(file)

AckedKept ==
    \A a \in acked :
        a.damaged \/ \E i \in 1..synced : /\ Unspoiled(i) /\ file[i].parses
                                          /\ file[i].entry = a.entry

IInv == TypesOK /\ (change = None => LinesSound /\ EndKnown /\ AckedKept)

-----------------------------------------------------------------------------
(* Files.                                                                   *)

LEMMA FileIntro ==
    ASSUME NEW S, NEW f \in Seq(S)
    PROVE  IsFile(f)
<1>1. f \in [1..Len(f) -> Lines(f)] /\ Len(f) \in Nat
  BY LenProperties DEF Lines
<1> QED
  BY <1>1 DEF IsFile

LEMMA FileFacts ==
    ASSUME NEW f, IsFile(f)
    PROVE  Len(f) \in Nat /\ DOMAIN f = 1..Len(f)
  BY LenProperties DEF IsFile

LEMMA Appended ==
    ASSUME NEW f, IsFile(f), NEW line
    PROVE  /\ IsFile(Append(f, line))
           /\ Len(Append(f, line)) = Len(f) + 1
           /\ Append(f, line)[Len(f) + 1] = line
           /\ \A i \in 1..Len(f) : Append(f, line)[i] = f[i]
<1> DEFINE S == Lines(f) \cup {line}
<1>1. f \in Seq(S) /\ line \in S
  BY SeqMonotonic DEF IsFile
<1>2. /\ Append(f, line) \in Seq(S)
      /\ Len(Append(f, line)) = Len(f) + 1
      /\ \A i \in 1..Len(f) : Append(f, line)[i] = f[i]
      /\ Append(f, line)[Len(f) + 1] = line
  BY <1>1, AppendProperties
<1>3. IsFile(Append(f, line))
  BY <1>2, FileIntro
<1> QED
  BY <1>2, <1>3

LEMMA Prefix ==
    ASSUME NEW f, IsFile(f), NEW n \in 0..Len(f)
    PROVE  /\ IsFile(SubSeq(f, 1, n))
           /\ Len(SubSeq(f, 1, n)) = n
           /\ \A i \in 1..n : SubSeq(f, 1, n)[i] = f[i]
<1>1. Len(f) \in Nat /\ \A i \in 1..n : f[i] \in Lines(f)
  BY FileFacts DEF Lines
<1>2. SubSeq(f, 1, n) \in Seq(Lines(f))
  BY <1>1, SubSeqProperties
<1>3. Len(SubSeq(f, 1, n)) = n /\ \A i \in 1..n : SubSeq(f, 1, n)[i] = f[i]
  BY <1>1, SubSeqProperties
<1> QED
  BY <1>2, <1>3, FileIntro

(* A line added after a dangling one takes that one with it.                *)
LEMMA LineAppended ==
    ASSUME NEW f, IsFile(f), NEW line
    PROVE  LET g == AppendLine(f, line)
           IN  /\ IsFile(g)
               /\ ~Dangling(f) => /\ Len(g) = Len(f) + 1 /\ g[Len(f) + 1] = line
                                  /\ \A i \in 1..Len(f) : g[i] = f[i]
               /\ Dangling(f) => /\ Len(f) > 0 /\ Len(g) = Len(f)
                                 /\ g[Len(f)] = Garbled(line.ended)
                                 /\ \A i \in 1..Len(f) - 1 : g[i] = f[i]
<1>1. CASE ~Dangling(f)
  BY <1>1, Appended DEF AppendLine
<1>2. CASE Dangling(f)
  <2>1. Len(f) \in Nat /\ f # << >> /\ Len(f) > 0
    BY <1>2, FileFacts, EmptySeq DEF Dangling, IsFile
  <2>2. /\ IsFile(Front(f)) /\ Len(Front(f)) = Len(f) - 1
        /\ \A i \in 1..Len(f) - 1 : Front(f)[i] = f[i]
    <3>1. Len(f) - 1 \in 0..Len(f)
      BY <2>1
    <3> QED
      BY <3>1, Prefix DEF Front
  <2> QED
    BY <1>2, <2>1, <2>2, Appended DEF AppendLine
<1> QED
  BY <1>1, <1>2

LEMMA LinesOK ==
    ASSUME NEW entry, EntryOK(entry), NEW ended \in BOOLEAN
    PROVE  LineOK(Whole(entry)) /\ LineOK(Bare(entry)) /\ LineOK(Garbled(ended))
  BY DEF LineOK, Whole, Bare, Garbled

LEMMA FileAppendOK ==
    ASSUME FileOK, NEW line, LineOK(line)
    PROVE  LET g == AppendLine(file, line)
           IN  /\ IsFile(g) /\ Len(g) \in Nat /\ Len(file) \in Nat /\ Len(file) <= Len(g)
               /\ \A i \in 1..Len(g) : LineOK(g[i])
<1> DEFINE g == AppendLine(file, line)
<1>1. Len(file) \in Nat /\ IsFile(g) /\ Len(g) \in Nat
  BY LineAppended, FileFacts DEF FileOK
<1>2. LineOK(Garbled(line.ended))
  BY DEF LineOK, Garbled
<1>3. CASE ~Dangling(file)
  <2>1. /\ Len(g) = Len(file) + 1 /\ g[Len(file) + 1] = line
        /\ \A i \in 1..Len(file) : g[i] = file[i]
    BY <1>3, LineAppended DEF FileOK
  <2>2. \A i \in 1..Len(g) : LineOK(g[i])
    BY <1>1, <2>1 DEF FileOK
  <2> QED
    BY <1>1, <2>1, <2>2
<1>4. CASE Dangling(file)
  <2>1. /\ Len(g) = Len(file) /\ g[Len(file)] = Garbled(line.ended)
        /\ \A i \in 1..Len(file) - 1 : g[i] = file[i]
    BY <1>4, LineAppended DEF FileOK
  <2>2. \A i \in 1..Len(g) : LineOK(g[i])
    BY <1>1, <1>2, <2>1 DEF FileOK
  <2> QED
    BY <1>1, <2>1, <2>2
<1> QED
  BY <1>1, <1>3, <1>4

LEMMA SpoilsOK ==
    ASSUME damage \in Nat \cup {None}, NEW line \in Nat, Spoils(line)
    PROVE  /\ damage' \in Nat /\ damage' <= line
           /\ damage # None => damage' <= damage
           /\ damage' = line \/ damage' = damage
  BY LogAssumption DEF Spoils

-----------------------------------------------------------------------------
(* Type correctness, one action after the other.                            *)

LEMMA InitOK == Init => IInv
<1> SUFFICES ASSUME Init PROVE IInv
  OBVIOUS
<1>1. IsFile(file) /\ Len(file) = 0
  BY EmptySeq, FileIntro DEF Init
<1>2. FileOK /\ ThreadsOK
  BY <1>1 DEF Init, FileOK, ThreadsOK, NotRunning
<1>3. TypesOK
  BY <1>1, <1>2 DEF Init, TypesOK, TypeOK, NotRunning, Empty
<1>4. LinesSound /\ AckedKept
  BY <1>1 DEF Init, LinesSound, AckedKept
<1>5. EndKnown
  BY DEF Init, EndKnown, NotRunning, Wrote, Resumed
<1> QED
  BY <1>3, <1>4, <1>5 DEF IInv

LEMMA TypesRecord ==
    ASSUME TypesOK, NEW t \in Threads, Record(t)
    PROVE  TypesOK'
<1> USE DEF TypesOK
<1>0. /\ Len(file) \in Nat /\ Len(file) + 1 \in Nat /\ synced \in 0..Len(file)
      /\ DOMAIN thread = Threads /\ DOMAIN thread[t] = {"pc", "entry"}
  BY FileFacts DEF FileOK, TypeOK, ThreadsOK
<1>1. CASE \E payload \in Payloads : Begin(t, payload)
  <2>1. PICK payload \in Payloads : Begin(t, payload)
    BY <1>1
  <2>2. EntryOK(NextEntry(payload))
    BY <2>1 DEF Begin, At, TypeOK, NextEntry, Entry, EntryOK
  <2>3. \A u \in Threads : thread[u].pc = "idle"
    BY <2>1, LogAssumption DEF Begin, TypeOK
  <2> QED
    BY <1>0, <2>1, <2>2, <2>3 DEF Begin, At, TypeOK, FileOK, ThreadsOK, history
<1>2. CASE Write(t)
  <2>1. EntryOK(thread[t].entry) /\ LineOK(Whole(thread[t].entry))
    BY <1>2, LinesOK DEF Write, At, ThreadsOK
  <2>2. file' = AppendLine(file, Whole(thread[t].entry))
    BY <1>2 DEF Write
  <2>3. FileOK' /\ Len(file)' \in Nat /\ Len(file) <= Len(file)'
    BY <2>1, <2>2, FileAppendOK DEF FileOK
  <2> QED
    BY <1>0, <1>2, <2>3 DEF Write, At, Goes, TypeOK, ThreadsOK, history
<1>3. CASE WriteFails(t)
  <2>1. EntryOK(thread[t].entry)
    BY <1>3 DEF WriteFails, At, ThreadsOK
  <2>2. LineOK(Garbled(FALSE)) /\ LineOK(Bare(thread[t].entry))
    BY <2>1, LinesOK
  <2>3. FileOK' /\ Len(file)' \in Nat /\ Len(file) <= Len(file)'
    <3>1. CASE UNCHANGED file
      BY <1>0, <3>1 DEF FileOK
    <3>2. CASE file' \in CutShort(file, thread[t].entry)
      BY <2>2, <3>2, FileAppendOK DEF CutShort, FileOK
    <3> QED
      BY <1>3, <3>1, <3>2 DEF WriteFails
  <2>4. damage' \in Nat \cup {None}
    BY <1>0, <1>3, SpoilsOK DEF WriteFails
  <2> QED
    BY <1>0, <1>3, <2>3, <2>4 DEF WriteFails, At, Leaves, NotRunning, TypeOK, ThreadsOK
<1>4. CASE Sync(t)
  BY <1>0, <1>4 DEF Sync, At, Goes, TypeOK, FileOK, ThreadsOK, history
<1>5. CASE SyncFails(t)
  <2>1. damage' \in Nat \cup {None}
    BY <1>0, <1>5, SpoilsOK DEF SyncFails
  <2> QED
    BY <1>0, <1>5, <2>1 DEF SyncFails, At, Leaves, NotRunning, TypeOK, FileOK, ThreadsOK
<1>6. CASE Return(t)
  <2>1. mem'.seq \in Nat
    BY <1>6 DEF Return, At, ThreadsOK, EntryOK, EndAt
  <2> QED
    BY <1>0, <1>6, <2>1 DEF Return, At, Leaves, NotRunning, TypeOK, FileOK, ThreadsOK
<1>7. CASE TornCrash(t)
  <2>1. EntryOK(thread[t].entry)
    BY <1>7 DEF TornCrash, At, ThreadsOK
  <2>2. LineOK(Garbled(FALSE)) /\ LineOK(Bare(thread[t].entry))
    BY <2>1, LinesOK
  <2>3. FileOK' /\ Len(file)' \in Nat /\ Len(file) <= Len(file)'
    BY <1>0, <1>7, <2>2, FileAppendOK DEF TornCrash, CutShort, FileOK
  <2>4. damage' \in Nat \cup {None}
    BY <1>0, <1>7, SpoilsOK DEF TornCrash
  <2> QED
    BY <1>0, <1>7, <2>3, <2>4 DEF TornCrash, GoesDown, NotRunning, TypeOK, ThreadsOK
<1> QED
  BY <1>1, <1>2, <1>3, <1>4, <1>5, <1>6, <1>7 DEF Record

LEMMA TypesRestart ==
    ASSUME TypesOK, Crash \/ PowerLoss \/ Start \/ StartFails
    PROVE  TypesOK'
<1> USE DEF TypesOK
<1>0. Len(file) \in Nat /\ synced \in 0..Len(file) /\ DOMAIN thread = Threads
  BY FileFacts DEF FileOK, TypeOK, ThreadsOK
<1>1. CASE Crash
  BY <1>0, <1>1 DEF Crash, GoesDown, NotRunning, TypeOK, FileOK, ThreadsOK, history
<1>2. CASE PowerLoss
  <2>1. PICK n \in synced..Len(file) : file' = SubSeq(file, 1, n)
    BY <1>2 DEF PowerLoss
  <2>2. n \in 0..Len(file)
    BY <1>0
  <2>3. FileOK' /\ Len(file)' = n
    BY <2>1, <2>2, <1>0, Prefix DEF FileOK
  <2> QED
    BY <1>0, <1>2, <2>1, <2>3
       DEF PowerLoss, GoesDown, NotRunning, TypeOK, ThreadsOK, history
<1>3. CASE Start
  <2>1. mem'.seq \in Nat
    <3>1. CASE file = << >>
      BY <1>3, <3>1 DEF Start, Resumed, Empty
    <3>2. CASE file # << >>
      <4>1. Len(file) \in 1..Len(file)
        BY <1>0, <3>2, EmptySeq DEF FileOK, IsFile
      <4>2. EntryOK(Last(file).entry)
        BY <1>3, <4>1, FileFacts DEF Start, Readable, FileOK, LineOK, Last
      <4> QED
        BY <1>3, <3>2, <4>2 DEF Start, Resumed, EndAt, EntryOK
    <3> QED
      BY <3>1, <3>2
  <2>2. \A t \in Threads : thread[t].pc = "idle"
    BY <1>3 DEF Start, ThreadsOK
  <2> QED
    BY <1>0, <1>3, <2>1, <2>2 DEF Start, TypeOK, FileOK, ThreadsOK, history
<1>4. CASE StartFails
  BY <1>0, <1>4 DEF StartFails, TypeOK, FileOK, ThreadsOK, history
<1> QED
  BY <1>1, <1>2, <1>3, <1>4

(* A change from outside leaves a file of lines, and a trace.               *)
LEMMA TypesTamper ==
    ASSUME TypesOK, NEW i \in DOMAIN file, Tamper(i)
    PROVE  TypesOK' /\ change' # None
<1> USE DEF TypesOK
<1>0. /\ Len(file) \in Nat /\ synced \in 0..Len(file) /\ i \in 1..Len(file) /\ i \in Nat
  BY FileFacts DEF FileOK, TypeOK
<1>1. ASSUME NEW line, LineOK(line), NEW sealed \in BOOLEAN, Altered(i, line, sealed)
      PROVE  TypesOK' /\ change' # None
  <2>1. /\ IsFile(file') /\ Len(file') = Len(file)
        /\ \A j \in 1..Len(file) : LineOK(file'[j])
    <3> DEFINE S == Lines(file) \cup {line}
    <3>1. file \in Seq(S) /\ line \in S
      BY SeqMonotonic DEF FileOK, IsFile
    <3>2. file' = [file EXCEPT ![i] = line]
      BY <1>1 DEF Altered, ReplaceAt
    <3> HIDE DEF S
    <3>3. file' \in Seq(S) /\ Len(file') = Len(file)
      BY <1>0, <3>1, <3>2, ExceptSeq
    <3>4. \A j \in 1..Len(file) : file'[j] = IF j = i THEN line ELSE file[j]
      BY <1>0, <3>1, <3>2, ExceptSeq
    <3> QED
      BY <1>1, <3>3, <3>4, FileIntro DEF FileOK
  <2>2. change' \in [line : Nat, sealed : BOOLEAN]
    BY <1>0, <1>1 DEF Altered
  <2> QED
    BY <1>0, <1>1, <2>1, <2>2, LogAssumption
       DEF Altered, process, TypeOK, FileOK, ThreadsOK
<1>2. ASSUME NEW payload \in Payloads, file[i].parses, Edit(i, payload)
      PROVE  TypesOK' /\ change' # None
  <2> DEFINE line == [file[i] EXCEPT !.entry.payload = payload]
  <2>1. LineOK(line)
    BY <1>0, <1>2 DEF FileOK, LineOK, EntryOK
  <2>2. Altered(i, line, i <= synced)
    BY <1>2 DEF Edit
  <2>3. (i <= synced) \in BOOLEAN
    BY <1>0
  <2> HIDE DEF line
  <2> QED
    BY <1>1, <2>1, <2>2, <2>3
<1>3. ASSUME NEW payload \in Payloads, file[i].parses, Forge(i, payload)
      PROVE  TypesOK' /\ change' # None
  <2> DEFINE e == file[i].entry
             line == [file[i] EXCEPT !.entry = Entry(e.seq, payload, e.prev)]
  <2>1. LineOK(line)
    BY <1>0, <1>3 DEF FileOK, LineOK, EntryOK, Entry
  <2>2. Altered(i, line, i < synced)
    BY <1>3 DEF Forge
  <2>3. (i < synced) \in BOOLEAN
    BY <1>0
  <2> HIDE DEF line
  <2> QED
    BY <1>1, <2>1, <2>2, <2>3
<1>4. ASSUME Delete(i)
      PROVE  TypesOK' /\ change' # None
  <2> DEFINE S == Lines(file)
             before == SubSeq(file, 1, i - 1)
             after  == SubSeq(file, i + 1, Len(file))
  <2>1. \A j \in 1..Len(file) : file[j] \in S
    BY FileFacts DEF FileOK, Lines
  <2> HIDE DEF S
  <2>2. before \in Seq(S) /\ Len(before) = i - 1
    BY <1>0, <2>1, SubSeqProperties
  <2>3. after \in Seq(S) /\ Len(after) = Len(file) - i
    BY <1>0, <2>1, SubSeqProperties
  <2>4. file' = before \o after
    BY <1>4 DEF Delete, RemoveAt
  <2>5. file' \in Seq(S) /\ Len(file') = Len(file) - 1
    <3>1. file' \in Seq(S) /\ Len(file') = Len(before) + Len(after)
      BY <2>2, <2>3, <2>4, ConcatProperties
    <3> HIDE DEF before, after
    <3> QED
      BY <1>0, <2>2, <2>3, <3>1
  <2>6. \A line \in S : LineOK(line)
    BY FileFacts DEF FileOK, Lines, S
  <2>7. FileOK'
    BY <2>5, <2>6, FileIntro, ElementOfSeq DEF FileOK
  <2>8. synced' \in 0..Len(file')
    BY <1>0, <1>4, <2>5 DEF Delete
  <2>9. change' \in [line : Nat, sealed : BOOLEAN]
    BY <1>0, <1>4 DEF Delete
  <2> QED
    BY <1>4, <2>5, <2>7, <2>8, <2>9, LogAssumption
       DEF Delete, process, TypeOK, ThreadsOK
<1> QED
  BY <1>2, <1>3, <1>4 DEF Tamper
-----------------------------------------------------------------------------
(* The chain.                                                               *)

(* Only one thread at a time is in record().                                *)
LEMMA Alone ==
    ASSUME TypesOK, NEW t \in Threads, thread[t].pc # "idle"
    PROVE  \A u \in Threads : u # t => thread[u].pc = "idle"
  BY DEF TypesOK, TypeOK

LEMMA FileLength ==
    ASSUME TypesOK
    PROVE  Len(file) \in Nat /\ synced \in 0..Len(file) /\ DOMAIN file = 1..Len(file)
  BY FileFacts DEF TypesOK, FileOK, TypeOK

(* Whether a line is good depends on it and the line before it.             *)
LEMMA GoodSame ==
    ASSUME NEW f, NEW g, NEW i \in Nat, g[i] = f[i], i # 1 => g[i - 1] = f[i - 1]
    PROVE  Good(g, i) <=> Good(f, i)
  BY DEF Good, Follows

(* Before a fault the last line is whole.                                   *)
LEMMA NotDangling ==
    ASSUME TypesOK, LinesSound, Unspoiled(Len(file))
    PROVE  ~Dangling(file)
<1>1. Len(file) \in Nat /\ IsFile(file)
  BY FileLength DEF TypesOK, FileOK
<1>2. CASE file = << >>
  BY <1>2 DEF Dangling
<1>3. CASE file # << >>
  <2>1. Len(file) \in 1..Len(file)
    BY <1>1, <1>3, EmptySeq DEF IsFile
  <2> QED
    BY <2>1 DEF LinesSound, Dangling, Last
<1> QED
  BY <1>2, <1>3

(* Before a fault the end of the file says how long it is.                  *)
LEMMA EndIsLength ==
    ASSUME TypesOK, LinesSound, Unspoiled(Len(file) + 1)
    PROVE  Resumed(file).seq = Len(file)
<1>1. Len(file) \in Nat /\ IsFile(file) /\ damage \in Nat \cup {None}
  BY FileLength DEF TypesOK, FileOK
<1>2. CASE file = << >>
  BY <1>2, EmptySeq DEF Resumed, Empty
<1>3. CASE file # << >>
  <2>1. Len(file) \in 1..Len(file)
    BY <1>1, <1>3, EmptySeq DEF IsFile
  <2>2. Unspoiled(Len(file))
    BY <1>1 DEF Unspoiled
  <2>3. file[Len(file)].entry.seq = Len(file)
    BY <2>1, <2>2 DEF LinesSound, Good, Follows
  <2> QED
    BY <1>3, <2>3 DEF Resumed, EndAt, Last
<1> QED
  BY <1>2, <1>3

(* Appending leaves every line alone that comes before a fault.             *)
LEMMA Grown ==
    ASSUME TypesOK, LinesSound, NEW line
    PROVE  LET g == AppendLine(file, line)
           IN  /\ Len(g) \in {Len(file), Len(file) + 1}
               /\ \A i \in 1..Len(file) :
                     Unspoiled(i) => g[i] = file[i] /\ Good(g, i) /\ g[i].ended
               /\ Unspoiled(Len(file) + 1) =>
                     Len(g) = Len(file) + 1 /\ g[Len(file) + 1] = line
<1> DEFINE g == AppendLine(file, line)
<1>1. Len(file) \in Nat /\ IsFile(file) /\ damage \in Nat \cup {None}
  BY FileLength DEF TypesOK, FileOK
<1>2. Len(g) \in {Len(file), Len(file) + 1}
  BY <1>1, LineAppended
<1>3. \A i \in 1..Len(file) : Unspoiled(i) => g[i] = file[i]
  <2>1. CASE ~Dangling(file)
    BY <1>1, <2>1, LineAppended
  <2>2. CASE Dangling(file)
    <3>1. ~Unspoiled(Len(file))
      BY <2>2, NotDangling
    <3>2. \A i \in 1..Len(file) - 1 : g[i] = file[i]
      BY <1>1, <2>2, LineAppended
    <3> QED
      BY <1>1, <3>1, <3>2
  <2> QED
    BY <2>1, <2>2
<1>4. \A i \in 1..Len(file) : Unspoiled(i) => Good(g, i) /\ g[i].ended
  <2> SUFFICES ASSUME NEW i \in 1..Len(file), Unspoiled(i)
               PROVE  Good(g, i) /\ g[i].ended
    OBVIOUS
  <2>1. i # 1 => i - 1 \in 1..Len(file) /\ Unspoiled(i - 1)
    BY <1>1, LogAssumption DEF Unspoiled
  <2>2. i \in Nat /\ g[i] = file[i] /\ (i # 1 => g[i - 1] = file[i - 1])
    BY <1>1, <1>3, <2>1
  <2>3. Good(g, i) <=> Good(file, i)
    BY <2>2, GoodSame
  <2> QED
    BY <2>2, <2>3 DEF LinesSound
<1>5. ASSUME Unspoiled(Len(file) + 1)
      PROVE  Len(g) = Len(file) + 1 /\ g[Len(file) + 1] = line
  <2>1. Unspoiled(Len(file))
    BY <1>1, <1>5 DEF Unspoiled
  <2>2. ~Dangling(file)
    BY <2>1, NotDangling
  <2> QED
    BY <1>1, <2>2, LineAppended
<1> QED
  BY <1>2, <1>3, <1>4, <1>5

(* The entry that the writer builds fits after the end it remembers.        *)
LEMMA NextIsGood ==
    ASSUME TypesOK, LinesSound, Unspoiled(Len(file) + 1), NEW payload, NEW g,
           LET e == Entry(Len(file) + 1, payload, Resumed(file).prev)
           IN  g[Len(file) + 1] = Whole(e),
           \A i \in 1..Len(file) : Unspoiled(i) => g[i] = file[i]
    PROVE  Good(g, Len(file) + 1) /\ g[Len(file) + 1].ended
<1> DEFINE n == Len(file)
           e == Entry(n + 1, payload, Resumed(file).prev)
<1>1. n \in Nat /\ IsFile(file) /\ damage \in Nat \cup {None}
  BY FileLength DEF TypesOK, FileOK
<1>2. g[n + 1] = Whole(e)
  OBVIOUS
<1>3. /\ g[n + 1].parses /\ g[n + 1].ended /\ g[n + 1].entry = e
      /\ e.seq = n + 1 /\ e.payload = payload /\ e.prev = Resumed(file).prev
      /\ e.hash = Digest(n + 1, payload, Resumed(file).prev)
  BY <1>2 DEF Whole, Entry
<1>4. Intact(g[n + 1].entry)
  BY <1>3 DEF Intact
<1>5. CASE n = 0
  <2>1. file = << >>
    BY <1>1, <1>5, EmptySeq DEF IsFile
  <2>2. g[n + 1].entry.prev = Genesis /\ n + 1 = 1
    BY <1>3, <1>5, <2>1 DEF Resumed, Empty
  <2> QED
    BY <1>3, <1>4, <2>2 DEF Good, Follows
<1>6. CASE n # 0
  <2>1. file # << >> /\ n \in 1..Len(file) /\ Unspoiled(n)
    BY <1>1, <1>6, EmptySeq DEF IsFile, Unspoiled
  <2>2. file[n].parses /\ g[n] = file[n]
    BY <2>1 DEF LinesSound, Good
  <2>3. g[n + 1].entry.prev = file[n].entry.hash
    BY <1>3, <2>1 DEF Resumed, EndAt, Last
  <2>4. n + 1 # 1 /\ (n + 1) - 1 = n
    BY <1>1, <1>6
  <2> QED
    BY <1>3, <1>4, <2>2, <2>3, <2>4 DEF Good, Follows
<1> QED
  BY <1>5, <1>6

(* What holds of the file as long as nobody else has touched it.            *)
Chain == LinesSound /\ EndKnown /\ AckedKept

LEMMA ChainBegin ==
    ASSUME TypesOK, Chain, NEW t \in Threads, NEW payload \in Payloads, Begin(t, payload)
    PROVE  Chain'
<1> DEFINE n == Len(file)
<1>1. UNCHANGED <<file, synced, status, mem, acked, damage>>
  BY DEF Begin, history
<1>2. LinesSound' /\ AckedKept' /\ UNCHANGED <<n, Resumed(file)>>
  BY <1>1 DEF Chain, LinesSound, AckedKept, Unspoiled, Good, Follows, Resumed
<1>3. \A u \in Threads : thread[u].pc = "idle"
  BY LogAssumption DEF Begin, TypesOK, TypeOK
<1>4. thread' = [thread EXCEPT ![t] = [pc |-> "built", entry |-> NextEntry(payload)]]
  BY DEF Begin
<1>5. /\ thread'[t] = [pc |-> "built", entry |-> NextEntry(payload)]
      /\ \A u \in Threads : u # t => thread'[u].pc = "idle"
  BY <1>3, <1>4 DEF TypesOK, ThreadsOK
<1>6. ASSUME Unspoiled(n + 1)
      PROVE  NextEntry(payload) = Entry(n + 1, payload, Resumed(file).prev)
  <2>1. status = "up" /\ \A u \in Threads : ~Wrote(u)
    BY <1>3 DEF Begin, At, Wrote
  <2>2. mem = Resumed(file)
    BY <1>6, <2>1 DEF Chain, EndKnown
  <2>3. mem.seq = n
    BY <1>6, <2>2, EndIsLength DEF Chain
  <2> QED
    BY <2>2, <2>3 DEF NextEntry
<1>7. EndKnown'
  <2> SUFFICES ASSUME Unspoiled(n + 1), status = "up"
               PROVE  EndKnown'
    BY <1>1, <1>2 DEF EndKnown, Unspoiled
  <2>1. mem' = Resumed(file)'
    BY <1>1, <1>2, <1>3 DEF Chain, EndKnown, Wrote
  <2>2. LET e == thread'[t].entry
        IN  e = Entry(n + 1, e.payload, Resumed(file).prev)
    BY <1>5, <1>6 DEF Entry
  <2>3. \A u \in Threads : ~Wrote(u)'
    BY <1>5 DEF Wrote
  <2> QED
    BY <1>2, <1>5, <2>1, <2>2, <2>3 DEF EndKnown
<1> QED
  BY <1>2, <1>7 DEF Chain

LEMMA ChainWrite ==
    ASSUME TypesOK, Chain, NEW t \in Threads, Write(t)
    PROVE  Chain'
<1> DEFINE n == Len(file)
           e == thread[t].entry
<1>0. n \in Nat /\ synced \in 0..n /\ LinesSound
  BY FileLength DEF Chain
<1>1. /\ UNCHANGED <<synced, status, mem, acked, damage>>
      /\ file' = AppendLine(file, Whole(e))
      /\ status = "up" /\ thread[t].pc = "built"
  BY DEF Write, history, At
<1>2. /\ Len(file') \in {n, n + 1}
      /\ \A i \in 1..n : Unspoiled(i) => file'[i] = file[i] /\ Good(file', i) /\ file'[i].ended
      /\ Unspoiled(n + 1) => Len(file') = n + 1 /\ file'[n + 1] = Whole(e)
  BY <1>0, <1>1, Grown
<1>3. Unspoiled(n + 1) => e = Entry(n + 1, e.payload, Resumed(file).prev)
  BY <1>1 DEF Chain, EndKnown
<1>4. Unspoiled(n + 1) => Good(file', n + 1) /\ file'[n + 1].ended
  BY <1>0, <1>2, <1>3, NextIsGood
<1>5. \A i : Unspoiled(i)' <=> Unspoiled(i)
  BY <1>1 DEF Unspoiled
<1>6. LinesSound'
  <2> SUFFICES ASSUME NEW i \in 1..Len(file'), Unspoiled(i)
               PROVE  Good(file', i) /\ file'[i].ended
    BY <1>5 DEF LinesSound
  <2>1. i \in 1..n \/ i = n + 1
    BY <1>0, <1>2
  <2> QED
    BY <1>2, <1>4, <2>1
<1>7. AckedKept'
  <2>1. \A i \in 1..synced : i \in 1..n
    BY <1>0
  <2> QED
    BY <1>1, <1>2, <1>5, <2>1 DEF Chain, AckedKept
<1>8. EndKnown'
  <2> SUFFICES ASSUME Unspoiled(Len(file') + 1)
               PROVE  EndKnown'
    BY <1>5 DEF EndKnown
  <2>1. Unspoiled(n + 1)
    <3>1. damage \in Nat \cup {None}
      BY DEF TypesOK
    <3> QED
      BY <1>0, <1>2, <3>1 DEF Unspoiled
  <2>2. /\ thread'[t].pc = "written" /\ thread'[t].entry = e
        /\ \A u \in Threads : u # t => thread'[u].pc = "idle"
    <3>1. \A u \in Threads : u # t => thread[u].pc = "idle"
      BY <1>1, Alone
    <3> QED
      BY <3>1 DEF Write, Goes, TypesOK, ThreadsOK
  <2>3. file' # << >> /\ Last(file').parses /\ Last(file').entry = e
    <3>1. Len(file') = n + 1 /\ file'[Len(file')] = Whole(e)
      BY <1>2, <2>1
    <3>2. file' # << >>
      BY <1>0, <3>1, EmptySeq
    <3> QED
      BY <3>1, <3>2 DEF Last, Whole
  <2> QED
    BY <2>2, <2>3 DEF EndKnown, Wrote
<1> QED
  BY <1>6, <1>7, <1>8 DEF Chain

LEMMA ChainSync ==
    ASSUME TypesOK, Chain, NEW t \in Threads, Sync(t)
    PROVE  Chain'
<1> DEFINE n == Len(file)
<1>0. n \in Nat /\ synced \in 0..n
  BY FileLength
<1>1. /\ UNCHANGED <<file, status, mem, acked, damage>>
      /\ synced' = n /\ status = "up" /\ thread[t].pc = "written"
  BY DEF Sync, history, At
<1>2. LinesSound' /\ UNCHANGED <<n, Resumed(file), Last(file)>>
  BY <1>1 DEF Chain, LinesSound, Unspoiled, Good, Follows, Resumed, Last
<1>3. AckedKept'
  <2>1. \A i \in 1..synced : i \in 1..synced'
    BY <1>0, <1>1
  <2> QED
    BY <1>1, <2>1 DEF Chain, AckedKept, Unspoiled
<1>4. /\ thread'[t].pc = "synced" /\ thread'[t].entry = thread[t].entry
      /\ \A u \in Threads : u # t => thread'[u].pc = "idle"
  <2>1. \A u \in Threads : u # t => thread[u].pc = "idle"
    BY <1>1, Alone
  <2> QED
    BY <2>1 DEF Sync, Goes, TypesOK, ThreadsOK
<1>5. EndKnown'
  BY <1>1, <1>2, <1>4 DEF Chain, EndKnown, Wrote, Unspoiled
<1> QED
  BY <1>2, <1>3, <1>5 DEF Chain

LEMMA ChainReturn ==
    ASSUME TypesOK, Chain, NEW t \in Threads, Return(t)
    PROVE  Chain'
<1> DEFINE n == Len(file)
           e == thread[t].entry
<1>0. n \in Nat /\ IsFile(file)
  BY FileLength DEF TypesOK, FileOK
<1>1. /\ UNCHANGED <<file, synced, status, damage>> /\ mem' = EndAt(e)
      /\ status = "up" /\ thread[t].pc = "synced"
      /\ acked' = acked \cup {[entry |-> e, damaged |-> damage # None]}
  BY DEF Return, At
<1>2. LinesSound' /\ UNCHANGED <<n, Resumed(file)>>
  BY <1>1 DEF Chain, LinesSound, Unspoiled, Good, Follows, Resumed
<1>3. Unspoiled(n + 1) =>
          file # << >> /\ Last(file).parses /\ Last(file).entry = e /\ synced = n
  BY <1>1 DEF Chain, EndKnown, Wrote
<1>4. AckedKept'
  <2> SUFFICES ASSUME NEW a \in acked', ~a.damaged
               PROVE  \E i \in 1..synced : /\ Unspoiled(i) /\ file[i].parses
                                           /\ file[i].entry = a.entry
    BY <1>1 DEF AckedKept, Unspoiled
  <2>1. CASE a \in acked
    BY <2>1 DEF Chain, AckedKept
  <2>2. CASE a = [entry |-> e, damaged |-> damage # None]
    <3>1. damage = None /\ a.entry = e
      BY <2>2
    <3>2. file # << >> /\ Last(file).parses /\ Last(file).entry = e /\ synced = n
      BY <1>3, <3>1 DEF Unspoiled
    <3>3. n \in 1..synced
      BY <1>0, <3>2, EmptySeq DEF IsFile
    <3> QED
      BY <3>1, <3>2, <3>3 DEF Unspoiled, Last
  <2> QED
    BY <1>1, <2>1, <2>2
<1>5. \A u \in Threads : thread'[u].pc = "idle"
  <2>1. \A u \in Threads : u # t => thread[u].pc = "idle"
    BY <1>1, Alone
  <2> QED
    BY <2>1 DEF Return, Leaves, NotRunning, TypesOK, ThreadsOK
<1>6. EndKnown'
  BY <1>1, <1>2, <1>3, <1>5 DEF EndKnown, Wrote, Unspoiled, Resumed
<1> QED
  BY <1>2, <1>4, <1>6 DEF Chain

(* A fault at the end of the file spoils what comes after, and nothing else. *)
LEMMA SpoilsEnd ==
    ASSUME TypesOK, Spoils(Len(file) + 1)
    PROVE  /\ \A i \in 1..Len(file) : Unspoiled(i)' <=> Unspoiled(i)
           /\ \A i \in Nat : i > Len(file) => ~Unspoiled(i)'
  BY FileLength, LogAssumption DEF TypesOK, Spoils, Unspoiled

LEMMA ChainCut ==
    ASSUME TypesOK, Chain, NEW line, file' = AppendLine(file, line),
           Spoils(Len(file) + 1), UNCHANGED <<synced, acked>>
    PROVE  Chain'
<1> DEFINE n == Len(file)
<1>0. n \in Nat /\ synced \in 0..n /\ LinesSound
  BY FileLength DEF Chain
<1>1. /\ Len(file') \in {n, n + 1}
      /\ \A i \in 1..n : Unspoiled(i) => file'[i] = file[i] /\ Good(file', i) /\ file'[i].ended
  BY <1>0, Grown
<1>2. /\ \A i \in 1..n : Unspoiled(i)' <=> Unspoiled(i)
      /\ \A i \in Nat : i > n => ~Unspoiled(i)'
  BY SpoilsEnd
<1>3. LinesSound'
  <2> SUFFICES ASSUME NEW i \in 1..Len(file'), Unspoiled(i)'
               PROVE  Good(file', i) /\ file'[i].ended
    BY DEF LinesSound
  <2>1. i \in 1..n
    BY <1>0, <1>1, <1>2
  <2> QED
    BY <1>1, <1>2, <2>1
<1>4. EndKnown'
  <2>1. Len(file') + 1 \in Nat /\ Len(file') + 1 > n
    BY <1>0, <1>1
  <2>2. ~Unspoiled(Len(file) + 1)'
    BY <1>2, <2>1 DEF Unspoiled
  <2> QED
    BY <2>2 DEF EndKnown
<1>5. AckedKept'
  <2>1. \A i \in 1..synced : i \in 1..n
    BY <1>0
  <2> QED
    BY <1>1, <1>2, <2>1 DEF Chain, AckedKept
<1> QED
  BY <1>3, <1>4, <1>5 DEF Chain

LEMMA ChainWriteFails ==
    ASSUME TypesOK, Chain, NEW t \in Threads, WriteFails(t)
    PROVE  Chain'
<1>1. CASE UNCHANGED <<file, damage>>
  <2>1. UNCHANGED <<synced, status, mem, acked, Len(file), Resumed(file)>>
    BY <1>1 DEF WriteFails, Resumed
  <2>2. LinesSound' /\ AckedKept'
    BY <1>1, <2>1 DEF Chain, LinesSound, AckedKept, Unspoiled, Good, Follows
  <2>3. (\A u \in Threads : thread'[u].pc = "idle") /\ \A u \in Threads : ~Wrote(u)
    <3>1. thread[t].pc = "built" /\ \A u \in Threads : u # t => thread[u].pc = "idle"
      BY Alone DEF WriteFails, At
    <3> QED
      BY <3>1 DEF WriteFails, Leaves, NotRunning, TypesOK, ThreadsOK, Wrote
  <2>4. EndKnown'
    BY <1>1, <2>1, <2>3 DEF Chain, EndKnown, Wrote, Unspoiled
  <2> QED
    BY <2>2, <2>4 DEF Chain
<1>2. CASE file' \in CutShort(file, thread[t].entry) /\ Spoils(Len(file) + 1)
  BY <1>2, ChainCut DEF WriteFails, CutShort
<1> QED
  BY <1>1, <1>2 DEF WriteFails

LEMMA ChainSyncFails ==
    ASSUME TypesOK, Chain, NEW t \in Threads, SyncFails(t)
    PROVE  Chain'
<1> DEFINE n == Len(file)
<1>0. n \in Nat /\ synced \in 0..n
  BY FileLength
<1>1. UNCHANGED <<file, synced, acked>> /\ Spoils(n + 1)
  BY DEF SyncFails
<1>2. /\ \A i \in 1..n : Unspoiled(i)' <=> Unspoiled(i)
      /\ \A i \in Nat : i > n => ~Unspoiled(i)'
  BY <1>1, SpoilsEnd
<1>3. LinesSound'
  BY <1>1, <1>2 DEF Chain, LinesSound, Good, Follows
<1>4. AckedKept'
  <2>1. \A i \in 1..synced : i \in 1..n
    BY <1>0
  <2> QED
    BY <1>1, <1>2, <2>1 DEF Chain, AckedKept
<1>5. EndKnown'
  <2>1. n + 1 \in Nat /\ n + 1 > n
    BY <1>0
  <2>2. ~Unspoiled(Len(file) + 1)'
    BY <1>1, <1>2, <2>1 DEF Unspoiled
  <2> QED
    BY <2>2 DEF EndKnown
<1> QED
  BY <1>3, <1>4, <1>5 DEF Chain

LEMMA ChainRestart ==
    ASSUME TypesOK, Chain, Crash \/ PowerLoss \/ Start \/ StartFails
    PROVE  Chain'
<1>0. Len(file) \in Nat /\ synced \in 0..Len(file) /\ IsFile(file)
  BY FileLength DEF TypesOK, FileOK
<1>1. UNCHANGED <<synced, acked, damage>>
  BY DEF Crash, PowerLoss, Start, StartFails, history
<1>2. CASE Crash \/ StartFails
  BY <1>1, <1>2 DEF Crash, StartFails, GoesDown,
     Chain, LinesSound, EndKnown, AckedKept, Unspoiled, Good, Follows
<1>3. CASE PowerLoss
  <2>1. PICK n \in synced..Len(file) : file' = SubSeq(file, 1, n)
    BY <1>3 DEF PowerLoss
  <2>2. n \in 0..Len(file)
    BY <1>0
  <2>3. Len(file') = n /\ \A i \in 1..n : file'[i] = file[i]
    BY <1>0, <2>1, <2>2, Prefix
  <2>4. LinesSound'
    <3> SUFFICES ASSUME NEW i \in 1..n, Unspoiled(i)
                 PROVE  Good(file', i) /\ file'[i].ended
      BY <1>1, <2>3 DEF LinesSound, Unspoiled
    <3>1. i \in Nat /\ i \in 1..Len(file) /\ (i # 1 => i - 1 \in 1..n)
      BY <1>0, <2>2
    <3>2. Good(file', i) <=> Good(file, i)
      BY <2>3, <3>1, GoodSame
    <3> QED
      BY <2>3, <3>1, <3>2 DEF Chain, LinesSound
  <2>5. AckedKept'
    <3>1. \A i \in 1..synced : i \in 1..n
      BY <1>0, <2>2
    <3> QED
      BY <1>1, <2>3, <3>1 DEF Chain, AckedKept, Unspoiled
  <2>6. EndKnown'
    BY <1>3 DEF PowerLoss, GoesDown, EndKnown
  <2> QED
    BY <2>4, <2>5, <2>6 DEF Chain
<1>4. CASE Start
  <2>1. UNCHANGED <<file, thread>> /\ mem' = Resumed(file)
    BY <1>4 DEF Start
  <2>2. LinesSound' /\ AckedKept'
    BY <1>1, <2>1 DEF Chain, LinesSound, AckedKept, Unspoiled, Good, Follows
  <2>3. \A u \in Threads : thread'[u].pc = "idle"
    BY <1>4, <2>1 DEF Start, TypesOK, ThreadsOK
  <2>4. EndKnown'
    BY <2>1, <2>3 DEF EndKnown, Wrote, Resumed
  <2> QED
    BY <2>2, <2>4 DEF Chain
<1> QED
  BY <1>2, <1>3, <1>4

-----------------------------------------------------------------------------
(* The invariant.                                                           *)

LEMMA NextOK ==
    ASSUME IInv, Next
    PROVE  IInv'
<1> USE DEF IInv
<1>1. ASSUME NEW t \in Threads, Record(t)
      PROVE  IInv'
  <2>1. TypesOK' /\ change' = change
    BY <1>1, TypesRecord
       DEF Record, Begin, Write, WriteFails, Sync, SyncFails, Return, TornCrash, history
  <2>2. ASSUME Chain PROVE Chain'
    <3>1. CASE TornCrash(t)
      BY <2>2, <3>1, ChainCut DEF TornCrash, CutShort
    <3> QED
      BY <1>1, <2>2, <3>1, ChainBegin, ChainWrite, ChainWriteFails, ChainSync,
         ChainSyncFails, ChainReturn DEF Record
  <2> QED
    BY <2>1, <2>2 DEF Chain
<1>2. CASE Crash \/ PowerLoss \/ Start \/ StartFails
  <2>1. TypesOK' /\ change' = change
    BY <1>2, TypesRestart DEF Crash, PowerLoss, Start, StartFails, history
  <2>2. ASSUME Chain PROVE Chain'
    BY <1>2, <2>2, ChainRestart
  <2> QED
    BY <2>1, <2>2 DEF Chain
<1>3. ASSUME NEW i \in DOMAIN file, Tamper(i)
      PROVE  IInv'
  BY <1>3, TypesTamper
<1> QED
  BY <1>1, <1>2, <1>3 DEF Next

LEMMA StutterOK ==
    ASSUME IInv, UNCHANGED vars
    PROVE  IInv'
<1>1. UNCHANGED <<file, synced, status, mem, lock, thread, acked, damage, change>>
  BY DEF vars, process, history
<1>2. TypesOK'
  BY <1>1 DEF IInv, TypesOK, TypeOK, FileOK, ThreadsOK
<1>3. Chain => Chain'
  BY <1>1 DEF Chain, LinesSound, EndKnown, AckedKept, Unspoiled, Wrote, Good, Follows, Resumed
<1> QED
  BY <1>1, <1>2, <1>3 DEF IInv, Chain

LEMMA Inductive == Spec => []IInv
<1>1. IInv /\ [Next]_vars => IInv'
  BY NextOK, StutterOK
<1> QED
  BY InitOK, <1>1, PTL DEF Spec

(* Type correctness of the log: a thread that is in record() holds the      *)
(* lock, and what is on the disk is a part of the file.                     *)
THEOREM TypeCorrect == Spec => []TypeOK
<1>1. IInv => TypeOK
  BY DEF IInv, TypesOK
<1> QED
  BY <1>1, Inductive, PTL

(* verify() accepts every line before the first that a fault may have       *)
(* spoiled, for any number of threads, crashes and restarts.                *)
THEOREM ChainSound == Spec => []SoundUntilDamage
<1>1. IInv => SoundUntilDamage
  <2> SUFFICES ASSUME IInv, change = None, NEW i \in BadLines(file)
               PROVE  damage # None /\ damage <= i
    BY DEF SoundUntilDamage
  <2>1. i \in 1..Len(file) /\ Len(file) \in Nat /\ ~Good(file, i)
    BY FileLength DEF IInv, BadLines
  <2>2. ~Unspoiled(i)
    BY <2>1 DEF IInv, LinesSound
  <2> QED
    BY <2>1, <2>2 DEF IInv, TypesOK, Unspoiled
<1> QED
  BY <1>1, Inductive, PTL

(* An entry that record() has returned stays in the file.                   *)
THEOREM AckedSurvive == Spec => []AckedStays
<1>1. IInv => AckedStays
  <2> SUFFICES ASSUME IInv, change = None, NEW a \in acked, ~a.damaged
               PROVE  Holds(file, a.entry)
    BY DEF AckedStays
  <2>1. PICK i \in 1..synced : file[i].parses /\ file[i].entry = a.entry
    BY DEF IInv, AckedKept
  <2>2. i \in DOMAIN file
    BY <2>1, FileLength DEF IInv
  <2> QED
    BY <2>1, <2>2 DEF Holds
<1> QED
  BY <1>1, Inductive, PTL

-----------------------------------------------------------------------------
(* A change from outside.                                                   *)

(* Before line k verify() finds nothing, and it finds line k or the next,   *)
(* among the lines that are on the disk.                                    *)
BreaksAt(f, n, k) ==
    /\ \A i \in 1 .. k - 1 : Good(f, i)
    /\ \E b \in {k, k + 1} : b \in 1 .. n /\ ~Good(f, b)

Seen ==
    change # None /\ change.sealed =>
        change.line \in Nat /\ BreaksAt(file, synced, change.line)

(* Lines that are added, and lines lost that were not on the disk, leave    *)
(* the break where it is: what a new line may spoil is the last one, and    *)
(* that is not good any more.                                               *)
LEMMA LineKept ==
    ASSUME NEW f, IsFile(f), NEW line, NEW b \in 1 .. Len(f)
    PROVE  LET g == AppendLine(f, line)
           IN  \/ \A i \in 1 .. b : g[i] = f[i]
               \/ ~g[b].parses /\ \A i \in 1 .. b - 1 : g[i] = f[i]
<1> DEFINE g == AppendLine(f, line)
<1>0. /\ ~Dangling(f) => \A i \in 1 .. Len(f) : g[i] = f[i]
      /\ Dangling(f) => /\ g[Len(f)] = Garbled(line.ended)
                        /\ \A i \in 1 .. Len(f) - 1 : g[i] = f[i]
  BY LineAppended
<1> HIDE DEF g
<1>1. Len(f) \in Nat
  BY FileFacts
<1>2. CASE ~Dangling(f)
  <2>1. \A i \in 1 .. Len(f) : g[i] = f[i]
    BY <1>0, <1>2
  <2> QED
    BY <1>1, <2>1 DEF g
<1>3. CASE Dangling(f)
  <2>1. /\ g[Len(f)] = Garbled(line.ended)
        /\ \A i \in 1 .. Len(f) - 1 : g[i] = f[i]
    BY <1>0, <1>3
  <2> QED
    BY <1>1, <2>1 DEF Garbled, g
<1> QED
  BY <1>2, <1>3

LEMMA BreakStays ==
    ASSUME NEW f, IsFile(f), NEW n \in 0 .. Len(f), NEW k \in Nat, BreaksAt(f, n, k),
           NEW g, NEW m \in Nat, n <= m,
           \/ g = f
           \/ \E line : g = AppendLine(f, line)
           \/ \E l \in n .. Len(f) : g = SubSeq(f, 1, l)
    PROVE  BreaksAt(g, m, k)
<1>1. Len(f) \in Nat
  BY FileFacts
<1>2. PICK b \in {k, k + 1} : b \in 1 .. n /\ ~Good(f, b)
  BY DEF BreaksAt
<1>3. CASE \A i \in 1 .. b : g[i] = f[i]
  <2>1. \A i \in 1 .. b : Good(g, i) <=> Good(f, i)
    BY <1>1, <1>2, <1>3, GoodSame
  <2> QED
    BY <1>2, <2>1 DEF BreaksAt
<1>4. CASE ~g[b].parses /\ \A i \in 1 .. b - 1 : g[i] = f[i]
  <2>1. \A i \in 1 .. b - 1 : Good(g, i) <=> Good(f, i)
    BY <1>1, <1>2, <1>4, GoodSame
  <2>2. ~Good(g, b)
    BY <1>4 DEF Good
  <2> QED
    BY <1>2, <2>1, <2>2 DEF BreaksAt
<1>5. ASSUME NEW line, g = AppendLine(f, line)
      PROVE  BreaksAt(g, m, k)
  <2>1. b \in 1 .. Len(f)
    BY <1>1, <1>2
  <2> QED
    BY <1>3, <1>4, <1>5, <2>1, LineKept
<1>6. ASSUME NEW l \in n .. Len(f), g = SubSeq(f, 1, l)
      PROVE  BreaksAt(g, m, k)
  <2>1. l \in 0 .. Len(f) /\ b <= l
    BY <1>1, <1>2
  <2> QED
    BY <1>1, <1>2, <1>3, <1>6, <2>1, Prefix
<1> QED
  BY <1>3, <1>5, <1>6

LEMMA SeenStays ==
    ASSUME IInv, Seen, TypesOK', UNCHANGED change, synced <= synced',
           \/ UNCHANGED file
           \/ \E line : file' = AppendLine(file, line)
           \/ \E l \in synced .. Len(file) : file' = SubSeq(file, 1, l)
    PROVE  Seen'
<1>1. IsFile(file) /\ synced \in 0 .. Len(file)
  BY FileLength DEF IInv, TypesOK, FileOK
<1>2. synced' \in Nat
  <2>1. Len(file') \in Nat /\ synced' \in 0 .. Len(file')
    BY FileFacts DEF TypesOK, FileOK, TypeOK
  <2> QED
    BY <2>1
<1> QED
  BY <1>1, <1>2, BreakStays DEF Seen

(* Before the change every line was good, when no fault had spoiled any.    *)
LEMMA AllGood ==
    ASSUME IInv, change = None, damage = None
    PROVE  \A i \in 1 .. Len(file) : Good(file, i) /\ LineOK(file[i])
  BY DEF IInv, LinesSound, Unspoiled, TypesOK, FileOK

LEMMA AlteredFile ==
    ASSUME IInv, NEW i \in DOMAIN file, NEW line, file' = ReplaceAt(file, i, line)
    PROVE  \A j \in 1 .. Len(file) : file'[j] = IF j = i THEN line ELSE file[j]
<1>1. DOMAIN file = 1 .. Len(file)
  BY FileLength DEF IInv
<1> QED
  BY <1>1 DEF ReplaceAt

LEMMA EditSeen ==
    ASSUME IInv, NEW i \in DOMAIN file, NEW payload \in Payloads, file[i].parses,
           Edit(i, payload)
    PROVE  Seen'
<1> DEFINE line == [file[i] EXCEPT !.entry.payload = payload]
<1>1. /\ Len(file) \in Nat /\ synced \in 0 .. Len(file) /\ i \in 1 .. Len(file)
      /\ change = None /\ synced' = synced /\ file' = ReplaceAt(file, i, line)
      /\ change' = [line |-> i, sealed |-> i <= synced /\ damage = None]
      /\ payload # file[i].entry.payload
  BY FileLength DEF Edit, Altered, IInv
<1> SUFFICES ASSUME i <= synced, damage = None PROVE Seen'
  BY <1>1 DEF Seen
<1>2. \A j \in 1 .. Len(file) : Good(file, j) /\ LineOK(file[j])
  BY <1>1, AllGood
<1> HIDE DEF line
<1>3. \A j \in 1 .. Len(file) : file'[j] = IF j = i THEN line ELSE file[j]
  BY <1>1, AlteredFile
<1>4. ~Good(file', i)
  <2> DEFINE e == file[i].entry
  <2>1. Intact(e) /\ EntryOK(e) /\ DOMAIN file[i] = {"parses", "ended", "entry"}
    BY <1>1, <1>2 DEF Good, LineOK
  <2>2. line.entry = [e EXCEPT !.payload = payload]
    BY <2>1 DEF line
  <2>3. /\ line.entry.hash = e.hash /\ line.entry.seq = e.seq
        /\ line.entry.prev = e.prev /\ line.entry.payload = payload
    BY <2>1, <2>2 DEF EntryOK
  <2>4. ~Intact(line.entry)
    BY <1>1, <2>1, <2>3 DEF Intact, Digest
  <2> QED
    BY <1>1, <1>3, <2>4 DEF Good
<1>5. \A j \in 1 .. i - 1 : Good(file', j)
  BY <1>1, <1>2, <1>3, GoodSame
<1> QED
  BY <1>1, <1>4, <1>5 DEF Seen, BreaksAt

LEMMA ForgeSeen ==
    ASSUME IInv, NEW i \in DOMAIN file, NEW payload \in Payloads, file[i].parses,
           Forge(i, payload)
    PROVE  Seen'
<1> DEFINE e == file[i].entry
           line == [file[i] EXCEPT !.entry = Entry(e.seq, payload, e.prev)]
<1>1. /\ Len(file) \in Nat /\ synced \in 0 .. Len(file) /\ i \in 1 .. Len(file)
      /\ change = None /\ synced' = synced /\ file' = ReplaceAt(file, i, line)
      /\ change' = [line |-> i, sealed |-> i < synced /\ damage = None]
      /\ payload # e.payload
  BY FileLength DEF Forge, Altered, IInv
<1> SUFFICES ASSUME i < synced, damage = None PROVE Seen'
  BY <1>1 DEF Seen
<1>2. \A j \in 1 .. Len(file) : Good(file, j) /\ LineOK(file[j])
  BY <1>1, AllGood
<1> HIDE DEF line
<1>3. \A j \in 1 .. Len(file) : file'[j] = IF j = i THEN line ELSE file[j]
  BY <1>1, AlteredFile
<1>4. ~Good(file', i + 1)
  <2>1. Intact(e) /\ DOMAIN file[i] = {"parses", "ended", "entry"}
    BY <1>1, <1>2 DEF Good, LineOK
  <2>2. line.entry.hash = Digest(e.seq, payload, e.prev)
    BY <2>1 DEF line, Entry
  <2>3. line.entry.hash # e.hash
    BY <1>1, <2>1, <2>2 DEF Intact, Digest
  <2>4. file[i + 1].entry.prev = e.hash
    BY <1>1, <1>2 DEF Good, Follows
  <2>5. file'[i] = line /\ file'[i + 1] = file[i + 1]
    BY <1>1, <1>3
  <2> QED
    BY <1>1, <2>3, <2>4, <2>5 DEF Good, Follows
<1>5. \A j \in 1 .. i - 1 : Good(file', j)
  BY <1>1, <1>2, <1>3, GoodSame
<1> QED
  BY <1>1, <1>4, <1>5 DEF Seen, BreaksAt

LEMMA DeleteSeen ==
    ASSUME IInv, NEW i \in DOMAIN file, Delete(i)
    PROVE  Seen'
<1>1. /\ Len(file) \in Nat /\ synced \in 0 .. Len(file) /\ i \in 1 .. Len(file)
      /\ change = None /\ file' = RemoveAt(file, i)
      /\ synced' = IF i <= synced THEN synced - 1 ELSE synced
      /\ change' = [line |-> i, sealed |-> i < synced /\ damage = None]
  BY FileLength DEF Delete, IInv
<1> SUFFICES ASSUME i < synced, damage = None PROVE Seen'
  BY <1>1 DEF Seen
<1>2. \A j \in 1 .. Len(file) : Good(file, j) /\ LineOK(file[j])
  BY <1>1, AllGood
<1>3. file'[i] = file[i + 1] /\ \A j \in 1 .. i - 1 : file'[j] = file[j]
  <2> DEFINE S == Lines(file)
             before == SubSeq(file, 1, i - 1)
             after  == SubSeq(file, i + 1, Len(file))
  <2>1. \A j \in 1 .. Len(file) : file[j] \in S
    BY FileFacts DEF Lines, IInv, TypesOK, FileOK
  <2> HIDE DEF S
  <2>2. /\ before \in Seq(S) /\ Len(before) = i - 1
        /\ \A j \in 1 .. i - 1 : before[j] = file[j]
    BY <1>1, <2>1, SubSeqProperties
  <2>3. after \in Seq(S) /\ Len(after) = Len(file) - i /\ after[1] = file[i + 1]
    BY <1>1, <2>1, SubSeqProperties
  <2>4. file' = before \o after
    BY <1>1 DEF RemoveAt
  <2> HIDE DEF before, after
  <2> QED
    BY <1>1, <2>2, <2>3, <2>4, ConcatProperties
<1>4. ~Good(file', i)
  <2>1. file[i + 1].entry.seq = i + 1
    BY <1>1, <1>2 DEF Good, Follows
  <2> QED
    BY <1>1, <1>3, <2>1 DEF Good, Follows
<1>5. ASSUME NEW j \in 1 .. i - 1 PROVE Good(file', j)
  <2>1. j \in Nat /\ file'[j] = file[j] /\ (j # 1 => file'[j - 1] = file[j - 1])
    BY <1>1, <1>3
  <2>2. Good(file, j)
    BY <1>1, <1>2
  <2> QED
    BY <2>1, <2>2, GoodSame
<1> QED
  BY <1>1, <1>4, <1>5 DEF Seen, BreaksAt

LEMMA NextSeen ==
    ASSUME IInv, Seen, [Next]_vars
    PROVE  Seen'
<1>1. TypesOK' /\ Len(file) \in Nat /\ synced \in 0 .. Len(file)
  BY NextOK, StutterOK, FileLength DEF IInv
<1>2. CASE UNCHANGED vars
  BY <1>1, <1>2, SeenStays DEF vars, history
<1>3. ASSUME NEW t \in Threads, Record(t) PROVE Seen'
  <2>1. UNCHANGED change
    BY <1>3 DEF Record, Begin, Write, WriteFails, Sync, SyncFails, Return, TornCrash, history
  <2>2. synced <= synced'
    BY <1>1, <1>3 DEF Record, Begin, Write, WriteFails, Sync, SyncFails, Return, TornCrash
  <2>3. UNCHANGED file \/ \E line : file' = AppendLine(file, line)
    BY <1>3 DEF Record, Begin, Write, WriteFails, Sync, SyncFails, Return, TornCrash, CutShort
  <2> QED
    BY <1>1, <2>1, <2>2, <2>3, SeenStays
<1>4. CASE Crash \/ PowerLoss \/ Start \/ StartFails
  <2>1. UNCHANGED <<change, synced>>
    BY <1>4 DEF Crash, PowerLoss, Start, StartFails, history
  <2>2. UNCHANGED file \/ \E l \in synced .. Len(file) : file' = SubSeq(file, 1, l)
    BY <1>4 DEF Crash, PowerLoss, Start, StartFails
  <2> QED
    BY <1>1, <2>1, <2>2, SeenStays
<1>5. ASSUME NEW i \in DOMAIN file, Tamper(i) PROVE Seen'
  BY <1>5, EditSeen, ForgeSeen, DeleteSeen DEF Tamper
<1> QED
  BY <1>2, <1>3, <1>4, <1>5 DEF Next

(* For any number of threads, lines, stops and faults: once a line that     *)
(* bears witness to it is on the disk, a line that was edited, forged or    *)
(* deleted is where verify() first finds fault, or the line after it is,    *)
(* and stays so whatever is written, torn, lost or restarted afterwards     *)
(* (audit.py:3-7, 104-129).                                                 *)
THEOREM TamperingSeen == Spec => []ChangeIsSeen
<1>1. Init => Seen
  BY DEF Init, Seen
<1>2. IInv /\ Seen /\ [Next]_vars => Seen'
  BY NextSeen
<1>3. IInv /\ Seen => ChangeIsSeen
  <2> SUFFICES ASSUME IInv, Seen, change # None, change.sealed
               PROVE  FirstBadLine(file) \in {change.line, change.line + 1}
    BY DEF ChangeIsSeen
  <2> DEFINE k == change.line
  <2>1. /\ k \in Nat /\ \A i \in 1 .. k - 1 : Good(file, i)
        /\ \E b \in {k, k + 1} : b \in 1 .. synced /\ ~Good(file, b)
    BY DEF Seen, BreaksAt
  <2>2. Len(file) \in Nat /\ synced \in 0 .. Len(file) /\ DOMAIN file = 1 .. Len(file)
    BY FileLength DEF IInv
  <2> HIDE DEF k
  <2>3. PICK b \in {k, k + 1} : b \in BadLines(file) /\ \A i \in BadLines(file) : b <= i
    <3>1. \A i \in BadLines(file) : i \in Nat /\ k <= i
      BY <2>1, <2>2 DEF BadLines
    <3>2. CASE k \in BadLines(file)
      BY <3>1, <3>2
    <3>3. CASE k \notin BadLines(file)
      <4>1. k + 1 \in BadLines(file)
        BY <2>1, <2>2, <3>3 DEF BadLines
      <4>2. \A i \in BadLines(file) : k + 1 <= i
        BY <2>1, <3>1, <3>3
      <4> QED
        BY <4>1, <4>2
    <3> QED
      BY <3>2, <3>3
  <2>4. \A i \in BadLines(file) : i \in Nat
    BY <2>2 DEF BadLines
  <2>5. Min(BadLines(file)) = b
    BY <2>3, <2>4 DEF Min
  <2> QED
    BY <2>3, <2>5 DEF FirstBadLine, k
<1> QED
  BY <1>1, <1>2, <1>3, Inductive, PTL DEF Spec
=============================================================================
