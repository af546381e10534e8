------------------------------ MODULE AuditLog ------------------------------
(***************************************************************************)
(* The audit log (open_mhs/server/audit.py): an append-only file of lines,  *)
(* each carrying the hash of the line before it, the writer's memory of the *)
(* chain's end, `_resume` after a restart and `verify`.                     *)
(*                                                                          *)
(* Threads of one process record under a lock.  The process may die between *)
(* any two steps, the machine may lose power, a write or a sync may fail,   *)
(* and somebody may change the file behind the writer's back.               *)
(***************************************************************************)
EXTENDS Integers, Sequences, SequencesExt, FiniteSetsExt

CONSTANTS
    None,       \* Python's None
    Threads,    \* threads that record
    Payloads,   \* what a line says: event, device, target, params, outcome
    MaxLines,   \* bound: lines of the file at which recording stops
    Faults,     \* what may go wrong
    Changes     \* what may be done to the file from outside, once

FaultKind == {"crash", "power", "torn", "error"}

ChangeKind == {"edit", "forge", "delete"}

ASSUME LogAssumption ==
    /\ MaxLines \in Nat
    /\ Faults \subseteq FaultKind
    /\ Changes \subseteq ChangeKind
    /\ None \notin Threads
    /\ None \notin Nat
    /\ None \notin [line : Nat, sealed : BOOLEAN]

VARIABLES
    file,       \* the lines: [parses, ended, entry]
    synced,     \* how many of them are on the disk for good
    status      \* "up", "down", or "refused": the app could not be created
VARIABLES
    mem,        \* _seq and _prev
    lock,       \* the thread inside `with self._lock`, or None
    thread      \* thread -> [pc, entry]
VARIABLES
    acked,      \* history: [entry, damaged], what record() has returned
    damage,     \* history: first line that a fault may have spoiled, or None
    change      \* history: [line, sealed] changed from outside, or None

process == <<status, mem, lock, thread>>

history == <<acked, damage, change>>

vars == <<file, synced, process, history>>

-----------------------------------------------------------------------------
(* Entries.                                                                 *)

Genesis == << >>

(* SHA-256 of the canonical line without its hash: no two bodies collide.   *)
Digest(seq, payload, prev) == <<seq, payload, prev>>

Entry(seq, payload, prev) ==
    [seq |-> seq, payload |-> payload, prev |-> prev,
     hash |-> Digest(seq, payload, prev)]

(* The line a writer adds after the one it remembers.                       *)
NextEntry(payload) == Entry(mem.seq + 1, payload, mem.prev)

(* Mutant of EndAt: _seq moves on and _prev does not.                       *)
EndAtUnlinked(entry) == [seq |-> entry.seq, prev |-> entry.prev]

(* The end of the chain that an entry is.                                   *)
EndAt(entry) == [seq |-> entry.seq, prev |-> entry.hash]

Empty == [seq |-> 0, prev |-> Genesis]

-----------------------------------------------------------------------------
(* Lines.                                                                   *)

Whole(entry) == [parses |-> TRUE, ended |-> TRUE, entry |-> entry]

(* A line that lost only its newline still parses.                          *)
Bare(entry) == [parses |-> TRUE, ended |-> FALSE, entry |-> entry]

Garbled(ended) == [parses |-> FALSE, ended |-> ended, entry |-> None]

(* The file is in the middle of a line.                                     *)
Dangling(f) == f # << >> /\ ~Last(f).ended

(* Appending: after a dangling line, both share it and it no longer parses. *)
AppendLine(f, line) ==
    IF Dangling(f) THEN Append(Front(f), Garbled(line.ended)) ELSE Append(f, line)

(* What a write that was cut short leaves behind.                           *)
CutShort(f, entry) ==
    {AppendLine(f, Garbled(FALSE)), AppendLine(f, Bare(entry))}

-----------------------------------------------------------------------------
(* verify().                                                                *)

(* Mutant of Follows: the link to the line before is not compared.          *)
FollowsUnlinked(f, i) == f[i].entry.seq = i

Follows(f, i) ==
    /\ f[i].entry.seq = i
    /\ IF i = 1 THEN f[i].entry.prev = Genesis
       ELSE f[i - 1].parses /\ f[i].entry.prev = f[i - 1].entry.hash

Intact(entry) == entry.hash = Digest(entry.seq, entry.payload, entry.prev)

Good(f, i) == f[i].parses /\ Follows(f, i) /\ Intact(f[i].entry)

BadLines(f) == {i \in DOMAIN f : ~Good(f, i)}

(* verify()["first_bad_line"].                                              *)
FirstBadLine(f) == IF BadLines(f) = {} THEN None ELSE Min(BadLines(f))

-----------------------------------------------------------------------------
NotRunning == [pc |-> "idle", entry |-> None]

Init ==
    /\ file = << >>
    /\ synced = 0
    /\ status = "up"
    /\ mem = Empty
    /\ lock = None
    /\ thread = [t \in Threads |-> NotRunning]
    /\ acked = {}
    /\ damage = None
    /\ change = None

At(t, pc) == status = "up" /\ thread[t].pc = pc

Spoils(line) ==
    damage' = IF damage # None /\ damage < line THEN damage ELSE line

Goes(t, pc) == thread' = [thread EXCEPT ![t].pc = pc]

(* record() ends, by a return or an exception, and lets go of the lock.     *)
Leaves(t) ==
    /\ thread' = [thread EXCEPT ![t] = NotRunning]
    /\ lock' = None

(* Mutant of Begin: the entry is built before the lock is taken.            *)
BeginUnlocked(t, payload) ==
    /\ At(t, "idle")
    /\ Len(file) < MaxLines
    /\ lock' = t
    /\ thread' = [thread EXCEPT ![t] = [pc |-> "built", entry |-> NextEntry(payload)]]
    /\ UNCHANGED <<file, synced, status, mem, history>>

(* record(): the entry is built under the lock.                             *)
Begin(t, payload) ==
    /\ At(t, "idle")
    /\ lock = None
    /\ Len(file) < MaxLines
    /\ lock' = t
    /\ thread' = [thread EXCEPT ![t] = [pc |-> "built", entry |-> NextEntry(payload)]]
    /\ UNCHANGED <<file, synced, status, mem, history>>

(* The line is written and flushed to the operating system.                 *)
Write(t) ==
    /\ At(t, "built")
    /\ file' = AppendLine(file, Whole(thread[t].entry))
    /\ Goes(t, "written")
    /\ UNCHANGED <<synced, status, mem, lock, history>>

(* OSError: all, some or none of the line is in the file.                   *)
WriteFails(t) ==
    /\ "error" \in Faults
    /\ At(t, "built")
    /\ \/ UNCHANGED <<file, damage>>
       \/ file' \in CutShort(file, thread[t].entry) /\ Spoils(Len(file) + 1)
    /\ Leaves(t)
    /\ UNCHANGED <<synced, status, mem, acked, change>>

(* Mutant of Sync: the file is flushed and not synced.                      *)
SyncSkipped(t) ==
    /\ At(t, "written")
    /\ Goes(t, "synced")
    /\ UNCHANGED <<file, synced, status, mem, lock, history>>

Sync(t) ==
    /\ At(t, "written")
    /\ synced' = Len(file)
    /\ Goes(t, "synced")
    /\ UNCHANGED <<file, status, mem, lock, history>>

(* OSError: the line stands, and the writer does not remember it.           *)
SyncFails(t) ==
    /\ "error" \in Faults
    /\ At(t, "written")
    /\ Spoils(Len(file) + 1)
    /\ Leaves(t)
    /\ UNCHANGED <<file, synced, status, mem, acked, change>>

(* _seq and _prev move on, and the entry is returned.                       *)
Return(t) ==
    /\ At(t, "synced")
    /\ mem' = EndAt(thread[t].entry)
    /\ acked' = acked \cup {[entry |-> thread[t].entry, damaged |-> damage # None]}
    /\ Leaves(t)
    /\ UNCHANGED <<file, synced, status, damage, change>>

-----------------------------------------------------------------------------
(* Stops and restarts.                                                      *)

GoesDown ==
    /\ status' = "down"
    /\ mem' = None
    /\ lock' = None
    /\ thread' = [t \in Threads |-> NotRunning]

(* The process ends; what the operating system was given stays.             *)
Crash ==
    /\ "crash" \in Faults
    /\ status = "up"
    /\ GoesDown
    /\ UNCHANGED <<file, synced, history>>

(* It ends in the middle of a line.                                         *)
TornCrash(t) ==
    /\ "torn" \in Faults
    /\ At(t, "built")
    /\ file' \in CutShort(file, thread[t].entry)
    /\ Spoils(Len(file) + 1)
    /\ GoesDown
    /\ UNCHANGED <<synced, acked, change>>

(* The machine stops: lines that were not synced may be gone.               *)
PowerLoss ==
    /\ "power" \in Faults
    /\ \E n \in synced..Len(file) : file' = SubSeq(file, 1, n)
    /\ GoesDown
    /\ UNCHANGED <<synced, history>>

(* _resume(): the chain goes on from the last line.                         *)
Resumed(f) == IF f = << >> THEN Empty ELSE EndAt(Last(f).entry)

Readable(f) == \A i \in DOMAIN f : f[i].parses

Start ==
    /\ status # "up"
    /\ Readable(file)
    /\ status' = "up"
    /\ mem' = Resumed(file)
    /\ UNCHANGED <<file, synced, lock, thread, history>>

(* A line that does not parse: JSONDecodeError leaves the constructor.      *)
StartFails ==
    /\ status # "up"
    /\ ~Readable(file)
    /\ status' = "refused"
    /\ UNCHANGED <<file, synced, mem, lock, thread, history>>

-----------------------------------------------------------------------------
(* Changes from outside, at most one.  A change is sealed when a synced line *)
(* that bears witness to it is in the file.                                 *)

Altered(i, line, sealed) ==
    /\ change = None
    /\ file' = ReplaceAt(file, i, line)
    /\ change' = [line |-> i, sealed |-> sealed /\ damage = None]
    /\ UNCHANGED <<synced, process, acked, damage>>

(* The content of a line, its hash left alone.                              *)
Edit(i, payload) ==
    /\ "edit" \in Changes
    /\ payload # file[i].entry.payload
    /\ Altered(i, [file[i] EXCEPT !.entry.payload = payload], i <= synced)

(* The content of a line, and its hash computed afresh.                     *)
Forge(i, payload) ==
    LET e == file[i].entry
    IN  /\ "forge" \in Changes
        /\ payload # e.payload
        /\ Altered(i, [file[i] EXCEPT !.entry = Entry(e.seq, payload, e.prev)], i < synced)

Delete(i) ==
    /\ "delete" \in Changes
    /\ change = None
    /\ file' = RemoveAt(file, i)
    /\ synced' = IF i <= synced THEN synced - 1 ELSE synced
    /\ change' = [line |-> i, sealed |-> i < synced /\ damage = None]
    /\ UNCHANGED <<process, acked, damage>>

Record(t) ==
    \/ \E payload \in Payloads : Begin(t, payload)
    \/ Write(t)
    \/ WriteFails(t)
    \/ Sync(t)
    \/ SyncFails(t)
    \/ Return(t)
    \/ TornCrash(t)

Tamper(i) ==
    \/ file[i].parses /\ \E payload \in Payloads : Edit(i, payload) \/ Forge(i, payload)
    \/ Delete(i)

Next ==
    \/ \E t \in Threads : Record(t)
    \/ Crash
    \/ PowerLoss
    \/ Start
    \/ StartFails
    \/ \E i \in DOMAIN file : Tamper(i)

Spec == Init /\ [][Next]_vars

-----------------------------------------------------------------------------
(* Properties.                                                              *)

TypeOK ==
    /\ synced \in 0..Len(file)
    /\ status \in {"up", "down", "refused"}
    /\ status = "up" => mem.seq \in Nat
    /\ \A t \in Threads :
          /\ thread[t].pc \in {"idle", "built", "written", "synced"}
          /\ thread[t].pc # "idle" => lock = t

(* verify() accepts whatever the writers of this module left behind, up to  *)
(* the first line that a torn write or a failed call may have spoiled, over *)
(* any number of threads, crashes and restarts (audit.py:57-101, 104-129).  *)
SoundUntilDamage ==
    change = None =>
        \A i \in BadLines(file) : damage # None /\ damage <= i

Holds(f, entry) == \E i \in DOMAIN f : f[i].parses /\ f[i].entry = entry

(* An entry that record() has returned stays in the file, whatever stops    *)
(* afterwards, the machine included; one that was returned after a line had *)
(* been spoiled may share that line (audit.py:95-101).                      *)
AckedStays ==
    change = None => \A a \in acked : a.damaged \/ Holds(file, a.entry)

(* A changed or deleted line is found where it was, for as long as the file *)
(* lives, once a line that bears witness to it is on the disk; the content  *)
(* of the last line can be changed with its hash, or the line deleted,      *)
(* without a witness (audit.py:3-7, docs/audit-log.md:36-39).               *)
ChangeIsSeen ==
    change # None /\ change.sealed =>
        FirstBadLine(file) \in {change.line, change.line + 1}

(* A restarted middleware appends to the file it left and continues its     *)
(* chain (docs/audit-log.md:8-9).                                           *)
RestartContinues == status # "refused"
=============================================================================
