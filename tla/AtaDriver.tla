------------------------------ MODULE AtaDriver ------------------------------
(***************************************************************************)
(* The disk driver: class AdvancedTechnologyAttachment of                  *)
(* src/src/drivers/ata.cpp, and the two drives on its bus as far as they   *)
(* answer to the ports (external).                                         *)
(*                                                                         *)
(* A call writes the registers and the command in one step, since no drive *)
(* acts before the command; then it polls the status and transfers a whole *)
(* sector word by word through the data port, while the drive acts when it *)
(* likes.  A drive that is busy ignores commands and data; one that is not *)
(* drops what it was doing for a new command.                              *)
(***************************************************************************)
EXTENDS Integers, Sequences

CONSTANTS
  W,            \* words of a sector: 256
  Sectors,      \* the sector numbers callers pass
  Counts,       \* the byte counts callers pass
  Buffers,      \* what callers write: byte sequences, indexed from 0
  InitialDisk,  \* [drive -> [sector -> words]]
  Junk          \* a byte nothing is known of

bytesPerSector == 2 * W

Drives == BOOLEAN   \* TRUE is the master

Offsets == 0 .. bytesPerSector - 1
Octets == 0 .. 255

ASSUME AtaAssumption ==
  /\ W \in Nat \ {0}
  /\ Sectors \subseteq Nat
  /\ Counts \subseteq 0 .. bytesPerSector
  /\ \A b \in Buffers : b \in [Offsets -> Octets]
  /\ DOMAIN InitialDisk = Drives
  /\ \A m \in Drives : \A s \in DOMAIN InitialDisk[m] :
       InitialDisk[m][s] \in Seq(Octets \X Octets) /\ Len(InitialDisk[m][s]) = W

VARIABLES
  present,   \* the drives on the bus
  disk,      \* what they store
  drive,     \* [drive -> what it is doing]
  pc,        \* the driver: "idle", "poll", "read", "write"
  op,        \* the call in progress, or the last one
  i,         \* loop variable of the transfer
  pData,     \* the caller's buffer
  result,    \* how the last call ended: "done", "error", "refused"
  accepted   \* history: the drive took the command of the call

driverVars == <<pc, op, i, pData, result, accepted>>
vars == <<present, disk, drive, driverVars>>

Untouched == [k \in Offsets |-> Junk]

-----------------------------------------------------------------------------
(* The drives.                                                             *)

Idle == [state |-> "idle", command |-> "none", lba |-> 0, words |-> << >>]

BSY == 7
DRDY == 6
DRQ == 3
ERR == 0

(* The bits set in the status register while drive m is selected.  The bus *)
(* floats when there is no drive, and a missing one of two reads as 0.     *)
Status(m) ==
  IF m \in present
  THEN CASE drive[m].state = "busy"           -> {BSY}
         [] drive[m].state = "idle"           -> {DRDY}
         [] drive[m].state = "error"          -> {DRDY, ERR}
         [] drive[m].state \in {"in", "out"}  -> {DRDY, DRQ}
  ELSE IF present = {} THEN 0 .. 7 ELSE {}

Accepts(m) == m \in present /\ drive[m].state # "busy"

(* A command for drive m; it may be ready for the data of a write at once. *)
Command(c, m, lba) ==
  /\ accepted' = Accepts(m)
  /\ IF Accepts(m)
     THEN \E s \in {"busy"} \cup (IF c = "write" THEN {"out"} ELSE {}) :
            drive' = [drive EXCEPT ![m] = [state |-> s, command |-> c, lba |-> lba,
                                           words |-> << >>]]
     ELSE UNCHANGED drive

(* A busy drive has done what it was told, or failed.                      *)
Ready(m) ==
  LET d == drive[m]
      Now(s, ws) == drive' = [drive EXCEPT ![m].state = s, ![m].words = ws]
  IN  /\ d.state = "busy"
      /\ \/ /\ d.command = "read"
            /\ d.lba \in DOMAIN disk[m]
            /\ Now("in", disk[m][d.lba])
         \/ d.command = "identify" /\ Now("in", [k \in 1 .. W |-> <<Junk, Junk>>])
         \/ d.command = "write" /\ d.lba \in DOMAIN disk[m] /\ Now("out", << >>)
         \/ d.command \in {"store", "flush"} /\ Now("idle", << >>)
         \/ Now("error", << >>)
      /\ UNCHANGED <<present, disk, driverVars>>

(* What the data port of drive m gives, and what that does to the drive.   *)
DataIn(m) ==
  IF m \in present /\ drive[m].state = "in" THEN Head(drive[m].words)
                                            ELSE <<Junk, Junk>>

AfterIn(m) ==
  IF m \in present /\ drive[m].state = "in"
  THEN LET rest == Tail(drive[m].words) IN
         [drive EXCEPT ![m].words = rest,
                       ![m].state = IF rest = << >> THEN "idle" ELSE "in"]
  ELSE drive

(* A word written to the data port; the last one of a sector stores it.    *)
DataOut(m, word) ==
  LET d == drive[m]
      words == Append(d.words, word)
  IN  IF m \notin present \/ d.state # "out" THEN UNCHANGED <<disk, drive>>
      ELSE IF Len(words) < W
      THEN drive' = [drive EXCEPT ![m].words = words] /\ UNCHANGED disk
      ELSE /\ disk' = [disk EXCEPT ![m][d.lba] = words]
           /\ \E s \in {"idle", "busy"} :
                drive' = [drive EXCEPT ![m] = [state |-> s, command |-> "store",
                                               lba |-> d.lba, words |-> << >>]]

-----------------------------------------------------------------------------
(* The driver.                                                             *)

ByteAt(s, weight) == (s \div weight) % 256

\* Mutant: two of the address bytes are swapped.
AddressSwapped(s) ==
  (ByteAt(s, 16777216) % 16) * 16777216 + ByteAt(s, 256) * 65536
    + ByteAt(s, 65536) * 256 + ByteAt(s, 1)

(* The sector the drive is told: low, mid and high byte, and four bits in  *)
(* the device register.                                                    *)
Address(s) ==
  (ByteAt(s, 16777216) % 16) * 16777216 + ByteAt(s, 65536) * 65536
    + ByteAt(s, 256) * 256 + ByteAt(s, 1)

TooLarge(s) == s > 268435455   \* 0x0FFFFFFF

Begin(kind, m, s, n, b) ==
  /\ pc = "idle"
  /\ op' = [kind |-> kind, master |-> m, sector |-> s, count |-> n]
  /\ i' = 0
  /\ pData' = b
  /\ UNCHANGED <<present, disk>>

Refuse ==
  /\ pc' = "idle"
  /\ result' = "refused"
  /\ accepted' = FALSE
  /\ UNCHANGED drive

Read28(m, s, n) ==
  /\ Begin("read", m, s, n, Untouched)
  /\ IF TooLarge(s)
     THEN Refuse
     ELSE /\ Command("read", m, Address(s))
          /\ pc' = "poll"
          /\ UNCHANGED result

(* Write28 does not look at the status at all.                             *)
Write28(m, s, n, b) ==
  /\ Begin("write", m, s, n, b)
  /\ IF TooLarge(s) \/ n > bytesPerSector
     THEN Refuse
     ELSE /\ Command("write", m, Address(s))
          /\ pc' = "write"
          /\ UNCHANGED result

(* A drive that shows no status at all after the command does not exist.   *)
PollIfThere(m) ==
  IF Status(m)' = {}
  THEN pc' = "idle" /\ result' = "refused"
  ELSE pc' = "poll" /\ UNCHANGED result

(* Whether there is a drive at all is asked with the master selected.      *)
Identify(m) ==
  /\ Begin("identify", m, 0, 0, Untouched)
  /\ IF Status(TRUE) = 0 .. 7
     THEN Refuse
     ELSE Command("identify", m, 0) /\ PollIfThere(m)

Flush(m) ==
  /\ Begin("flush", m, 0, 0, Untouched)
  /\ Command("flush", m, 0)
  /\ PollIfThere(m)

Finish(r) ==
  /\ pc' = "idle"
  /\ result' = r
  /\ UNCHANGED <<present, disk, drive, op, i, pData, accepted>>

\* Mutant: only the error bit ends the loop.
StillBusyUntilError(status) == ERR \notin status

StillBusy(status) == BSY \in status /\ ERR \notin status

(* The polling loop is left: with an error, or for the transfer.           *)
Poll ==
  /\ pc = "poll"
  /\ ~StillBusy(Status(op.master))
  /\ IF ERR \in Status(op.master)
     THEN Finish("error")
     ELSE IF op.kind = "flush"
     THEN Finish("done")
     ELSE /\ pc' = "read"
          /\ UNCHANGED <<present, disk, drive, op, i, pData, result, accepted>>

\* Mutants: the words behind the caller's are left in the drive; the loop
\* runs once too often.
TransferEndsAtCount == i >= op.count
TransferEndsLate == i > bytesPerSector

(* Both bytes of a word are stored, even when only one was asked for.      *)
Store(word) ==
  [pData EXCEPT ![i] = word[1], ![i + 1] = word[2]]

TransferEnds == i >= bytesPerSector

(* The words asked for are kept, the rest of the sector is read as well.   *)
ReadWord ==
  /\ pc = "read"
  /\ ~TransferEnds
  /\ pData' = IF i < op.count THEN Store(DataIn(op.master)) ELSE pData
  /\ drive' = AfterIn(op.master)
  /\ i' = i + 2
  /\ UNCHANGED <<present, disk, pc, op, result, accepted>>

\* Mutant: a last single byte takes the byte behind it along.
WordUnpadded ==
  IF i < op.count THEN <<pData[i], pData[i + 1]>> ELSE <<0, 0>>

(* Little endian, and zeros from the count on.                             *)
Word ==
  <<IF i < op.count THEN pData[i] ELSE 0,
    IF i + 1 < op.count THEN pData[i + 1] ELSE 0>>

WriteWord ==
  /\ pc = "write"
  /\ ~TransferEnds
  /\ DataOut(op.master, Word)
  /\ i' = i + 2
  /\ UNCHANGED <<present, pc, op, pData, result, accepted>>

Transferred ==
  /\ pc \in {"read", "write"}
  /\ TransferEnds
  /\ Finish("done")

DriverStep == Poll \/ ReadWord \/ WriteWord \/ Transferred

-----------------------------------------------------------------------------

Init ==
  /\ present \in SUBSET Drives
  /\ disk = InitialDisk
  /\ drive = [m \in Drives |-> Idle]
  /\ pc = "idle"
  /\ op = [kind |-> "none", master |-> TRUE, sector |-> 0, count |-> 0]
  /\ i = 0
  /\ pData = Untouched
  /\ result = "done"
  /\ accepted = FALSE

Call ==
  \/ \E m \in Drives, s \in Sectors, n \in Counts :
       \/ Read28(m, s, n)
       \/ \E b \in Buffers : Write28(m, s, n, b)
  \/ \E m \in Drives : Identify(m) \/ Flush(m)

Next == Call \/ DriverStep \/ \E m \in Drives : Ready(m)

Spec == Init /\ [][Next]_vars

(* The driver's loops run on, and a busy drive does not stay busy.         *)
FairSpec ==
  /\ Spec
  /\ WF_vars(DriverStep)
  /\ \A m \in Drives : WF_vars(Ready(m))

-----------------------------------------------------------------------------

(* Types: no loop index ever leaves the sector.                            *)
TypeOK ==
  /\ present \subseteq Drives
  /\ \A m \in Drives :
       /\ drive[m].state \in {"idle", "busy", "in", "out", "error"}
       /\ Len(drive[m].words) <= W
       /\ \A s \in DOMAIN disk[m] : Len(disk[m][s]) = W
  /\ pc \in {"idle", "poll", "read", "write"}
  /\ i \in 0 .. bytesPerSector
  /\ DOMAIN pData = Offsets
  /\ result \in {"done", "error", "refused"}

ByteOf(words, k) == words[(k \div 2) + 1][(k % 2) + 1]

(* A read whose command the drive took and that reported no error gave the *)
(* caller the bytes asked for, of that sector of that drive, and touched   *)
(* nothing beyond the word that holds the last one.                        *)
ReadsTrue ==
  pc = "idle" /\ op.kind = "read" /\ result = "done" /\ accepted =>
    /\ op.sector \in DOMAIN disk[op.master]
    /\ \A k \in Offsets :
         /\ k < op.count => pData[k] = ByteOf(disk[op.master][op.sector], k)
         /\ k >= op.count + (op.count % 2) => pData[k] = Junk

(* Whatever was asked for, every word the drive offered has been taken     *)
(* when a call returns: nothing is left over for the next one.             *)
InStep == pc = "idle" => \A m \in Drives : drive[m].state # "in"

(* A sector changes only as a whole and only to what the call in progress  *)
(* writes, padded with zeros.  When the drive took the call's command it   *)
(* is that call's sector.  Write28 does not look whether it did: the data  *)
(* of a call that a busy drive did not notice may end up in the sector of  *)
(* the call before, or nowhere, but never in a part of a sector.           *)
SectorsWhole ==
  [][\A m \in Drives : \A s \in DOMAIN disk[m] :
       disk'[m][s] # disk[m][s] =>
         /\ op.kind = "write" /\ op.master = m
         /\ accepted => op.sector = s
         /\ \A k \in Offsets :
              ByteOf(disk'[m][s], k) = IF k < op.count THEN pData[k] ELSE 0]_vars

(* Every call returns, whichever drives there are and however they fail.   *)
CallsReturn == pc # "idle" ~> pc = "idle"
=============================================================================
