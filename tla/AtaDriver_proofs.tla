--------------------------- MODULE AtaDriver_proofs ---------------------------
(***************************************************************************)
(* Theorems about the disk driver, for every size of a sector, every set   *)
(* of sector numbers, counts and buffers, and every content of the disks.  *)
(***************************************************************************)
EXTENDS AtaDriver, SequenceTheorems, TLAPS

(* All that a transfer may read or store, the unknown included.            *)
Bytes == Octets \cup {Junk}
Words == Bytes \X Bytes

Commands == {"none", "read", "write", "identify", "flush", "store"}
Kinds == {"none", "read", "write", "identify", "flush"}

DriveRecords ==
  [state : {"idle", "busy", "in", "out", "error"}, command : Commands, lba : Nat,
   words : Seq(Words)]

-----------------------------------------------------------------------------
(* The inductive invariant.                                                *)

Typed ==
  /\ present \subseteq Drives
  /\ DOMAIN disk = Drives
  /\ \A m \in Drives : \A s \in DOMAIN disk[m] :
       disk[m][s] \in Seq(Words) /\ Len(disk[m][s]) = W
  /\ drive \in [Drives -> DriveRecords]
  /\ \A m \in Drives : Len(drive[m].words) <= W
  /\ \A m \in Drives : m \notin present => drive[m] = Idle
  /\ pc \in {"idle", "poll", "read", "write"}
  /\ op \in [kind : Kinds, master : Drives, sector : Nat, count : 0 .. bytesPerSector]
  /\ i \in 0 .. bytesPerSector /\ i % 2 = 0
  /\ pData \in [Offsets -> Bytes]
  /\ result \in {"done", "error", "refused"}
  /\ accepted \in BOOLEAN

(* Which call is in which loop.                                            *)
Phases ==
  /\ pc = "poll" => i = 0 /\ op.kind \in {"read", "identify", "flush"}
  /\ pc = "read" => op.kind \in {"read", "identify"}
  /\ pc = "write" => op.kind = "write"
  /\ pc # "idle" => ~TooLarge(op.sector)

(* A drive that offers a sector, or is about to, does so for the call in   *)
(* progress, which reads as many words as the drive still has.             *)
Offers(m) ==
  \/ drive[m].state = "in"
  \/ drive[m].state = "busy" /\ drive[m].command \in {"read", "identify"}

Offered ==
  \A m \in Drives : Offers(m) =>
    /\ pc \in {"poll", "read"} /\ op.master = m /\ op.kind # "flush"
    /\ pc = "read" => drive[m].state = "in"
    /\ drive[m].state = "in" =>
         2 * Len(drive[m].words) = bytesPerSector - i /\ Len(drive[m].words) > 0

(* Of the bytes before n those the caller asked for have arrived, and at   *)
(* most the one behind them; from n on nothing is touched.                 *)
Got(n) ==
  \A k \in Offsets :
    /\ k < n /\ k < op.count => pData[k] = ByteOf(disk[op.master][op.sector], k)
    /\ k >= n \/ k >= op.count + (op.count % 2) => pData[k] = Junk

(* The drive reads the sector asked for, and the words it still offers are *)
(* those from the loop's position on.                                      *)
Reading ==
  op.kind = "read" /\ accepted =>
    /\ pc = "poll" =>
         /\ pData = Untouched
         /\ drive[op.master].state \in {"busy", "in", "error"}
         /\ drive[op.master].command = "read" /\ drive[op.master].lba = op.sector
         /\ drive[op.master].state = "in" =>
              /\ op.sector \in DOMAIN disk[op.master]
              /\ drive[op.master].words = disk[op.master][op.sector]
    /\ pc = "read" =>
         /\ op.sector \in DOMAIN disk[op.master]
         /\ i < bytesPerSector => drive[op.master].state = "in"
         /\ drive[op.master].state = "in" =>
              \A j \in 1 .. Len(drive[op.master].words) :
                drive[op.master].words[j] = disk[op.master][op.sector][j + (i \div 2)]
         /\ Got(i)
    /\ pc = "idle" /\ result = "done" =>
         op.sector \in DOMAIN disk[op.master] /\ Got(bytesPerSector)

(* The word the caller's buffer has at position c.                         *)
WordAt(c) ==
  <<IF 2 * c < op.count THEN pData[2 * c] ELSE 0,
    IF 2 * c + 1 < op.count THEN pData[2 * c + 1] ELSE 0>>

(* The drive has taken all words so far, or lags behind for good.          *)
Writing ==
  pc = "write" =>
    /\ accepted => drive[op.master].lba = op.sector
    /\ drive[op.master].state = "out" =>
         /\ Len(drive[op.master].words) <= i \div 2
         /\ Len(drive[op.master].words) = i \div 2 =>
              \A j \in 1 .. Len(drive[op.master].words) :
                drive[op.master].words[j] = WordAt(j - 1)

IInv == Typed /\ Phases /\ Offered /\ Reading /\ Writing

-----------------------------------------------------------------------------

(* The sector the drive is told is the one the caller passed.              *)
LEMMA AddressExact ==
  ASSUME NEW s \in Nat, ~TooLarge(s)
  PROVE  Address(s) = s
BY SMT DEF Address, TooLarge, ByteAt

LEMMA SizeFacts == W \in Nat \ {0} /\ bytesPerSector = 2 * W /\ TRUE \in Drives
BY AtaAssumption DEF bytesPerSector, Drives

LEMMA UntouchedTyped == Untouched \in [Offsets -> Bytes]
BY DEF Untouched, Bytes

LEMMA IdleTyped == Idle \in DriveRecords /\ Len(Idle.words) = 0
BY DEF Idle, DriveRecords, Commands

LEMMA InitFacts == Init => IInv
<1> SUFFICES ASSUME Init PROVE IInv
  OBVIOUS
<1>1. Typed
  <2>1. /\ DOMAIN disk = Drives
        /\ \A m \in Drives : \A s \in DOMAIN disk[m] :
             disk[m][s] \in Seq(Words) /\ Len(disk[m][s]) = W
    <3>1. Octets \X Octets \subseteq Words
      BY DEF Words, Bytes
    <3> QED
      BY <3>1, AtaAssumption DEF Init
  <2>2. /\ drive \in [Drives -> DriveRecords]
        /\ \A m \in Drives : Len(drive[m].words) <= W
        /\ \A m \in Drives : m \notin present => drive[m] = Idle
    BY IdleTyped, SizeFacts DEF Init
  <2>3. op \in [kind : Kinds, master : Drives, sector : Nat, count : 0 .. bytesPerSector]
    <3>1. 0 \in 0 .. bytesPerSector /\ 0 \in Nat /\ "none" \in Kinds
      BY SizeFacts DEF Kinds
    <3> QED
      BY <3>1, SizeFacts DEF Init
  <2>4. i \in 0 .. bytesPerSector /\ i % 2 = 0
    BY SizeFacts DEF Init
  <2> QED
    BY <2>1, <2>2, <2>3, <2>4, UntouchedTyped DEF Init, Typed
<1>2. \A m \in Drives : ~Offers(m)
  BY DEF Init, Offers, Idle
<1> QED
  BY <1>1, <1>2 DEF Init, IInv, Phases, Offered, Reading, Writing

-----------------------------------------------------------------------------
(* Calls.                                                                  *)

(* What becomes of the drives by a command.                                *)
LEMMA CommandFacts ==
  ASSUME Typed, NEW m \in Drives, NEW c \in {"read", "write", "identify", "flush"},
         NEW lba \in Nat, Command(c, m, lba)
  PROVE  /\ drive' \in [Drives -> DriveRecords]
         /\ \A n \in Drives : n # m => drive'[n] = drive[n]
         /\ accepted' = Accepts(m)
         /\ Accepts(m) =>
              /\ m \in present
              /\ drive'[m].state \in {"busy", "out"}
              /\ c # "write" => drive'[m].state = "busy"
              /\ drive'[m].command = c /\ drive'[m].lba = lba /\ drive'[m].words = << >>
         /\ ~Accepts(m) => drive' = drive
<1>1. drive \in [Drives -> DriveRecords]
  BY DEF Typed
<1>2. CASE Accepts(m)
  <2>1. PICK s \in {"busy", "out"} :
          /\ c # "write" => s = "busy"
          /\ drive' = [drive EXCEPT ![m] = [state |-> s, command |-> c, lba |-> lba,
                                            words |-> << >>]]
    BY <1>2 DEF Command
  <2>2. [state |-> s, command |-> c, lba |-> lba, words |-> << >>] \in DriveRecords
    BY DEF DriveRecords, Commands
  <2> HIDE DEF Drives
  <2> QED
    BY <1>1, <1>2, <2>1, <2>2 DEF Command, Accepts
<1>3. CASE ~Accepts(m)
  BY <1>1, <1>3 DEF Command
<1> QED
  BY <1>2, <1>3

LEMMA CommandTyped ==
  ASSUME Typed, NEW m \in Drives, NEW c \in {"read", "write", "identify", "flush"},
         NEW lba \in Nat, Command(c, m, lba), UNCHANGED present
  PROVE  /\ drive' \in [Drives -> DriveRecords]
         /\ \A n \in Drives : Len(drive'[n].words) <= W
         /\ \A n \in Drives : n \notin present' => drive'[n] = Idle
<1>1. \A n \in Drives : Len(drive[n].words) <= W /\ (n \notin present => drive[n] = Idle)
  BY DEF Typed
<1>2. Accepts(m) => m \in present /\ drive'[m].words = << >>
  BY CommandFacts
<1>3. Len(<< >>) <= W
  BY SizeFacts
<1> QED
  BY <1>1, <1>2, <1>3, CommandFacts

(* Between calls no drive offers anything, so that only the drive a read   *)
(* or an identification was begun on may come to.                          *)
LEMMA CommandOffers ==
  ASSUME IInv, pc = "idle", NEW m \in Drives,
         NEW c \in {"read", "write", "identify", "flush"}, NEW lba \in Nat, Command(c, m, lba),
         NEW n \in Drives, Offers(n)'
  PROVE  n = m /\ Accepts(m) /\ c \in {"read", "identify"} /\ drive'[n].state = "busy"
<1>1. ~Offers(n)
  BY DEF IInv, Offered
<1>2. Typed
  BY DEF IInv
<1> QED
  BY <1>1, <1>2, CommandFacts DEF Offers

LEMMA ReadBegins ==
  ASSUME IInv, NEW m \in Drives, NEW s \in Sectors, NEW n \in Counts, Read28(m, s, n)
  PROVE  IInv'
<1>1. /\ pc = "idle" /\ i' = 0 /\ pData' = Untouched /\ UNCHANGED <<present, disk>>
      /\ op' = [kind |-> "read", master |-> m, sector |-> s, count |-> n]
  BY DEF Read28, Begin
<1>2. s \in Nat /\ n \in 0 .. bytesPerSector
  BY AtaAssumption
<1>3. /\ op' \in [kind : Kinds, master : Drives, sector : Nat, count : 0 .. bytesPerSector]
      /\ i' \in 0 .. bytesPerSector /\ i' % 2 = 0 /\ pData' \in [Offsets -> Bytes]
  BY <1>1, <1>2, SizeFacts, UntouchedTyped DEF Kinds
<1>4. CASE TooLarge(s)
  <2>1. pc' = "idle" /\ result' = "refused" /\ accepted' = FALSE /\ drive' = drive
    BY <1>4 DEF Read28, Refuse
  <2>2. Typed'
    BY <1>1, <1>3, <2>1 DEF IInv, Typed, Offsets, bytesPerSector, Drives
  <2> QED
    BY <1>1, <2>1, <2>2 DEF IInv, Phases, Offered, Offers, Reading, Writing
<1>5. CASE ~TooLarge(s)
  <2>1. Command("read", m, s) /\ pc' = "poll" /\ result' = result
    BY <1>2, <1>5, AddressExact DEF Read28
  <2>2. Typed'
    <3>1. /\ drive' \in [Drives -> DriveRecords]
          /\ \A k \in Drives : Len(drive'[k].words) <= W
          /\ \A k \in Drives : k \notin present' => drive'[k] = Idle
      BY <1>1, <1>2, <2>1, CommandTyped DEF IInv
    <3>2. accepted' \in BOOLEAN /\ pc' \in {"idle", "poll", "read", "write"}
      BY <2>1 DEF Command, Accepts
    <3> QED
      BY <1>1, <1>3, <2>1, <3>1, <3>2 DEF IInv, Typed, Offsets, bytesPerSector, Drives
  <2>3. Phases'
    BY <1>1, <1>5, <2>1 DEF Phases
  <2>4. Offered'
    <3> SUFFICES ASSUME NEW k \in Drives, Offers(k)'
                 PROVE  k = m /\ drive'[k].state = "busy"
      BY <1>1, <2>1 DEF Offered
    <3> QED
      BY <1>1, <1>2, <2>1, CommandOffers
  <2>5. Reading'
    <3> SUFFICES ASSUME accepted' PROVE /\ pData' = Untouched' /\ drive'[m].state = "busy"
                                        /\ drive'[m].command = "read" /\ drive'[m].lba = s
      BY <1>1, <2>1 DEF Reading
    <3> QED
      BY <1>1, <1>2, <2>1, CommandFacts DEF IInv, Untouched
  <2>6. Writing'
    BY <2>1 DEF Writing
  <2> QED
    BY <2>2, <2>3, <2>4, <2>5, <2>6 DEF IInv
<1> QED
  BY <1>4, <1>5

LEMMA WriteBegins ==
  ASSUME IInv, NEW m \in Drives, NEW s \in Sectors, NEW n \in Counts, NEW b \in Buffers,
         Write28(m, s, n, b)
  PROVE  IInv'
<1>1. /\ pc = "idle" /\ i' = 0 /\ pData' = b /\ UNCHANGED <<present, disk>>
      /\ op' = [kind |-> "write", master |-> m, sector |-> s, count |-> n]
  BY DEF Write28, Begin
<1>2. s \in Nat /\ n \in 0 .. bytesPerSector /\ b \in [Offsets -> Bytes]
  BY AtaAssumption DEF Bytes
<1>3. /\ op' \in [kind : Kinds, master : Drives, sector : Nat, count : 0 .. bytesPerSector]
      /\ i' \in 0 .. bytesPerSector /\ i' % 2 = 0 /\ pData' \in [Offsets -> Bytes]
  BY <1>1, <1>2, SizeFacts DEF Kinds
<1>4. CASE TooLarge(s) \/ n > bytesPerSector
  <2>1. pc' = "idle" /\ result' = "refused" /\ accepted' = FALSE /\ drive' = drive
    BY <1>4 DEF Write28, Refuse
  <2>2. Typed'
    BY <1>1, <1>3, <2>1 DEF IInv, Typed, Offsets, bytesPerSector, Drives
  <2> QED
    BY <1>1, <2>1, <2>2 DEF IInv, Phases, Offered, Offers, Reading, Writing
<1>5. CASE ~(TooLarge(s) \/ n > bytesPerSector)
  <2>1. Command("write", m, s) /\ pc' = "write" /\ result' = result
    BY <1>2, <1>5, AddressExact DEF Write28
  <2>2. Typed'
    <3>1. /\ drive' \in [Drives -> DriveRecords]
          /\ \A k \in Drives : Len(drive'[k].words) <= W
          /\ \A k \in Drives : k \notin present' => drive'[k] = Idle
      BY <1>1, <1>2, <2>1, CommandTyped DEF IInv
    <3>2. accepted' \in BOOLEAN /\ pc' \in {"idle", "poll", "read", "write"}
      BY <2>1 DEF Command, Accepts
    <3> QED
      BY <1>1, <1>3, <2>1, <3>1, <3>2 DEF IInv, Typed, Offsets, bytesPerSector, Drives
  <2>3. Phases'
    BY <1>1, <1>5, <2>1 DEF Phases
  <2>4. Offered'
    BY <1>1, <1>2, <2>1, CommandOffers DEF Offered
  <2>5. Reading'
    BY <1>1 DEF Reading
  <2>6. Writing'
    <3>1. accepted' => drive'[m].lba = s
      BY <1>2, <2>1, CommandFacts DEF IInv
    <3>2. ASSUME drive'[m].state = "out" PROVE drive'[m].words = << >>
      <4>1. Accepts(m)
        <5>1. ASSUME ~Accepts(m) PROVE m \notin present \/ drive[m].state = "busy"
          BY <5>1 DEF Accepts
        <5>2. m \notin present => drive[m].state = "idle"
          BY DEF IInv, Typed, Idle
        <5>3. ~Accepts(m) => drive' = drive
          BY <1>2, <2>1, CommandFacts DEF IInv
        <5> QED
          BY <3>2, <5>1, <5>2, <5>3
      <4> QED
        BY <1>2, <2>1, <4>1, CommandFacts DEF IInv
    <3>3. Len(<< >>) = 0 /\ 0 <= i' \div 2
      BY <1>1
    <3> QED
      BY <1>1, <3>1, <3>2, <3>3 DEF Writing
  <2> QED
    BY <2>2, <2>3, <2>4, <2>5, <2>6 DEF IInv
<1> QED
  BY <1>4, <1>5

(* Identify and Flush, when there is a bus at all.                         *)
LEMMA PlainCommandBegins ==
  ASSUME IInv, NEW m \in Drives, NEW c \in {"identify", "flush"},
         Begin(c, m, 0, 0, Untouched), Command(c, m, 0), PollIfThere(m)
  PROVE  IInv'
<1>1. /\ pc = "idle" /\ i' = 0 /\ pData' = Untouched /\ UNCHANGED <<present, disk>>
      /\ op' = [kind |-> c, master |-> m, sector |-> 0, count |-> 0]
  BY DEF Begin
<1>2. /\ op' \in [kind : Kinds, master : Drives, sector : Nat, count : 0 .. bytesPerSector]
      /\ i' \in 0 .. bytesPerSector /\ i' % 2 = 0 /\ pData' \in [Offsets -> Bytes]
  <2>1. 0 \in 0 .. bytesPerSector /\ 0 \in Nat /\ c \in Kinds
    BY SizeFacts DEF Kinds
  <2> QED
    BY <1>1, <2>1, UntouchedTyped
<1>3. \/ pc' = "poll" /\ result' = result
      \/ pc' = "idle" /\ result' = "refused"
  BY DEF PollIfThere
<1>4. Typed'
  <2>1. c \in {"read", "write", "identify", "flush"} /\ 0 \in Nat
    OBVIOUS
  <2>2. /\ drive' \in [Drives -> DriveRecords]
        /\ \A n \in Drives : Len(drive'[n].words) <= W
        /\ \A n \in Drives : n \notin present' => drive'[n] = Idle
    BY <1>1, <2>1, CommandTyped DEF IInv
  <2>3. accepted' \in BOOLEAN
    BY DEF Command, Accepts
  <2>4. result' \in {"done", "error", "refused"} /\ pc' \in {"idle", "poll", "read", "write"}
    BY <1>3 DEF IInv, Typed
  <2> QED
    BY <1>1, <1>2, <2>2, <2>3, <2>4 DEF IInv, Typed
<1>5. Phases'
  <2>1. ~TooLarge(0)
    BY DEF TooLarge
  <2> QED
    BY <1>1, <1>3, <2>1 DEF Phases
<1>6. Offered'
  <2> SUFFICES ASSUME NEW k \in Drives, Offers(k)'
               PROVE  k = m /\ c # "flush" /\ drive'[k].state = "busy" /\ pc' = "poll"
    BY <1>1 DEF Offered
  <2>1. k = m /\ Accepts(m) /\ c = "identify" /\ drive'[k].state = "busy"
    BY <1>1, CommandOffers
  <2>2. m \in present'
    BY <1>1, <2>1 DEF Accepts
  <2>3. Status(m)' # {}
    BY <2>1, <2>2 DEF Status
  <2> QED
    BY <2>1, <2>3 DEF PollIfThere
<1>7. Reading' /\ Writing'
  BY <1>1, <1>3 DEF Reading, Writing
<1> QED
  BY <1>4, <1>5, <1>6, <1>7 DEF IInv

LEMMA IdentifyRefused ==
  ASSUME IInv, NEW m \in Drives, Begin("identify", m, 0, 0, Untouched), Refuse
  PROVE  IInv'
<1>1. /\ pc = "idle" /\ i' = 0 /\ pData' = Untouched /\ UNCHANGED <<present, disk>>
      /\ op' = [kind |-> "identify", master |-> m, sector |-> 0, count |-> 0]
  BY DEF Begin
<1>2. pc' = "idle" /\ result' = "refused" /\ accepted' = FALSE /\ drive' = drive
  BY DEF Refuse
<1>3. Typed'
  <2>1. 0 \in 0 .. bytesPerSector /\ 0 \in Nat /\ "identify" \in Kinds
    BY SizeFacts DEF Kinds
  <2>2. /\ op' \in [kind : Kinds, master : Drives, sector : Nat, count : 0 .. bytesPerSector]
        /\ i' \in 0 .. bytesPerSector /\ i' % 2 = 0 /\ pData' \in [Offsets -> Bytes]
    BY <1>1, <2>1, UntouchedTyped
  <2> QED
    BY <1>1, <1>2, <2>2 DEF IInv, Typed, Offsets, bytesPerSector, Drives
<1> QED
  BY <1>1, <1>2, <1>3 DEF IInv, Phases, Offered, Offers, Reading, Writing

LEMMA CallKeeps == ASSUME IInv, Call PROVE IInv'
<1>1. ASSUME NEW m \in Drives, Identify(m) PROVE IInv'
  BY <1>1, PlainCommandBegins, IdentifyRefused DEF Identify
<1>2. ASSUME NEW m \in Drives, Flush(m) PROVE IInv'
  BY <1>2, PlainCommandBegins DEF Flush
<1> QED
  BY <1>1, <1>2, ReadBegins, WriteBegins DEF Call

-----------------------------------------------------------------------------
(* A drive ends its busy phase.                                            *)

LEMMA ReadyFacts ==
  ASSUME Typed, NEW m \in Drives, Ready(m)
  PROVE  /\ drive[m].state = "busy" /\ m \in present
         /\ UNCHANGED <<present, disk, driverVars>>
         /\ drive' \in [Drives -> DriveRecords]
         /\ \A n \in Drives : n # m => drive'[n] = drive[n]
         /\ drive'[m].command = drive[m].command /\ drive'[m].lba = drive[m].lba
         /\ Len(drive'[m].words) <= W
         /\ \/ /\ drive'[m].state = "in"
               /\ drive[m].command \in {"read", "identify"}
               /\ Len(drive'[m].words) = W
               /\ drive[m].command = "read" =>
                    /\ drive[m].lba \in DOMAIN disk[m]
                    /\ drive'[m].words = disk[m][drive[m].lba]
            \/ /\ drive'[m].state \in {"out", "idle", "error"}
               /\ drive'[m].words = << >>
               /\ drive'[m].state = "out" => drive[m].command = "write"
               /\ drive'[m].state = "idle" => drive[m].command \in {"store", "flush"}
<1>1. drive[m].state = "busy" /\ UNCHANGED <<present, disk, driverVars>>
  BY DEF Ready
<1>2. m \in present
  BY <1>1 DEF Typed, Idle
<1> DEFINE Now(s, ws) == drive' = [drive EXCEPT ![m].state = s, ![m].words = ws]
<1>3. ASSUME NEW s \in {"idle", "busy", "in", "out", "error"}, NEW ws \in Seq(Words), Now(s, ws)
      PROVE  /\ drive' \in [Drives -> DriveRecords]
             /\ \A n \in Drives : n # m => drive'[n] = drive[n]
             /\ drive'[m].command = drive[m].command /\ drive'[m].lba = drive[m].lba
             /\ drive'[m].state = s /\ drive'[m].words = ws
  <2>1. drive[m] \in DriveRecords /\ drive \in [Drives -> DriveRecords]
    BY DEF Typed
  <2>2. [drive[m] EXCEPT !.state = s, !.words = ws] \in DriveRecords
    BY <2>1 DEF DriveRecords
  <2>3. drive' = [drive EXCEPT ![m] = [drive[m] EXCEPT !.state = s, !.words = ws]]
    BY <1>3, <2>1 DEF DriveRecords
  <2> QED
    BY <2>1, <2>2, <2>3 DEF DriveRecords
<1>4. << >> \in Seq(Words) /\ Len(<< >>) <= W
  BY SizeFacts
<1>5. CASE drive[m].command = "read" /\ drive[m].lba \in DOMAIN disk[m]
           /\ Now("in", disk[m][drive[m].lba])
  <2>1. disk[m][drive[m].lba] \in Seq(Words) /\ Len(disk[m][drive[m].lba]) = W
    BY <1>5 DEF Typed
  <2>2. /\ drive' \in [Drives -> DriveRecords]
        /\ \A n \in Drives : n # m => drive'[n] = drive[n]
        /\ drive'[m].command = drive[m].command /\ drive'[m].lba = drive[m].lba
        /\ drive'[m].state = "in" /\ drive'[m].words = disk[m][drive[m].lba]
    BY <1>3, <1>5, <2>1
  <2>3. Len(drive'[m].words) = W /\ W <= W
    BY <2>1, <2>2, SizeFacts
  <2> HIDE DEF Now
  <2> QED
    BY <1>1, <1>2, <1>5, <2>2, <2>3
<1>6. CASE drive[m].command = "identify" /\ Now("in", [k \in 1 .. W |-> <<Junk, Junk>>])
  <2> DEFINE ws == [k \in 1 .. W |-> <<Junk, Junk>>]
  <2>1. ws \in Seq(Words) /\ Len(ws) = W
    <3>1. <<Junk, Junk>> \in Words
      BY DEF Words, Bytes
    <3> QED
      BY <3>1, SizeFacts
  <2> HIDE DEF ws
  <2>2. /\ drive' \in [Drives -> DriveRecords]
        /\ \A n \in Drives : n # m => drive'[n] = drive[n]
        /\ drive'[m].command = drive[m].command /\ drive'[m].lba = drive[m].lba
        /\ drive'[m].state = "in" /\ drive'[m].words = ws
    <3>1. Now("in", ws)
      BY <1>6 DEF ws
    <3> QED
      BY <1>3, <2>1, <3>1
  <2>3. Len(drive'[m].words) = W /\ W <= W
    BY <2>1, <2>2, SizeFacts
  <2>4. drive[m].command = "identify"
    BY <1>6
  <2> HIDE DEF Now
  <2> QED
    BY <1>1, <1>2, <2>2, <2>3, <2>4
<1>7. CASE drive[m].command = "write" /\ Now("out", << >>)
  BY <1>1, <1>2, <1>3, <1>4, <1>7
<1>8. CASE drive[m].command \in {"store", "flush"} /\ Now("idle", << >>)
  BY <1>1, <1>2, <1>3, <1>4, <1>8
<1>9. CASE Now("error", << >>)
  BY <1>1, <1>2, <1>3, <1>4, <1>9
<1> QED
  BY <1>5, <1>6, <1>7, <1>8, <1>9 DEF Ready

LEMMA ReadyKeeps ==
  ASSUME IInv, NEW m \in Drives, Ready(m)
  PROVE  IInv'
<1>1. Typed /\ Phases /\ Offered /\ Reading /\ Writing
  BY DEF IInv
<1>2. /\ drive[m].state = "busy" /\ m \in present
      /\ present' = present /\ disk' = disk /\ pc' = pc /\ op' = op /\ i' = i /\ pData' = pData
      /\ result' = result /\ accepted' = accepted
  BY <1>1, ReadyFacts DEF driverVars
<1>3. Typed'
  BY <1>1, <1>2, ReadyFacts DEF Typed, Offsets, bytesPerSector, Drives
<1>4. Phases'
  BY <1>1, <1>2 DEF Phases
<1>5. Offered'
  <2> SUFFICES ASSUME NEW k \in Drives, Offers(k)'
               PROVE  /\ pc \in {"poll", "read"} /\ op.master = k /\ op.kind # "flush"
                      /\ pc = "read" => drive'[k].state = "in"
                      /\ drive'[k].state = "in" =>
                           2 * Len(drive'[k].words) = bytesPerSector - i /\ Len(drive'[k].words) > 0
    BY <1>2 DEF Offered, bytesPerSector
  <2>1. CASE k # m
    <3>1. drive'[k] = drive[k] /\ Offers(k)
      BY <1>1, <2>1, ReadyFacts DEF Offers
    <3> QED
      BY <1>1, <3>1 DEF Offered
  <2>2. CASE k = m
    <3>1. drive'[m].state = "in" /\ Len(drive'[m].words) = W /\ Offers(m)
      BY <1>1, <1>2, <2>2, ReadyFacts DEF Offers
    <3>2. pc = "poll" /\ i = 0 /\ op.master = m /\ op.kind # "flush"
      BY <1>1, <1>2, <3>1 DEF Offered, Phases
    <3> QED
      BY <2>2, <3>1, <3>2, SizeFacts
  <2> QED
    BY <2>1, <2>2
<1>6. Reading'
  <2>1. CASE op.master # m
    <3>1. op.master \in Drives /\ drive'[op.master] = drive[op.master]
      BY <1>1, <2>1, ReadyFacts DEF Typed
    <3> QED
      BY <1>1, <1>2, <3>1 DEF Reading, Got, Untouched, Offsets, bytesPerSector
  <2>2. CASE op.master = m
    <3> SUFFICES ASSUME op.kind = "read", accepted PROVE Reading'
      BY <1>2 DEF Reading
    <3>1. pc = "read" => ~(i < bytesPerSector) /\ drive'[m].state # "in"
      <4> SUFFICES ASSUME pc = "read" PROVE ~(i < bytesPerSector) /\ drive'[m].state # "in"
        OBVIOUS
      <4>1. ~(i < bytesPerSector)
        BY <1>1, <1>2, <2>2 DEF Reading
      <4>2. ~Offers(m)
        BY <1>1, <1>2 DEF Offered
      <4>3. drive'[m].state # "in"
        BY <1>1, <1>2, <4>2, ReadyFacts DEF Offers
      <4> QED
        BY <4>1, <4>3
    <3>2. CASE pc = "poll"
      BY <1>1, <1>2, <2>2, <3>2, ReadyFacts DEF Reading, Got, Untouched, Offsets, bytesPerSector
    <3>3. CASE pc # "poll"
      BY <1>1, <1>2, <2>2, <3>1, <3>3 DEF Reading, Got, Untouched, Offsets, bytesPerSector
    <3> QED
      BY <3>2, <3>3
  <2> QED
    BY <2>1, <2>2
<1>7. Writing'
  <2>1. op.master \in Drives /\ i \in Nat
    BY <1>1, SizeFacts DEF Typed
  <2>2. CASE op.master # m
    <3>1. drive'[op.master] = drive[op.master]
      BY <1>1, <2>1, <2>2, ReadyFacts
    <3>2. \A c : WordAt(c)' = WordAt(c)
      BY <1>2 DEF WordAt
    <3> QED
      BY <1>1, <1>2, <3>1, <3>2 DEF Writing
  <2>3. CASE op.master = m
    <3>1. drive'[m].lba = drive[m].lba
      BY <1>1, ReadyFacts
    <3>2. drive'[m].state = "out" => drive'[m].words = << >>
      BY <1>1, ReadyFacts
    <3>3. Len(<< >>) = 0 /\ 0 <= i \div 2
      BY <2>1
    <3> QED
      BY <1>1, <1>2, <2>3, <3>1, <3>2, <3>3 DEF Writing
  <2> QED
    BY <2>2, <2>3
<1> QED
  BY <1>3, <1>4, <1>5, <1>6, <1>7 DEF IInv

-----------------------------------------------------------------------------
(* The driver's loops.                                                     *)

LEMMA StatusFacts ==
  ASSUME Typed, NEW m \in Drives, drive[m].state \in {"busy", "in", "error"}
  PROVE  /\ m \in present
         /\ StillBusy(Status(m)) <=> drive[m].state = "busy"
         /\ ERR \in Status(m) <=> drive[m].state = "error"
<1>1. m \in present
  BY DEF Typed, Idle
<1>2. CASE drive[m].state = "busy"
  BY <1>1, <1>2 DEF Status, StillBusy, BSY, DRDY, DRQ, ERR
<1>3. CASE drive[m].state = "in"
  BY <1>1, <1>3 DEF Status, StillBusy, BSY, DRDY, DRQ, ERR
<1>4. CASE drive[m].state = "error"
  BY <1>1, <1>4 DEF Status, StillBusy, BSY, DRDY, DRQ, ERR
<1> QED
  BY <1>1, <1>2, <1>3, <1>4

LEMMA PollKeeps == ASSUME IInv, Poll PROVE IInv'
<1>1. Typed /\ Phases /\ Offered /\ Reading
  BY DEF IInv
<1>2. /\ pc = "poll" /\ i = 0 /\ op.kind \in {"read", "identify", "flush"}
      /\ ~StillBusy(Status(op.master))
      /\ UNCHANGED <<present, disk, drive, op, i, pData, accepted>>
      /\ op.master \in Drives
  BY <1>1 DEF Poll, Finish, Phases, Typed
<1>3. \A n \in Drives : Offers(n) =>
        n = op.master /\ op.kind # "flush" /\ drive[n].state = "in" /\ ERR \notin Status(n)
  BY <1>1, <1>2, StatusFacts DEF Offered, Offers
<1>4. CASE ERR \in Status(op.master)
  <2>1. pc' = "idle" /\ result' = "error"
    BY <1>4 DEF Poll, Finish
  <2>2. \A n \in Drives : ~Offers(n)'
    BY <1>2, <1>3, <1>4 DEF Offers
  <2>3. Typed'
    BY <1>1, <1>2, <2>1 DEF Typed, Offsets, bytesPerSector, Drives
  <2> QED
    BY <1>2, <2>1, <2>2, <2>3 DEF IInv, Phases, Offered, Reading, Writing
<1>5. CASE ERR \notin Status(op.master) /\ op.kind = "flush"
  <2>1. pc' = "idle" /\ result' = "done"
    BY <1>5 DEF Poll, Finish
  <2>2. \A n \in Drives : ~Offers(n)'
    BY <1>2, <1>3, <1>5 DEF Offers
  <2>3. Typed'
    BY <1>1, <1>2, <2>1 DEF Typed, Offsets, bytesPerSector, Drives
  <2> QED
    BY <1>2, <1>5, <2>1, <2>2, <2>3 DEF IInv, Phases, Offered, Reading, Writing
<1>6. CASE ERR \notin Status(op.master) /\ op.kind # "flush"
  <2>1. pc' = "read" /\ result' = result
    BY <1>6 DEF Poll
  <2>2. Typed'
    BY <1>1, <1>2, <2>1 DEF Typed, Offsets, bytesPerSector, Drives
  <2>3. Phases' /\ Writing'
    BY <1>1, <1>2, <1>6, <2>1 DEF Phases, Writing
  <2>4. Offered'
    BY <1>1, <1>2, <1>3, <2>1 DEF Offered, Offers, bytesPerSector
  <2>5. Reading'
    <3> SUFFICES ASSUME op.kind = "read", accepted PROVE Reading'
      BY <1>2 DEF Reading
    <3>1. /\ pData = Untouched /\ drive[op.master].state = "in"
          /\ op.sector \in DOMAIN disk[op.master]
          /\ drive[op.master].words = disk[op.master][op.sector]
      BY <1>1, <1>2, <1>6, StatusFacts DEF Reading
    <3>2. ASSUME NEW j \in 1 .. Len(drive[op.master].words)
          PROVE  drive[op.master].words[j] = disk[op.master][op.sector][j + (i \div 2)]
      <4>1. drive[op.master].words \in Seq(Words)
        BY <1>1, <1>2 DEF Typed, DriveRecords
      <4>2. j + (i \div 2) = j
        BY <1>2, <4>1
      <4> QED
        BY <3>1, <4>2
    <3>3. Got(i)'
      <4>1. \A k \in Offsets : pData[k] = Junk /\ ~(k < 0)
        BY <3>1, SizeFacts DEF Untouched, Offsets
      <4> QED
        BY <1>2, <4>1 DEF Got, Offsets, bytesPerSector
    <3> QED
      BY <1>2, <2>1, <3>1, <3>2, <3>3 DEF Reading
  <2> QED
    BY <2>2, <2>3, <2>4, <2>5 DEF IInv
<1> QED
  BY <1>4, <1>5, <1>6

LEMMA TransferredKeeps == ASSUME IInv, Transferred PROVE IInv'
<1>1. Typed /\ Phases /\ Offered /\ Reading
  BY DEF IInv
<1>2. /\ pc \in {"read", "write"} /\ pc' = "idle" /\ result' = "done" /\ i = bytesPerSector
      /\ UNCHANGED <<present, disk, drive, op, i, pData, accepted>>
  BY <1>1, SizeFacts DEF Transferred, Finish, TransferEnds, Typed
<1>3. Typed'
  BY <1>1, <1>2 DEF Typed, Offsets, bytesPerSector, Drives
<1>4. ASSUME NEW n \in Drives PROVE ~Offers(n)
  <2> SUFFICES ASSUME Offers(n) PROVE FALSE
    OBVIOUS
  <2>1. drive[n].state = "in"
    BY <1>1, <1>2 DEF Offered
  <2>2. 2 * Len(drive[n].words) = bytesPerSector - bytesPerSector /\ Len(drive[n].words) > 0
    BY <1>1, <1>2, <2>1 DEF Offered
  <2>3. Len(drive[n].words) \in Nat
    BY <1>1 DEF Typed, DriveRecords
  <2> QED
    BY <2>2, <2>3, SizeFacts
<1>5. Offered'
  BY <1>2, <1>4 DEF Offered, Offers
<1>6. Reading'
  <2>1. op.kind = "read" => pc = "read"
    BY <1>1, <1>2 DEF Phases
  <2>2. op.kind = "read" /\ accepted => op.sector \in DOMAIN disk[op.master] /\ Got(bytesPerSector)
    BY <1>1, <1>2, <2>1 DEF Reading
  <2> QED
    BY <1>2, <2>2 DEF Reading, Got, Offsets, bytesPerSector
<1> QED
  BY <1>2, <1>3, <1>5, <1>6 DEF IInv, Phases, Writing

(* Positions of the two bytes of a word, in the sector and in the word.    *)
LEMMA Halves ==
  ASSUME NEW n \in 0 .. bytesPerSector, n % 2 = 0, n < bytesPerSector
  PROVE  /\ n \in Offsets /\ n + 1 \in Offsets /\ n + 2 \in 0 .. bytesPerSector
         /\ (n + 2) % 2 = 0 /\ (n + 2) \div 2 = (n \div 2) + 1 /\ n \div 2 \in 0 .. W - 1
         /\ n = 2 * (n \div 2)
         /\ (n + 1) \div 2 = n \div 2 /\ n % 2 = 0 /\ (n + 1) % 2 = 1
<1>1. W \in Nat /\ bytesPerSector = 2 * W
  BY SizeFacts
<1>2. PICK c \in Nat : n = 2 * c
  <2>1. n = 2 * (n \div 2) /\ n \div 2 \in Nat
    BY <1>1
  <2> QED
    BY <2>1
<1> QED
  BY <1>1, <1>2 DEF Offsets

(* What reading a word does to a drive that offers one.                    *)
LEMMA WordTaken ==
  ASSUME Typed, NEW m \in Drives, drive[m].state = "in", Len(drive[m].words) > 0,
         drive' = AfterIn(m)
  PROVE  /\ DataIn(m) = drive[m].words[1] /\ DataIn(m) \in Words
         /\ drive' \in [Drives -> DriveRecords]
         /\ \A n \in Drives : n # m => drive'[n] = drive[n]
         /\ Len(drive'[m].words) = Len(drive[m].words) - 1
         /\ \A j \in 1 .. Len(drive'[m].words) : drive'[m].words[j] = drive[m].words[j + 1]
         /\ drive'[m].state = IF Len(drive'[m].words) = 0 THEN "idle" ELSE "in"
<1> DEFINE ws == drive[m].words
           s == IF Tail(ws) = << >> THEN "idle" ELSE "in"
<1>1. m \in present /\ drive[m] \in DriveRecords /\ ws \in Seq(Words)
  BY DEF Typed, Idle, DriveRecords
<1>2. /\ Tail(ws) \in Seq(Words) /\ Len(Tail(ws)) = Len(ws) - 1
      /\ \A j \in 1 .. Len(Tail(ws)) : Tail(ws)[j] = ws[j + 1]
      /\ Head(ws) = ws[1] /\ Head(ws) \in Words
  BY <1>1
<1>3. drive' = [drive EXCEPT ![m] = [drive[m] EXCEPT !.words = Tail(ws), !.state = s]]
  BY <1>1 DEF AfterIn, Typed, DriveRecords
<1>4. [drive[m] EXCEPT !.words = Tail(ws), !.state = s] \in DriveRecords
  BY <1>1, <1>2 DEF DriveRecords
<1>5. drive'[m].words = Tail(ws) /\ drive'[m].state = s
  BY <1>1, <1>3 DEF Typed, DriveRecords
<1>6. Tail(ws) = << >> <=> Len(Tail(ws)) = 0
  <2> DEFINE t == Tail(ws)
  <2>1. t \in Seq(Words)
    BY <1>2
  <2> HIDE DEF t
  <2>2. t = << >> <=> Len(t) = 0
    BY <2>1
  <2> QED
    BY <2>2 DEF t
<1>7. DataIn(m) = Head(ws)
  BY <1>1 DEF DataIn
<1>8. drive' \in [Drives -> DriveRecords] /\ \A n \in Drives : n # m => drive'[n] = drive[n]
  BY <1>3, <1>4 DEF Typed
<1>9. drive'[m].state = IF Len(drive'[m].words) = 0 THEN "idle" ELSE "in"
  BY <1>5, <1>6
<1>10. /\ Len(drive'[m].words) = Len(drive[m].words) - 1
       /\ \A j \in 1 .. Len(drive'[m].words) : drive'[m].words[j] = drive[m].words[j + 1]
  BY <1>2, <1>5
<1>11. DataIn(m) = drive[m].words[1] /\ DataIn(m) \in Words
  BY <1>2, <1>7
<1> HIDE DEF ws, s
<1> QED
  BY <1>8, <1>9, <1>10, <1>11

LEMMA StoreTyped ==
  ASSUME Typed, NEW word \in Words, i < bytesPerSector
  PROVE  /\ Store(word) \in [Offsets -> Bytes]
         /\ Store(word)[i] = word[1] /\ Store(word)[i + 1] = word[2]
         /\ \A k \in Offsets : k # i /\ k # i + 1 => Store(word)[k] = pData[k]
<1>1. i \in Offsets /\ i + 1 \in Offsets /\ i # i + 1
  <2>1. i \in 0 .. bytesPerSector /\ i % 2 = 0
    BY DEF Typed
  <2>2. i \in Offsets /\ i + 1 \in Offsets
    BY <2>1, Halves
  <2> QED
    BY <2>1, <2>2
<1>2. word[1] \in Bytes /\ word[2] \in Bytes /\ pData \in [Offsets -> Bytes]
  BY DEF Words, Typed
<1> QED
  BY <1>1, <1>2 DEF Store

LEMMA ReadWordKeeps == ASSUME IInv, ReadWord PROVE IInv'
<1> DEFINE m == op.master
<1>1. Typed /\ Phases /\ Offered /\ Reading
  BY DEF IInv
<1>2. /\ pc = "read" /\ i < bytesPerSector /\ m \in Drives
      /\ pData' = IF i < op.count THEN Store(DataIn(m)) ELSE pData
      /\ drive' = AfterIn(m) /\ i' = i + 2
      /\ UNCHANGED <<present, disk, pc, op, result, accepted>>
  BY <1>1, SizeFacts DEF ReadWord, TransferEnds, Typed
<1>3. /\ i \in 0 .. bytesPerSector /\ i' \in 0 .. bytesPerSector /\ i' % 2 = 0
      /\ i' \div 2 = (i \div 2) + 1
      /\ op.count \in Nat
  BY <1>1, <1>2, Halves, SizeFacts DEF Typed
<1>4. Phases' /\ Writing'
  BY <1>1, <1>2 DEF Phases, Writing
<1>5. CASE drive[m].state # "in"
  <2>1. DataIn(m) = <<Junk, Junk>> /\ drive' = drive
    BY <1>2, <1>5 DEF DataIn, AfterIn
  <2>2. pData' \in [Offsets -> Bytes]
    <3>1. <<Junk, Junk>> \in Words
      BY DEF Words, Bytes
    <3> QED
      BY <1>1, <1>2, <2>1, <3>1, StoreTyped DEF Typed
  <2>3. Typed'
    BY <1>1, <1>2, <1>3, <2>1, <2>2 DEF Typed, Offsets, bytesPerSector, Drives
  <2>4. \A n \in Drives : ~Offers(n)
    BY <1>1, <1>2, <1>5 DEF Offered
  <2>5. Offered'
    BY <1>2, <2>1, <2>4 DEF Offered, Offers
  <2>6. ~(op.kind = "read" /\ accepted)
    BY <1>1, <1>2, <1>5 DEF Reading
  <2> QED
    BY <1>2, <1>4, <2>3, <2>5, <2>6 DEF IInv, Reading
<1>6. CASE drive[m].state = "in"
  <2>1. 2 * Len(drive[m].words) = bytesPerSector - i /\ Len(drive[m].words) > 0
        /\ op.kind # "flush"
    BY <1>1, <1>2, <1>6 DEF Offered, Offers
  <2>2. /\ DataIn(m) = drive[m].words[1] /\ DataIn(m) \in Words
        /\ drive' \in [Drives -> DriveRecords]
        /\ \A n \in Drives : n # m => drive'[n] = drive[n]
        /\ Len(drive'[m].words) = Len(drive[m].words) - 1
        /\ \A j \in 1 .. Len(drive'[m].words) : drive'[m].words[j] = drive[m].words[j + 1]
        /\ drive'[m].state = IF Len(drive'[m].words) = 0 THEN "idle" ELSE "in"
    BY <1>1, <1>2, <1>6, <2>1, WordTaken
  <2> DEFINE before == Len(drive[m].words)
             after == Len(drive'[m].words)
  <2>3. /\ before \in Nat /\ before <= W /\ after \in Nat /\ after = before - 1
        /\ 2 * before = bytesPerSector - i /\ i' = i + 2
        /\ i \in Int /\ i' \in Int /\ bytesPerSector \in Int /\ W \in Int
    BY <1>1, <1>2, <1>3, <2>1, <2>2, SizeFacts DEF Typed, DriveRecords
  <2> HIDE DEF before, after
  <2>4. /\ 2 * after = bytesPerSector - i' /\ after <= W
        /\ i' < bytesPerSector => after # 0
        /\ after # 0 => after > 0
    BY <2>3
  <2> USE DEF before, after
  <2>5. pData' \in [Offsets -> Bytes]
    BY <1>1, <1>2, <2>2, StoreTyped DEF Typed
  <2>6. Typed'
    <3>1. \A n \in Drives : Len(drive'[n].words) <= W /\ (n \notin present => drive'[n] = Idle)
      <4>1. m \in present
        BY <1>1, <1>2, <1>6 DEF Typed, Idle
      <4>2. Len(drive'[m].words) <= W
        BY <2>4
      <4> QED
        BY <1>1, <2>2, <4>1, <4>2 DEF Typed
    <3> QED
      BY <1>1, <1>2, <1>3, <2>2, <2>5, <3>1 DEF Typed, Offsets, bytesPerSector, Drives
  <2>7. Offered'
    <3>1. ASSUME NEW n \in Drives, Offers(n)' PROVE n = m /\ drive'[n].state = "in"
      <4>1. n # m => ~Offers(n)
        BY <1>1, <1>2 DEF Offered
      <4>2. n # m => drive'[n] = drive[n]
        BY <2>2
      <4>3. n = m
        BY <3>1, <4>1, <4>2 DEF Offers
      <4> QED
        BY <2>2, <3>1, <4>3 DEF Offers
    <3>2. drive'[m].state = "in" => Len(drive'[m].words) > 0
      BY <2>2, <2>4
    <3>3. bytesPerSector' = bytesPerSector
      BY DEF bytesPerSector
    <3> QED
      BY <1>2, <2>1, <2>4, <3>1, <3>2, <3>3 DEF Offered
  <2>8. Reading'
    <3> SUFFICES ASSUME op.kind = "read", accepted PROVE Reading'
      BY <1>2 DEF Reading
    <3> DEFINE sector == disk[m][op.sector]
    <3>1. /\ op.sector \in DOMAIN disk[m] /\ Got(i)
          /\ \A j \in 1 .. Len(drive[m].words) : drive[m].words[j] = sector[j + (i \div 2)]
      BY <1>1, <1>2, <1>6 DEF Reading
    <3>2. i' < bytesPerSector => drive'[m].state = "in"
      BY <2>2, <2>4
    <3>3. ASSUME NEW j \in 1 .. Len(drive'[m].words)
          PROVE  drive'[m].words[j] = sector[j + (i' \div 2)]
      <4>1. j + 1 \in 1 .. Len(drive[m].words) /\ (j + 1) + (i \div 2) = j + (i' \div 2)
        <5>1. j \in Int /\ 1 <= j /\ j <= after
          BY <2>3
        <5>2. i' \div 2 = (i \div 2) + 1 /\ i \div 2 \in Int
          BY <1>3, <2>3
        <5> HIDE DEF before, after
        <5>3. j + 1 \in 1 .. before
          BY <2>3, <5>1
        <5>4. (j + 1) + (i \div 2) = j + (i' \div 2)
          BY <5>1, <5>2
        <5> QED
          BY <5>3, <5>4 DEF before
      <4> QED
        BY <2>2, <3>1, <4>1
    <3>4. /\ DataIn(m)[1] = ByteOf(sector, i) /\ DataIn(m)[2] = ByteOf(sector, i + 1)
      <4>1. DataIn(m) = sector[1 + (i \div 2)]
        BY <2>1, <2>2, <2>3, <3>1
      <4>2. /\ (i \div 2) + 1 = 1 + (i \div 2) /\ ((i + 1) \div 2) + 1 = 1 + (i \div 2)
            /\ (i % 2) + 1 = 1 /\ ((i + 1) % 2) + 1 = 2
        BY <1>1, <1>2, Halves, SizeFacts DEF Typed
      <4> HIDE DEF sector
      <4> QED
        BY <4>1, <4>2 DEF ByteOf
    <3>5. ASSUME NEW k \in Offsets
          PROVE  /\ k < i + 2 /\ k < op.count => pData'[k] = ByteOf(sector, k)
                 /\ k >= i + 2 \/ k >= op.count + (op.count % 2) => pData'[k] = Junk
      <4>1. /\ k < i /\ k < op.count => pData[k] = ByteOf(sector, k)
            /\ k >= i \/ k >= op.count + (op.count % 2) => pData[k] = Junk
        BY <3>1 DEF Got
      <4>2. k \in Nat /\ i \in Nat /\ i % 2 = 0
        BY <1>1, SizeFacts DEF Typed, Offsets
      <4>3. CASE i < op.count
        <5>1. /\ pData'[i] = ByteOf(sector, i) /\ pData'[i + 1] = ByteOf(sector, i + 1)
              /\ k # i /\ k # i + 1 => pData'[k] = pData[k]
          BY <1>1, <1>2, <2>2, <3>4, <4>3, StoreTyped
        <5>2. op.count + (op.count % 2) >= i + 2
          BY <1>3, <4>2, <4>3
        <5> HIDE DEF sector
        <5> QED
          BY <1>3, <4>1, <4>2, <5>1, <5>2
      <4>4. CASE ~(i < op.count)
        BY <1>2, <1>3, <4>1, <4>2, <4>4
      <4> QED
        BY <4>3, <4>4
    <3>6. Got(i)'
      BY <1>2, <3>5 DEF Got, Offsets, bytesPerSector
    <3> QED
      BY <1>2, <3>1, <3>2, <3>3, <3>6 DEF Reading, bytesPerSector
  <2> QED
    BY <1>4, <2>6, <2>7, <2>8 DEF IInv
<1> QED
  BY <1>5, <1>6

(* What writing a word does: nothing, one word more in the drive, or a     *)
(* whole sector more on the disk.                                          *)
LEMMA WordGiven ==
  ASSUME IInv, WriteWord
  PROVE  LET m == op.master
             words == Append(drive[m].words, Word)
         IN
         /\ pc = "write" /\ op.kind = "write" /\ m \in Drives
         /\ i' = i + 2 /\ UNCHANGED <<present, pc, op, pData, result, accepted>>
         /\ i' \in 0 .. bytesPerSector /\ i' % 2 = 0 /\ i' \div 2 = (i \div 2) + 1
         /\ \/ drive[m].state # "out" /\ UNCHANGED <<disk, drive>>
            \/ /\ drive[m].state = "out" /\ m \in present
               /\ words \in Seq(Words) /\ Len(words) = Len(drive[m].words) + 1
               /\ Len(words) <= (i \div 2) + 1
               /\ Len(words) = (i \div 2) + 1 =>
                    \A j \in 1 .. Len(words) : words[j] = WordAt(j - 1)
               /\ \/ /\ Len(words) < W /\ disk' = disk
                     /\ drive' = [drive EXCEPT ![m].words = words]
                  \/ /\ Len(words) = W /\ (i \div 2) + 1 = W
                     /\ disk' = [disk EXCEPT ![m][drive[m].lba] = words]
                     /\ \E s \in {"idle", "busy"} :
                          drive' = [drive EXCEPT ![m] = [state |-> s, command |-> "store",
                                      lba |-> drive[m].lba, words |-> << >>]]
<1> DEFINE m == op.master
           words == Append(drive[m].words, Word)
<1>1. Typed /\ Phases /\ Offered /\ Writing
  BY DEF IInv
<1>2. /\ pc = "write" /\ op.kind = "write" /\ m \in Drives
      /\ i \in 0 .. bytesPerSector /\ i % 2 = 0 /\ i < bytesPerSector /\ DataOut(m, Word)
      /\ i' = i + 2 /\ UNCHANGED <<present, pc, op, pData, result, accepted>>
  BY <1>1, SizeFacts DEF WriteWord, TransferEnds, Typed, Phases
<1>3. /\ i' \in 0 .. bytesPerSector /\ i' % 2 = 0 /\ i' \div 2 = (i \div 2) + 1
      /\ i \div 2 \in 0 .. W - 1 /\ i = 2 * (i \div 2) /\ i \in Offsets /\ i + 1 \in Offsets
  BY <1>2, Halves
<1>4. Word = WordAt(i \div 2)
  BY <1>3 DEF Word, WordAt
<1>5. Word \in Words
  <2>1. pData[i] \in Bytes /\ pData[i + 1] \in Bytes
    BY <1>1, <1>3 DEF Typed
  <2>2. 0 \in Bytes
    BY DEF Bytes, Octets
  <2> QED
    BY <2>1, <2>2 DEF Word, Words
<1>6. CASE drive[m].state # "out"
  BY <1>2, <1>3, <1>6 DEF DataOut
<1>7. CASE drive[m].state = "out"
  <2>1. m \in present
    BY <1>1, <1>2, <1>7 DEF Typed, Idle
  <2>2. /\ drive[m].words \in Seq(Words)
        /\ Len(drive[m].words) <= i \div 2
        /\ Len(drive[m].words) = i \div 2 =>
             \A j \in 1 .. Len(drive[m].words) : drive[m].words[j] = WordAt(j - 1)
    BY <1>1, <1>2, <1>7 DEF Typed, DriveRecords, Writing
  <2>3. /\ words \in Seq(Words) /\ Len(words) = Len(drive[m].words) + 1
        /\ \A j \in 1 .. Len(drive[m].words) : words[j] = drive[m].words[j]
        /\ words[Len(drive[m].words) + 1] = Word
    BY <1>5, <2>2, AppendProperties
  <2> DEFINE n == Len(drive[m].words)
             c == i \div 2
  <2>4. n \in Nat /\ c \in Nat /\ W \in Nat /\ n <= c /\ c <= W - 1 /\ Len(words) = n + 1
    BY <1>3, <2>2, <2>3, SizeFacts
  <2>5. Len(words) = c + 1 => \A j \in 1 .. Len(words) : words[j] = WordAt(j - 1)
    <3> SUFFICES ASSUME Len(words) = c + 1, NEW j \in 1 .. Len(words)
                 PROVE  words[j] = WordAt(j - 1)
      OBVIOUS
    <3>1. n = c
      BY <2>4
    <3>2. CASE j = n + 1
      <4>1. j - 1 = c
        BY <2>4, <3>1, <3>2
      <4> QED
        BY <1>4, <2>3, <3>2, <4>1
    <3>3. CASE j # n + 1
      <4>1. j \in 1 .. n
        BY <2>4, <3>3
      <4> QED
        BY <2>2, <2>3, <3>1, <4>1
    <3> QED
      BY <3>2, <3>3
  <2>6. \/ /\ Len(words) < W /\ disk' = disk
           /\ drive' = [drive EXCEPT ![m].words = words]
        \/ /\ ~(Len(words) < W)
           /\ disk' = [disk EXCEPT ![m][drive[m].lba] = words]
           /\ \E s \in {"idle", "busy"} :
                drive' = [drive EXCEPT ![m] = [state |-> s, command |-> "store",
                            lba |-> drive[m].lba, words |-> << >>]]
    BY <1>2, <1>7, <2>1 DEF DataOut
  <2>7. Len(words) <= c + 1 /\ (~(Len(words) < W) => Len(words) = W /\ c + 1 = W)
    <3> HIDE DEF words, n, c
    <3> QED
      BY <2>4
  <2> QED
    BY <1>2, <1>3, <1>7, <2>1, <2>3, <2>5, <2>6, <2>7
<1> QED
  BY <1>6, <1>7

LEMMA WriteWordKeeps == ASSUME IInv, WriteWord PROVE IInv'
<1> DEFINE m == op.master
           words == Append(drive[m].words, Word)
<1>1. Typed /\ Phases /\ Offered /\ Writing
  BY DEF IInv
<1>2. /\ pc = "write" /\ op.kind = "write" /\ m \in Drives
      /\ i' = i + 2 /\ UNCHANGED <<present, pc, op, pData, result, accepted>>
      /\ i' \in 0 .. bytesPerSector /\ i' % 2 = 0 /\ i' \div 2 = (i \div 2) + 1
  BY WordGiven
<1>3. Phases' /\ Reading'
  BY <1>1, <1>2 DEF Phases, Reading
<1>4. \A n \in Drives : ~Offers(n)
  BY <1>1, <1>2 DEF Offered
<1>5. \A c : WordAt(c)' = WordAt(c)
  BY <1>2 DEF WordAt
<1>6. drive \in [Drives -> DriveRecords] /\ drive[m] \in DriveRecords
  BY <1>1, <1>2 DEF Typed
<1>7. CASE drive[m].state # "out" /\ UNCHANGED <<disk, drive>>
  <2>1. Typed'
    BY <1>1, <1>2, <1>7 DEF Typed, Offsets, bytesPerSector, Drives
  <2> QED
    BY <1>1, <1>2, <1>3, <1>4, <1>7, <2>1 DEF IInv, Offered, Offers, Writing
<1>8. ASSUME drive[m].state = "out", m \in present, words \in Seq(Words),
             Len(words) <= (i \div 2) + 1,
             Len(words) = (i \div 2) + 1 => \A j \in 1 .. Len(words) : words[j] = WordAt(j - 1),
             Len(words) < W, disk' = disk, drive' = [drive EXCEPT ![m].words = words]
      PROVE  IInv'
  <2>1. [drive[m] EXCEPT !.words = words] \in DriveRecords
    BY <1>6, <1>8 DEF DriveRecords
  <2>2. drive' = [drive EXCEPT ![m] = [drive[m] EXCEPT !.words = words]]
    BY <1>6, <1>8 DEF DriveRecords
  <2>3. /\ drive' \in [Drives -> DriveRecords]
        /\ \A n \in Drives : n # m => drive'[n] = drive[n]
        /\ drive'[m].state = "out" /\ drive'[m].lba = drive[m].lba /\ drive'[m].words = words
    BY <1>2, <1>6, <1>8, <2>1, <2>2 DEF DriveRecords
  <2>4. Len(words) <= W
    BY <1>8, SizeFacts
  <2> HIDE DEF words
  <2>5. Typed'
    BY <1>1, <1>2, <1>8, <2>3, <2>4 DEF Typed, Offsets, bytesPerSector, Drives
  <2>6. Offered'
    BY <1>4, <2>3 DEF Offered, Offers
  <2>7. Writing'
    BY <1>1, <1>2, <1>5, <1>8, <2>3 DEF Writing
  <2> QED
    BY <1>3, <2>5, <2>6, <2>7 DEF IInv
<1>9. ASSUME words \in Seq(Words), Len(words) = W, m \in present,
             disk' = [disk EXCEPT ![m][drive[m].lba] = words],
             NEW s \in {"idle", "busy"},
             drive' = [drive EXCEPT ![m] = [state |-> s, command |-> "store",
                                            lba |-> drive[m].lba, words |-> << >>]]
      PROVE  IInv'
  <2>1. [state |-> s, command |-> "store", lba |-> drive[m].lba, words |-> << >>] \in DriveRecords
    BY <1>6 DEF DriveRecords, Commands
  <2>2. /\ drive' \in [Drives -> DriveRecords]
        /\ \A n \in Drives : n # m => drive'[n] = drive[n]
        /\ drive'[m].state = s /\ drive'[m].command = "store"
        /\ drive'[m].lba = drive[m].lba /\ drive'[m].words = << >>
    BY <1>2, <1>6, <1>9, <2>1
  <2>3. Len(<< >>) <= W
    BY SizeFacts
  <2> HIDE DEF words
  <2>4. /\ DOMAIN disk' = Drives
        /\ \A n \in Drives : \A k \in DOMAIN disk'[n] :
             disk'[n][k] \in Seq(Words) /\ Len(disk'[n][k]) = W
    <3>1. DOMAIN disk = Drives
      BY <1>1 DEF Typed
    <3>2. DOMAIN disk' = Drives
      BY <1>9, <3>1
    <3>3. ASSUME NEW n \in Drives, NEW k \in DOMAIN disk'[n]
          PROVE  disk'[n][k] \in Seq(Words) /\ Len(disk'[n][k]) = W
      <4>1. CASE n # m
        BY <1>1, <1>9, <3>1, <3>3, <4>1 DEF Typed
      <4>2. CASE n = m
        <5>1. disk'[m] = [disk[m] EXCEPT ![drive[m].lba] = words]
          BY <1>2, <1>9, <3>1
        <5>2. k \in DOMAIN disk[m]
          BY <3>3, <4>2, <5>1
        <5> QED
          BY <1>1, <1>9, <4>2, <5>1, <5>2 DEF Typed
      <4> QED
        BY <4>1, <4>2
    <3> QED
      BY <3>2, <3>3
  <2>5. Typed'
    BY <1>1, <1>2, <1>9, <2>2, <2>3, <2>4 DEF Typed, Offsets, bytesPerSector, Drives
  <2>6. Offered'
    BY <1>4, <2>2 DEF Offered, Offers
  <2>7. Writing'
    BY <1>1, <1>2, <2>2 DEF Writing
  <2> QED
    BY <1>3, <2>5, <2>6, <2>7 DEF IInv
<1> QED
  BY <1>7, <1>8, <1>9, WordGiven

-----------------------------------------------------------------------------

LEMMA StutterKeeps == ASSUME IInv, UNCHANGED vars PROVE IInv'
<1>1. Typed'
  BY DEF vars, driverVars, IInv, Typed, Offsets, bytesPerSector, Drives
<1>2. Phases' /\ Offered'
  BY DEF vars, driverVars, IInv, Phases, Offered, Offers, bytesPerSector, Drives
<1>3. Reading'
  <2>1. Untouched' = Untouched
    BY DEF Untouched, Offsets, bytesPerSector
  <2>2. \A n \in 0 .. bytesPerSector : Got(n)' = Got(n)
    BY DEF vars, driverVars, Got, Offsets, bytesPerSector, ByteOf
  <2>3. i \in 0 .. bytesPerSector /\ bytesPerSector \in 0 .. bytesPerSector
    BY SizeFacts DEF IInv, Typed
  <2> QED
    BY <2>1, <2>2, <2>3 DEF vars, driverVars, IInv, Reading, bytesPerSector
<1>4. Writing'
  BY DEF vars, driverVars, IInv, Writing, WordAt
<1> QED
  BY <1>1, <1>2, <1>3, <1>4 DEF IInv

LEMMA Keeps == IInv /\ [Next]_vars => IInv'
BY CallKeeps, ReadyKeeps, PollKeeps, ReadWordKeeps, WriteWordKeeps, TransferredKeeps,
   StutterKeeps DEF Next, DriverStep

THEOREM Invariance == Spec => []IInv
BY InitFacts, Keeps, PTL DEF Spec

(* Types: the transfer loops stay in the sector and in the caller's buffer.*)
THEOREM Types == Spec => []TypeOK
<1>1. IInv => TypeOK
  <2> SUFFICES ASSUME IInv PROVE TypeOK
    OBVIOUS
  <2>1. Typed
    BY DEF IInv
  <2>2. \A m \in Drives : drive[m].state \in {"idle", "busy", "in", "out", "error"}
    BY <2>1 DEF Typed, DriveRecords
  <2>3. DOMAIN pData = Offsets
    BY <2>1 DEF Typed
  <2> QED
    BY <2>1, <2>2, <2>3 DEF Typed, TypeOK
<1> QED
  BY <1>1, Invariance, PTL

(* No word a drive offered is left for the next call to find.              *)
THEOREM StaysInStep == Spec => []InStep
<1>1. IInv => InStep
  BY DEF IInv, Offered, Offers, InStep
<1> QED
  BY <1>1, Invariance, PTL

(* A successful read gives the bytes of the sector asked for.              *)
THEOREM ReadsAreTrue == Spec => []ReadsTrue
<1>1. IInv => ReadsTrue
  <2> SUFFICES ASSUME IInv, pc = "idle", op.kind = "read", result = "done", accepted
               PROVE  /\ op.sector \in DOMAIN disk[op.master]
                      /\ Got(bytesPerSector)
    <3>1. \A k \in Offsets : k < bytesPerSector
      BY SizeFacts DEF Offsets
    <3> QED
      BY <3>1 DEF ReadsTrue, Got
  <2> QED
    BY DEF IInv, Reading
<1> QED
  BY <1>1, Invariance, PTL

(* A sector the drive has completed holds the caller's bytes and zeros.    *)
LEMMA SectorStored ==
  ASSUME IInv, WriteWord, NEW m \in Drives, NEW s \in DOMAIN disk[m], disk'[m][s] # disk[m][s]
  PROVE  /\ op.kind = "write" /\ op.master = m
         /\ accepted => op.sector = s
         /\ \A k \in Offsets :
              ByteOf(disk'[m][s], k) = IF k < op.count THEN pData[k] ELSE 0
<1> DEFINE words == Append(drive[op.master].words, Word)
<1>1. Typed /\ Writing /\ op.kind = "write" /\ op.master \in Drives /\ pc = "write"
  BY WordGiven DEF IInv
<1>2. /\ Len(words) = W /\ (i \div 2) + 1 = W
      /\ \A j \in 1 .. Len(words) : words[j] = WordAt(j - 1)
      /\ disk' = [disk EXCEPT ![op.master][drive[op.master].lba] = words]
  BY WordGiven
<1> HIDE DEF words
<1>3. DOMAIN disk = Drives
  BY <1>1 DEF Typed
<1>4. op.master = m
  BY <1>2, <1>3
<1>5. disk'[m] = [disk[m] EXCEPT ![drive[m].lba] = words]
  BY <1>2, <1>3, <1>4
<1>6. s = drive[m].lba /\ disk'[m][s] = words
  BY <1>5
<1>7. accepted => op.sector = s
  BY <1>1, <1>4, <1>6 DEF Writing
<1>8. ASSUME NEW k \in Offsets
      PROVE  ByteOf(words, k) = IF k < op.count THEN pData[k] ELSE 0
  <2>1. k \in 0 .. 2 * W - 1 /\ W \in Nat
    BY SizeFacts DEF Offsets
  <2>2. /\ (k \div 2) + 1 \in 1 .. W /\ ((k \div 2) + 1) - 1 = k \div 2
        /\ \/ k % 2 = 0 /\ k = 2 * (k \div 2)
           \/ k % 2 = 1 /\ k = 2 * (k \div 2) + 1
    BY <2>1
  <2>3. words[(k \div 2) + 1] = WordAt(k \div 2)
    BY <1>2, <2>2
  <2>4. CASE k % 2 = 0 /\ k = 2 * (k \div 2)
    <3>1. (k % 2) + 1 = 1
      BY <2>4
    <3>2. ByteOf(words, k) = WordAt(k \div 2)[1]
      BY <2>3, <3>1 DEF ByteOf
    <3> QED
      BY <2>4, <3>2 DEF WordAt
  <2>5. CASE k % 2 = 1 /\ k = 2 * (k \div 2) + 1
    <3>1. (k % 2) + 1 = 2
      BY <2>5
    <3>2. ByteOf(words, k) = WordAt(k \div 2)[2]
      BY <2>3, <3>1 DEF ByteOf
    <3> QED
      BY <2>5, <3>2 DEF WordAt
  <2> QED
    BY <2>2, <2>4, <2>5
<1> QED
  BY <1>1, <1>4, <1>6, <1>7, <1>8

(* Sectors change as a whole, and only to what the call writes.            *)
THEOREM SectorsAreWhole == Spec => SectorsWhole
<1> DEFINE Whole ==
      \A m \in Drives : \A s \in DOMAIN disk[m] :
        disk'[m][s] # disk[m][s] =>
          /\ op.kind = "write" /\ op.master = m
          /\ accepted => op.sector = s
          /\ \A k \in Offsets :
               ByteOf(disk'[m][s], k) = IF k < op.count THEN pData[k] ELSE 0
<1>1. ASSUME Next PROVE WriteWord \/ disk' = disk
  <2>1. ASSUME NEW m \in Drives, Ready(m) PROVE disk' = disk
    BY <2>1 DEF Ready
  <2>2. ASSUME Call PROVE disk' = disk
    BY <2>2 DEF Call, Read28, Write28, Identify, Flush, Begin
  <2>3. ASSUME Poll \/ ReadWord \/ Transferred PROVE disk' = disk
    BY <2>3 DEF Poll, ReadWord, Transferred, Finish
  <2> QED
    BY <1>1, <2>1, <2>2, <2>3 DEF Next, DriverStep
<1>2. IInv /\ [Next]_vars => [Whole]_vars
  BY <1>1, SectorStored
<1> QED
  BY <1>2, Invariance, PTL DEF Spec, SectorsWhole
=============================================================================
