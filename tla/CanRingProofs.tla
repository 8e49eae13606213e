--------------------------- MODULE CanRingProofs ---------------------------
(***************************************************************************)
(* Proofs about CanRing, for a ring of any size and any set of frames.     *)
(* The full test of the interrupt reads a word that holds both cursors:    *)
(* with its own cursor anywhere but at 0 it refuses nothing, so the ring   *)
(* is a queue for a host that waits (Window < N), while for any other only *)
(* the cursors stay in range.                                              *)
(***************************************************************************)
EXTENDS CanRing, Sequences, SequenceTheorems, TLAPS

LEMMA RingSize == N \in Nat /\ N >= 2 /\ 8 * N < HalfWord /\ Window \in Nat
  BY RingAssumption

(* The values of % that the cursors meet.                                   *)
LEMMA ModRange ==
  ASSUME NEW n \in Nat \ {0}, NEW x \in Int PROVE x % n \in 0..n-1
  OBVIOUS

LEMMA ModSame ==
  ASSUME NEW n \in Nat \ {0}, NEW x \in 0..n-1 PROVE x % n = x
  OBVIOUS

LEMMA ModOver ==
  ASSUME NEW n \in Nat \ {0}, NEW x \in n..2*n-1 PROVE x % n = x - n
  OBVIOUS

LEMMA ModUnder ==
  ASSUME NEW n \in Nat \ {0}, NEW x \in (-n)..(-1) PROVE x % n = x + n
  OBVIOUS

(* The cursors and the occupancy, without %.                                *)
LEMMA AdvanceIntrValue ==
  ASSUME NEW c \in 0..N-1
  PROVE  AdvanceIntr(c) = IF c = N - 1 THEN 0 ELSE c + 1
<1>1. CASE c = N - 1
  BY <1>1, RingSize, ModOver DEF AdvanceIntr
<1>2. CASE c # N - 1
  BY <1>2, RingSize, ModSame DEF AdvanceIntr
<1> QED BY <1>1, <1>2

LEMMA OccupancyValue ==
  ASSUME intr \in 0..N-1, deal \in 0..N
  PROVE  Occupancy = IF intr >= deal THEN intr - deal ELSE intr - deal + N
<1>1. CASE intr >= deal
  BY <1>1, RingSize, ModSame DEF Occupancy
<1>2. CASE intr < deal
  BY <1>2, RingSize, ModUnder DEF Occupancy
<1> QED BY <1>1, <1>2

(* The inductive invariant.  RingHoldsAll alone is not inductive: a handler *)
(* must not be running for an empty ring, and the window must have kept a   *)
(* slot free.                                                               *)
RingInv ==
  /\ TypeOK
  /\ RingHoldsAll
  /\ out <= Window
  /\ pc = "handle" => out >= 1

(* The full test of can.c:126 as it is linked: unless the interrupt's own   *)
(* cursor is at 0 it finds room, also when the next slot is the one the     *)
(* task reads.                                                              *)
THEOREM FullTestBlind == ASSUME TypeOK, intr # 0 PROVE HasRoom
<1>1. intr \in 1..N-1 /\ deal \in 0..N
  BY DEF TypeOK
<1>2. AdvanceIntr(intr) = IF intr = N - 1 THEN 0 ELSE intr + 1
  BY <1>1, RingSize, AdvanceIntrValue
<1>3. N < HalfWord /\ HalfWord \in Nat
  BY RingSize DEF HalfWord
<1>4. HalfWord * intr \in Nat /\ HalfWord * intr >= HalfWord
  BY <1>1, RingSize DEF HalfWord
<1> QED BY <1>1, <1>2, <1>3, <1>4, RingSize DEF HasRoom, DealSeenByIsr

(* So a host that does not wait overruns the ring unseen: the frame that    *)
(* comes when all places are taken is stored, and the ring counts as empty  *)
(* with N frames in it, unless the interrupt's cursor is just at 0.         *)
THEOREM OverrunUnseen ==
  ASSUME TypeOK, RingHoldsAll, out = N - 1, intr # 0, NEW f \in Frames, Receive(f)
  PROVE  out' = N /\ Occupancy' = 0
<1>1. intr \in 0..N-1 /\ deal \in 0..N
  BY DEF TypeOK
<1>2. N - 1 = IF intr >= deal THEN intr - deal ELSE intr - deal + N
  BY <1>1, OccupancyValue DEF RingHoldsAll
<1>3. /\ intr' = (IF intr = N - 1 THEN 0 ELSE intr + 1)
      /\ out' = N /\ deal' = deal
  BY <1>1, FullTestBlind, AdvanceIntrValue, RingSize DEF Receive
<1>4. (intr' - deal') \in {0, -N}
  BY <1>1, <1>2, <1>3, RingSize
<1>5. Occupancy' = 0
  BY <1>4, RingSize, ModSame, ModUnder DEF Occupancy
<1> QED BY <1>3, <1>5

(* Below the window the distorted full test lets the frame in.  Only with   *)
(* the interrupt's cursor at 0 does it compare the cursors at all; elsewhere*)
(* the upper half of the word makes the two sides differ.                   *)
LEMMA RoomBelowWindow ==
  ASSUME Window < N, RingInv, out < Window
  PROVE  HasRoom
<1>1. intr \in 0..N-1 /\ deal \in 0..N /\ out < N - 1
  BY RingSize DEF RingInv, TypeOK
<1>2. out = IF intr >= deal THEN intr - deal ELSE intr - deal + N
  BY <1>1, OccupancyValue DEF RingInv, RingHoldsAll
<1>3. AdvanceIntr(intr) = IF intr = N - 1 THEN 0 ELSE intr + 1
  BY <1>1, AdvanceIntrValue
<1>4. CASE intr = 0
  BY <1>1, <1>2, <1>3, <1>4, RingSize DEF HasRoom, DealSeenByIsr, HalfWord
<1>5. CASE intr >= 1
  BY <1>5, FullTestBlind DEF RingInv
<1> QED BY <1>1, <1>4, <1>5, RingSize

LEMMA RingInvStep ==
  ASSUME Window < N
  PROVE  RingInv /\ [Next]_vars => RingInv'
<1> SUFFICES ASSUME RingInv, [Next]_vars PROVE RingInv'
  OBVIOUS
<1>1. intr \in 0..N-1 /\ deal \in 0..N /\ out \in Nat
  BY DEF RingInv, TypeOK
<1>2. out = IF intr >= deal THEN intr - deal ELSE intr - deal + N
  BY <1>1, OccupancyValue DEF RingInv, RingHoldsAll
<1>3. ASSUME intr' \in 0..N-1, deal' \in 0..N,
             out' = IF intr' >= deal' THEN intr' - deal' ELSE intr' - deal' + N
      PROVE  RingHoldsAll'
  <2>1. Occupancy' = IF intr' >= deal' THEN intr' - deal' ELSE intr' - deal' + N
    <3>1. CASE intr' >= deal'
      BY <1>3, <3>1, RingSize, ModSame DEF Occupancy
    <3>2. CASE intr' < deal'
      BY <1>3, <3>2, RingSize, ModUnder DEF Occupancy
    <3> QED BY <1>3, <3>1, <3>2, RingSize
  <2> QED BY <1>3, <2>1 DEF RingHoldsAll
<1>4. ASSUME NEW f \in Frames, Receive(f) PROVE RingInv'
  <2>1. out < Window /\ UNCHANGED <<deal, pc, cur>>
    BY <1>4 DEF Receive
  <2>2. /\ slots' = [slots EXCEPT ![intr] = f]
        /\ intr' = AdvanceIntr(intr)
        /\ out' = out + 1
    BY <1>4, <2>1, RoomBelowWindow DEF Receive
  <2>3. intr' = IF intr = N - 1 THEN 0 ELSE intr + 1
    BY <1>1, <2>2, AdvanceIntrValue
  <2>4. TypeOK'
    BY <1>1, <2>1, <2>2, <2>3, RingSize DEF RingInv, TypeOK
  <2>5. out < N - 1
    BY <1>1, <2>1, RingSize
  <2>6. out' = IF intr' >= deal' THEN intr' - deal' ELSE intr' - deal' + N
    BY <1>1, <1>2, <2>1, <2>2, <2>3, <2>5, RingSize
  <2>7. RingHoldsAll'
    BY <1>3, <2>4, <2>6 DEF TypeOK
  <2> QED BY <1>1, <2>1, <2>2, <2>4, <2>7, RingSize DEF RingInv
<1>5. CASE Poll
  <2>1. /\ pc = "poll" /\ intr # deal /\ pc' = "handle" /\ cur' = slots[deal]
        /\ UNCHANGED <<slots, intr, deal, out>>
    BY <1>5 DEF Poll
  <2>2. deal < N
    BY <2>1 DEF RingInv, TypeOK
  <2>3. TypeOK'
    BY <1>1, <2>1, <2>2, RingSize DEF RingInv, TypeOK
  <2>4. RingHoldsAll'
    BY <2>1 DEF RingInv, RingHoldsAll, Occupancy
  <2>5. out >= 1
    BY <1>1, <1>2, <2>1, <2>2, RingSize
  <2> QED BY <2>1, <2>3, <2>4, <2>5 DEF RingInv
<1>6. CASE Handled
  <2>1. /\ pc = "handle" /\ deal' = deal + 1 /\ cur' = NoFrame /\ pc' = "wrap"
        /\ out' = out - 1 /\ UNCHANGED <<slots, intr>>
    BY <1>6 DEF Handled
  <2>2. deal < N /\ out >= 1
    BY <2>1 DEF RingInv, TypeOK
  <2>3. TypeOK'
    BY <1>1, <2>1, <2>2, RingSize DEF RingInv, TypeOK
  <2>4. out' = IF intr' >= deal' THEN intr' - deal' ELSE intr' - deal' + N
    BY <1>1, <1>2, <2>1, <2>2, RingSize
  <2>5. RingHoldsAll'
    BY <1>3, <2>3, <2>4 DEF TypeOK
  <2> QED BY <1>1, <2>1, <2>2, <2>3, <2>5, RingSize DEF RingInv
<1>7. CASE Wrap
  <2>1. /\ pc = "wrap" /\ deal' = deal % N /\ pc' = "poll"
        /\ UNCHANGED <<slots, intr, cur, out>>
    BY <1>7 DEF Wrap
  <2>2. deal' = IF deal = N THEN 0 ELSE deal
    <3>1. CASE deal = N BY <2>1, <3>1, RingSize, ModOver
    <3>2. CASE deal # N BY <1>1, <2>1, <3>2, RingSize, ModSame
    <3> QED BY <3>1, <3>2
  <2>3. TypeOK'
    BY <1>1, <2>1, <2>2, RingSize DEF RingInv, TypeOK
  <2>4. out' = IF intr' >= deal' THEN intr' - deal' ELSE intr' - deal' + N
    BY <1>1, <1>2, <2>1, <2>2, RingSize
  <2>5. RingHoldsAll'
    BY <1>3, <2>3, <2>4 DEF TypeOK
  <2> QED BY <2>1, <2>3, <2>5 DEF RingInv
<1>8. CASE UNCHANGED vars
  BY <1>8 DEF vars, RingInv, TypeOK, RingHoldsAll, Occupancy
<1> QED BY <1>4, <1>5, <1>6, <1>7, <1>8 DEF Next, CanDataDealTask

LEMMA RingInvInit == Init => RingInv
<1> SUFFICES ASSUME Init PROVE RingInv
  OBVIOUS
<1>1. TypeOK
  BY RingSize DEF Init, TypeOK
<1>2. Occupancy = 0
  BY <1>1, RingSize, OccupancyValue DEF Init, TypeOK
<1> QED BY <1>1, <1>2, RingSize DEF Init, RingInv, RingHoldsAll

(* For any host.  An overrun makes the ring look empty with N frames out;  *)
(* a handler that runs on meanwhile still has one of them to account for.  *)
FloodInv ==
  /\ TypeOK
  /\ out >= Occupancy
  /\ pc = "handle" /\ Occupancy = 0 => out >= N

LEMMA FloodInvStep == FloodInv /\ [Next]_vars => FloodInv'
<1> SUFFICES ASSUME FloodInv, [Next]_vars PROVE FloodInv'
  OBVIOUS
<1> DEFINE Occ(i, d) == IF i >= d THEN i - d ELSE i - d + N
<1>1. intr \in 0..N-1 /\ deal \in 0..N /\ out \in Nat
  BY DEF FloodInv, TypeOK
<1>2. Occupancy = Occ(intr, deal)
  BY <1>1, OccupancyValue
<1>3. ASSUME TypeOK', out' >= Occ(intr', deal'),
             pc' = "handle" /\ Occ(intr', deal') = 0 => out' >= N
      PROVE  FloodInv'
  <2>1. intr' \in 0..N-1 /\ deal' \in 0..N
    BY <1>3 DEF TypeOK
  <2>2. Occupancy' = Occ(intr', deal')
    <3>1. CASE intr' >= deal'
      BY <2>1, <3>1, RingSize, ModSame DEF Occupancy
    <3>2. CASE intr' < deal'
      BY <2>1, <3>2, RingSize, ModUnder DEF Occupancy
    <3> QED BY <2>1, <3>1, <3>2, RingSize
  <2> HIDE DEF Occ
  <2> QED BY <1>3, <2>2 DEF FloodInv
<1>4. ASSUME NEW f \in Frames, Receive(f) PROVE FloodInv'
  <2>1. CASE HasRoom
    <3>1. /\ slots' = [slots EXCEPT ![intr] = f] /\ intr' = AdvanceIntr(intr)
          /\ out' = out + 1 /\ UNCHANGED <<deal, pc, cur>>
      BY <1>4, <2>1 DEF Receive
    <3>2. intr' = IF intr = N - 1 THEN 0 ELSE intr + 1
      BY <1>1, <3>1, AdvanceIntrValue
    <3>3. TypeOK'
      BY <1>1, <3>1, <3>2, RingSize DEF FloodInv, TypeOK
    <3>4. out' >= Occ(intr', deal') /\ (Occ(intr', deal') = 0 => out' >= N)
      BY <1>1, <1>2, <3>1, <3>2, RingSize DEF FloodInv
    <3> QED BY <1>3, <3>3, <3>4
  <2>2. CASE ~HasRoom
    BY <1>4, <2>2 DEF Receive, FloodInv, TypeOK, Occupancy
  <2> QED BY <2>1, <2>2
<1>5. CASE Poll
  <2>1. /\ pc = "poll" /\ intr # deal /\ pc' = "handle" /\ cur' = slots[deal]
        /\ UNCHANGED <<slots, intr, deal, out>>
    BY <1>5 DEF Poll
  <2>2. deal < N
    BY <2>1 DEF FloodInv, TypeOK
  <2>3. TypeOK'
    BY <1>1, <2>1, <2>2, RingSize DEF FloodInv, TypeOK
  <2>4. Occ(intr, deal) >= 1
    BY <1>1, <2>1, <2>2, RingSize
  <2> QED BY <1>2, <1>3, <2>1, <2>3, <2>4 DEF FloodInv
<1>6. CASE Handled
  <2>1. /\ pc = "handle" /\ deal' = deal + 1 /\ cur' = NoFrame /\ pc' = "wrap"
        /\ out' = out - 1 /\ UNCHANGED <<slots, intr>>
    BY <1>6 DEF Handled
  <2>2. deal < N /\ out >= 1
    BY <1>1, <1>2, <2>1, RingSize DEF FloodInv, TypeOK
  <2>3. TypeOK'
    BY <1>1, <2>1, <2>2, RingSize DEF FloodInv, TypeOK
  <2>4. out' >= Occ(intr', deal')
    BY <1>1, <1>2, <2>1, <2>2, RingSize DEF FloodInv
  <2> QED BY <1>3, <2>1, <2>3, <2>4
<1>7. CASE Wrap
  <2>1. /\ pc = "wrap" /\ deal' = deal % N /\ pc' = "poll"
        /\ UNCHANGED <<slots, intr, cur, out>>
    BY <1>7 DEF Wrap
  <2>2. deal' = IF deal = N THEN 0 ELSE deal
    <3>1. CASE deal = N BY <2>1, <3>1, RingSize, ModOver
    <3>2. CASE deal # N BY <1>1, <2>1, <3>2, RingSize, ModSame
    <3> QED BY <3>1, <3>2
  <2>3. TypeOK'
    BY <1>1, <2>1, <2>2, RingSize DEF FloodInv, TypeOK
  <2>4. out' >= Occ(intr', deal')
    BY <1>1, <1>2, <2>1, <2>2, RingSize DEF FloodInv
  <2> QED BY <1>3, <2>1, <2>3, <2>4
<1>8. CASE UNCHANGED vars
  BY <1>8 DEF vars, FloodInv, TypeOK, Occupancy
<1> QED BY <1>4, <1>5, <1>6, <1>7, <1>8 DEF Next, CanDataDealTask

(* Whatever the host sends, and however the ring overruns, neither cursor   *)
(* leaves the buffer.                                                       *)
THEOREM RingTypeCorrect == Spec => []TypeOK
<1>1. Init => FloodInv
  BY RingInvInit DEF Init, RingInv, RingHoldsAll, FloodInv
<1>2. FloodInv => TypeOK
  BY DEF FloodInv
<1> QED BY <1>1, <1>2, FloodInvStep, PTL DEF Spec

(* The interrupt never refuses a frame of a host within its window.         *)
THEOREM RoomCorrect == ASSUME Window < N PROVE Spec => []RoomWithinWindow
<1>1. RingInv => RoomWithinWindow
  BY RoomBelowWindow DEF RoomWithinWindow
<1> QED BY <1>1, RingInvInit, RingInvStep, PTL DEF Spec

-----------------------------------------------------------------------------
(* The slot of the i-th frame behind cursor d, and the n frames there.      *)
Cell(d, i)      == (d + i - 1) % N
Queue(sl, d, n) == [i \in 1..n |-> sl[Cell(d, i)]]

Content == Frames \cup {NoFrame}

LEMMA CellValue ==
  ASSUME NEW d \in 0..N, NEW i \in 1..N-1
  PROVE  /\ Cell(d, i) = IF d + i - 1 < N THEN d + i - 1 ELSE d + i - 1 - N
         /\ Cell(d, i) \in 0..N-1
<1>1. CASE d + i - 1 < N
  BY <1>1, RingSize, ModSame DEF Cell
<1>2. CASE d + i - 1 >= N
  BY <1>2, RingSize, ModOver DEF Cell
<1> QED BY <1>1, <1>2, RingSize

LEMMA QueueSeq ==
  ASSUME NEW sl \in [0..N-1 -> Content], NEW d \in 0..N, NEW n \in 0..N-1
  PROVE  /\ Queue(sl, d, n) \in Seq(Content)
         /\ Len(Queue(sl, d, n)) = n
         /\ \A i \in 1..n : Queue(sl, d, n)[i] = sl[Cell(d, i)]
<1>1. \A i \in 1..n : sl[Cell(d, i)] \in Content
  BY CellValue, RingSize
<1> QED BY <1>1, RingSize DEF Queue

(* Storing a frame in the slot behind the last one appends it.              *)
LEMMA QueueAppend ==
  ASSUME NEW sl \in [0..N-1 -> Content], NEW d \in 0..N, NEW n \in 0..N-2,
         NEW f \in Content
  PROVE  Queue([sl EXCEPT ![Cell(d, n + 1)] = f], d, n + 1) = Append(Queue(sl, d, n), f)
<1> DEFINE k  == Cell(d, n + 1)
           sm == [sl EXCEPT ![k] = f]
           s  == Queue(sl, d, n)
           t  == Queue(sm, d, n + 1)
<1>0. n + 1 \in 1..N-1 /\ n + 1 \in 0..N-1 /\ n \in 0..N-1
  BY RingSize
<1>1. k \in 0..N-1
  BY <1>0, CellValue
<1>2. \A i \in 1..n : Cell(d, i) # k /\ Cell(d, i) \in 0..N-1
  <2> SUFFICES ASSUME NEW i \in 1..n
               PROVE  Cell(d, i) # k /\ Cell(d, i) \in 0..N-1
    OBVIOUS
  <2>1. i \in 1..N-1 BY RingSize
  <2>2. /\ Cell(d, i) = IF d + i - 1 < N THEN d + i - 1 ELSE d + i - 1 - N
        /\ Cell(d, i) \in 0..N-1
    BY <2>1, CellValue
  <2>3. k = IF d + (n + 1) - 1 < N THEN d + (n + 1) - 1 ELSE d + (n + 1) - 1 - N
    BY <1>0, CellValue
  <2> HIDE DEF k
  <2> QED BY <2>1, <2>2, <2>3, RingSize
<1> HIDE DEF k
<1>3. sm \in [0..N-1 -> Content] /\ sm[k] = f
  BY <1>1
<1>4. \A i \in 1..n : sm[Cell(d, i)] = sl[Cell(d, i)]
  BY <1>2
<1> HIDE DEF sm
<1>5. /\ s \in Seq(Content) /\ Len(s) = n
      /\ \A i \in 1..n : s[i] = sl[Cell(d, i)]
  BY <1>0, QueueSeq
<1>6. /\ t \in Seq(Content) /\ Len(t) = n + 1
      /\ \A i \in 1..n+1 : t[i] = sm[Cell(d, i)]
  BY <1>0, <1>3, QueueSeq
<1>7. \A i \in 1..n : t[i] = s[i]
  BY <1>4, <1>5, <1>6
<1>8. t[n + 1] = f
  BY <1>3, <1>6 DEF k
<1> HIDE DEF s, t
<1>9. t = Append(s, f)
  BY <1>5, <1>6, <1>7, <1>8
<1> QED BY <1>9 DEF s, t, sm, k

(* Moving the cursor over the oldest frame removes it.                      *)
LEMMA QueueTail ==
  ASSUME NEW sl \in [0..N-1 -> Content], NEW d \in 0..N-1, NEW n \in 1..N-1
  PROVE  Queue(sl, d + 1, n - 1) = Tail(Queue(sl, d, n))
<1> DEFINE s == Queue(sl, d, n)
           t == Queue(sl, d + 1, n - 1)
<1>0. d \in 0..N /\ d + 1 \in 0..N /\ n \in 0..N-1 /\ n - 1 \in 0..N-1
  BY RingSize
<1>1. /\ s \in Seq(Content) /\ Len(s) = n
      /\ \A i \in 1..n : s[i] = sl[Cell(d, i)]
  BY <1>0, QueueSeq
<1>2. /\ t \in Seq(Content) /\ Len(t) = n - 1
      /\ \A i \in 1..n-1 : t[i] = sl[Cell(d + 1, i)]
  BY <1>0, QueueSeq
<1>3. \A i \in 1..n-1 : Cell(d + 1, i) = Cell(d, i + 1)
  <2> SUFFICES ASSUME NEW i \in 1..n-1 PROVE Cell(d + 1, i) = Cell(d, i + 1)
    OBVIOUS
  <2>1. d + 1 + i - 1 = d + (i + 1) - 1
    BY <1>0, RingSize
  <2> QED BY <2>1 DEF Cell
<1>4. \A i \in 1..n-1 : t[i] = s[i + 1]
  BY <1>1, <1>2, <1>3, SMTT(20)
<1> HIDE DEF s, t
<1>5. t = Tail(s)
  BY <1>1, <1>2, <1>4
<1> QED BY <1>5 DEF s, t

(* Reducing the cursor changes no slot number.                              *)
LEMMA QueueWrap ==
  ASSUME NEW sl, NEW n \in 0..N-1
  PROVE  Queue(sl, N, n) = Queue(sl, 0, n)
<1>1. \A i \in 1..n : Cell(N, i) = Cell(0, i)
  BY CellValue, RingSize
<1> QED BY <1>1 DEF Queue

(* What the refinement needs beside RingInv: a handler runs exactly when    *)
(* the copy holds a frame, and the slots between the cursors hold frames.   *)
QueueInv ==
  /\ RingInv
  /\ pc = "handle" <=> cur # NoFrame
  /\ \A i \in 1..out : slots[Cell(deal, i)] \in Frames

LEMMA RingQueueIs ==
  ASSUME RingInv, Window < N
  PROVE  RingQueue = Queue(slots, deal, out) /\ out \in 0..N-1
         /\ slots \in [0..N-1 -> Content] /\ deal \in 0..N
  BY RingSize DEF RingInv, RingHoldsAll, TypeOK, RingQueue, Queue, Cell, Content

(* The interrupt's cursor is the slot behind the last frame.                *)
LEMMA IntrIsNext ==
  ASSUME RingInv, out < N - 1
  PROVE  intr = Cell(deal, out + 1)
<1>1. intr \in 0..N-1 /\ deal \in 0..N /\ out \in Nat
  BY DEF RingInv, TypeOK
<1>2. out = IF intr >= deal THEN intr - deal ELSE intr - deal + N
  BY <1>1, OccupancyValue DEF RingInv, RingHoldsAll
<1>3. out + 1 \in 1..N-1
  BY <1>1, RingSize
<1>4. Cell(deal, out + 1) = IF deal + (out + 1) - 1 < N THEN deal + (out + 1) - 1
                            ELSE deal + (out + 1) - 1 - N
  BY <1>1, <1>3, CellValue
<1> QED BY <1>1, <1>2, <1>4, RingSize

(* One step of the ring is a step of the queue, or changes nothing there,   *)
(* and keeps QueueInv.                                                      *)
LEMMA QueueStep ==
  ASSUME Window < N
  PROVE  QueueInv /\ [Next]_vars =>
           QueueInv' /\ [Abstract!Next]_<<RingQueue, cur>>
<1> SUFFICES ASSUME QueueInv, [Next]_vars
             PROVE  QueueInv' /\ [Abstract!Next]_<<RingQueue, cur>>
  OBVIOUS
<1>1. RingInv /\ RingInv'
  BY RingInvStep DEF QueueInv
<1>2. /\ RingQueue = Queue(slots, deal, out) /\ out \in 0..N-1
      /\ slots \in [0..N-1 -> Content] /\ deal \in 0..N
  BY <1>1, RingQueueIs
<1>3. /\ RingQueue' = Queue(slots', deal', out') /\ out' \in 0..N-1
      /\ slots' \in [0..N-1 -> Content] /\ deal' \in 0..N
  BY <1>1, RingSize
     DEF RingInv, RingHoldsAll, TypeOK, RingQueue, Queue, Cell, Content
<1>4. /\ RingQueue \in Seq(Content) /\ Len(RingQueue) = out
      /\ \A i \in 1..out : RingQueue[i] = slots[Cell(deal, i)]
  BY <1>2, QueueSeq
<1>5. ASSUME NEW f \in Frames, Receive(f)
      PROVE  QueueInv' /\ [Abstract!Next]_<<RingQueue, cur>>
  <2>1. out < Window /\ UNCHANGED <<deal, pc, cur>>
    BY <1>5 DEF Receive
  <2>2. out < N - 1
    BY <1>2, <2>1, RingSize
  <2>3. /\ slots' = [slots EXCEPT ![Cell(deal, out + 1)] = f]
        /\ out' = out + 1
    BY <1>1, <1>5, <2>1, <2>2, RoomBelowWindow, IntrIsNext DEF Receive
  <2>4. f \in Content /\ out \in 0..N-2
    BY <1>2, <2>2, RingSize DEF Content
  <2>5. RingQueue' = Append(RingQueue, f)
    <3>1. Queue([slots EXCEPT ![Cell(deal, out + 1)] = f], deal, out + 1)
            = Append(Queue(slots, deal, out), f)
      BY <1>2, <2>4, QueueAppend, Zenon
    <3>2. RingQueue' = Queue([slots EXCEPT ![Cell(deal, out + 1)] = f], deal, out + 1)
      BY <1>3, <2>1, <2>3, Zenon
    <3> QED BY <1>2, <3>1, <3>2
  <2>6. Abstract!Arrive(f)
    BY <1>2, <1>4, <2>1, <2>2, <2>5 DEF Abstract!Arrive
  <2>7. \A i \in 1..out' : slots'[Cell(deal', i)] \in Frames
    <3>1. \A i \in 1..out' : RingQueue'[i] = slots'[Cell(deal', i)]
      BY <1>3, QueueSeq
    <3>2. \A i \in 1..out : RingQueue'[i] = RingQueue[i]
      BY <1>4, <2>4, <2>5
    <3>3. RingQueue'[out + 1] = f
      BY <1>4, <2>4, <2>5
    <3> QED BY <1>2, <1>4, <2>3, <3>1, <3>2, <3>3 DEF QueueInv
  <2> QED BY <1>1, <2>1, <2>6, <2>7 DEF QueueInv, Abstract!Next
<1>6. CASE Poll
  <2>1. /\ pc = "poll" /\ pc' = "handle" /\ cur' = slots[deal]
        /\ UNCHANGED <<slots, intr, deal, out>>
    BY <1>6 DEF Poll
  <2>2. out >= 1 /\ deal < N
    BY <1>1, <2>1 DEF RingInv, TypeOK
  <2>3. Cell(deal, 1) = deal
    BY <1>2, <2>2, RingSize, ModSame DEF Cell
  <2>4. cur' = RingQueue[1] /\ cur' \in Frames
    BY <1>2, <1>4, <2>1, <2>2, <2>3 DEF QueueInv
  <2>5. RingQueue # <<>> /\ cur' = Head(RingQueue)
    BY <1>2, <1>4, <2>2, <2>4
  <2>6. cur = NoFrame /\ cur' # NoFrame
    BY <2>1, <2>4, RingAssumption DEF QueueInv
  <2>7. RingQueue' = RingQueue
    BY <1>2, <1>3, <2>1
  <2>8. Abstract!Begin
    BY <2>5, <2>6, <2>7 DEF Abstract!Begin
  <2> QED BY <1>1, <2>1, <2>6, <2>8 DEF QueueInv, Abstract!Next
<1>7. CASE Handled
  <2>1. /\ pc = "handle" /\ deal' = deal + 1 /\ cur' = NoFrame /\ pc' = "wrap"
        /\ out' = out - 1 /\ UNCHANGED <<slots, intr>>
    BY <1>7 DEF Handled
  <2>2. deal \in 0..N-1 /\ out \in 1..N-1
    BY <1>1, <1>2, <2>1, RingSize DEF RingInv, TypeOK
  <2>3. RingQueue' = Tail(RingQueue)
    BY <1>2, <1>3, <2>1, <2>2, QueueTail
  <2>4. Abstract!Finish
    BY <2>1, <2>3 DEF Abstract!Finish, QueueInv
  <2>5. \A i \in 1..out' : slots'[Cell(deal', i)] \in Frames
    <3> SUFFICES ASSUME NEW i \in 1..out-1 PROVE slots[Cell(deal + 1, i)] \in Frames
      BY <2>1
    <3>1. i + 1 \in 1..out
      BY <2>2
    <3>2. deal + 1 + i - 1 = deal + (i + 1) - 1
      BY <2>2
    <3>3. Cell(deal + 1, i) = Cell(deal, i + 1)
      BY <3>2 DEF Cell
    <3> QED BY <3>1, <3>3 DEF QueueInv
  <2> QED BY <1>1, <2>1, <2>4, <2>5 DEF QueueInv, Abstract!Next
<1>8. CASE Wrap
  <2>1. /\ pc = "wrap" /\ deal' = deal % N /\ pc' = "poll"
        /\ UNCHANGED <<slots, intr, cur, out>>
    BY <1>8 DEF Wrap
  <2>2. deal' = IF deal = N THEN 0 ELSE deal
    <3>1. CASE deal = N BY <2>1, <3>1, RingSize, ModOver
    <3>2. CASE deal # N BY <1>2, <2>1, <3>2, RingSize, ModSame
    <3> QED BY <3>1, <3>2
  <2>3. RingQueue' = RingQueue
    BY <1>2, <1>3, <2>1, <2>2, QueueWrap
  <2>4. \A i \in 1..out' : slots'[Cell(deal', i)] \in Frames
    <3>1. \A i \in 1..out' : RingQueue'[i] = slots'[Cell(deal', i)]
      BY <1>3, QueueSeq
    <3> QED BY <1>4, <2>1, <2>3, <3>1 DEF QueueInv
  <2> QED BY <1>1, <2>1, <2>3, <2>4 DEF QueueInv
<1>9. CASE UNCHANGED vars
  <2>1. RingQueue' = RingQueue
    BY <1>2, <1>3, <1>9 DEF vars
  <2> QED BY <1>1, <1>9, <2>1 DEF vars, QueueInv
<1> QED BY <1>5, <1>6, <1>7, <1>8, <1>9 DEF Next, CanDataDealTask

LEMMA QueueInit == ASSUME Window < N PROVE Init => QueueInv /\ Abstract!Init
<1> SUFFICES ASSUME Init PROVE QueueInv /\ Abstract!Init
  OBVIOUS
<1>1. RingInv
  BY RingInvInit
<1>2. RingQueue \in Seq(Content) /\ Len(RingQueue) = 0
  BY <1>1, RingQueueIs, QueueSeq DEF Init
<1>3. RingQueue = <<>>
  BY <1>2
<1> QED BY <1>1, <1>3 DEF Init, QueueInv, Abstract!Init

(* The receive interrupt and the polling task together implement a FIFO     *)
(* queue of N - 1 frames, for every ring size and frame set, as long as the *)
(* host keeps fewer than N frames unanswered.                               *)
THEOREM RingImplementsQueue == ASSUME Window < N PROVE Spec => RingIsQueue
<1> QED BY QueueInit, QueueStep, PTL DEF Spec, RingIsQueue, Abstract!Spec
=============================================================================
