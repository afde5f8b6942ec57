------------------------------ MODULE PicProofs -----------------------------
(***************************************************************************)
(* Theorems about the interrupt controllers for any number of pins, any    *)
(* devices and any commands of the guest.                                  *)
(***************************************************************************)
EXTENDS Pic, WellFoundedInduction, TLAPS

-----------------------------------------------------------------------------
(* Choosing the pin of the highest priority.                               *)

\* A nonempty set of naturals has a least element.
LEMMA NaturalsHaveMinimum ==
  ASSUME NEW T, T \subseteq Nat, T # {}
  PROVE  \E x \in T : \A y \in T : x <= y
<1> DEFINE Less == {ss \in Nat \X Nat : ss[1] < ss[2]}
<1>1. OpToRel(<, Nat) = Less
  BY Zenon DEF OpToRel
<1>2. IsWellFoundedOn(Less, Nat)
  BY <1>1, NatLessThanWellFounded
<1>3. PICK x \in T : \A y \in T : <<y, x>> \notin Less
  BY <1>2, WFMin
<1>4. ASSUME NEW y \in T
      PROVE  x <= y
  <2>1. x \in Nat /\ y \in Nat
    OBVIOUS
  <2>2. y < x => <<y, x>> \in Less
    BY <2>1
  <2>3. ~(y < x)
    BY <1>3, <2>2, Zenon
  <2> QED  BY <2>1, <2>3, SMT
<1> QED  BY <1>4

\* The place of a pin in the order is a natural.
LEMMA RankType ==
  ASSUME NEW p \in ChipType, NEW i \in Pin
  PROVE  Rank(p, i) \in Nat
<1>1. p.lowest_priority \in Pin
  BY Zenon DEF ChipType
<1> QED  BY <1>1, ConstantsAssumption, SMT DEF Rank, Pin

\* The pin of the highest priority of a set is one of the set.
LEMMA FirstOfBelongs ==
  ASSUME NEW p \in ChipType, NEW S, S \subseteq Pin, S # {}
  PROVE  FirstOf(p, S) \in S
<1> DEFINE R == {Rank(p, i) : i \in S}
<1>1. R \subseteq Nat /\ R # {}
  BY RankType
<1>2. PICK n \in R : \A m \in R : n <= m
  BY <1>1, NaturalsHaveMinimum
<1>3. PICK i \in S : Rank(p, i) = n
  BY <1>2
<1>4. \A j \in S : Rank(p, i) <= Rank(p, j)
  BY <1>2, <1>3
<1> QED  BY <1>4, Zenon DEF FirstOf

\* What a chip may signal is requested and is not in service.
LEMMA EligibleOutOfService ==
  ASSUME NEW p \in ChipType, NEW i \in Eligible(p)
  PROVE  i \in p.irr /\ i \in Pin /\ i \notin p.isr
<1>1. i \in p.irr /\ i \in Pin
  BY Zenon DEF Eligible, ChipType
<1>2. CASE p.special_mask
  BY <1>1, <1>2, Zenon DEF Eligible
<1>3. CASE ~p.special_mask
  <2>1. \A j \in p.isr : Rank(p, i) < Rank(p, j)
    BY <1>3, Zenon DEF Eligible
  <2>2. ~(Rank(p, i) < Rank(p, i))
    BY <1>1, RankType, SMT
  <2> QED  BY <1>1, <2>1, <2>2, Zenon
<1> QED  BY <1>2, <1>3

-----------------------------------------------------------------------------
(* What the operations of a chip keep.                                     *)

\* A chip whose requests have lines and whose choice is not in service.
Sound(p) ==
  /\ p \in ChipType
  /\ p.irr \subseteq p.line
  /\ p.INT => p.irq \notin p.isr

\* A service keeps a chip sound, and changes only its signal and its choice.
LEMMA ServiceSound ==
  ASSUME NEW p, Sound(p)
  PROVE  /\ Sound(Service(p))
         /\ Service(p).INT \in BOOLEAN
         /\ p.INT => Service(p) = p
         /\ Service(p).line = p.line
         /\ Service(p).irr = p.irr
         /\ Service(p).elcr = p.elcr
         /\ Service(p).isr = p.isr
<1> USE DEF Sound
<1>1. CASE p.INT \/ Eligible(p) = {}
  BY <1>1, Zenon DEF Service, ChipType
<1>2. CASE ~(p.INT \/ Eligible(p) = {})
  <2> DEFINE i == FirstOf(p, Eligible(p))
             q == [p EXCEPT !.INT = TRUE, !.irq = i]
  <2>1. Service(p) = q
    BY <1>2, Zenon DEF Service
  <2>2. Eligible(p) \subseteq Pin
    BY EligibleOutOfService
  <2>3. i \in Eligible(p)
    BY <1>2, <2>2, FirstOfBelongs
  <2>4. i \in Pin /\ i \notin p.isr
    BY <2>3, EligibleOutOfService
  <2> HIDE DEF i
  <2>5. /\ q \in ChipType
        /\ q.INT = TRUE /\ q.irq = i /\ q.line = p.line /\ q.irr = p.irr
        /\ q.isr = p.isr /\ q.elcr = p.elcr
    BY <2>4, Zenon DEF ChipType
  <2> QED  BY <1>2, <2>1, <2>4, <2>5, Zenon
<1> QED  BY <1>1, <1>2

\* A request and its line come together.
LEMMA RequestedSound ==
  ASSUME NEW p, Sound(p), NEW i \in Pin
  PROVE  /\ Sound(Requested(p, i))
         /\ Requested(p, i).INT = p.INT
         /\ Requested(p, i).elcr = p.elcr
         /\ Requested(p, i).line = p.line \cup {i}
         /\ Requested(p, i).irr = p.irr \cup {i}
<1>1. p.line \cup {i} \in SUBSET Pin /\ p.irr \cup {i} \in SUBSET Pin
  BY Zenon DEF Sound, ChipType
<1>2. /\ Requested(p, i) \in ChipType
      /\ Requested(p, i).INT = p.INT
      /\ Requested(p, i).irq = p.irq
      /\ Requested(p, i).isr = p.isr
      /\ Requested(p, i).elcr = p.elcr
      /\ Requested(p, i).line = p.line \cup {i}
      /\ Requested(p, i).irr = p.irr \cup {i}
  BY <1>1, Zenon DEF Sound, ChipType, Requested
<1> QED  BY <1>2, Zenon DEF Sound

\* A line that goes up keeps the chip sound and never ends a signal.
LEMMA RaisedSound ==
  ASSUME NEW p, Sound(p), NEW i \in Pin
  PROVE  /\ Sound(Raised(p, i))
         /\ p.INT => Raised(p, i).INT
         /\ Raised(p, i).elcr = p.elcr
         /\ i \notin p.line => /\ Raised(p, i).line = p.line \cup {i}
                               /\ Raised(p, i).irr = p.irr \cup {i}
         /\ i \in p.line => Raised(p, i) = p
<1>1. CASE i \in p.line
  BY <1>1, Zenon DEF Raised
<1>2. CASE i \notin p.line
  <2>1. Raised(p, i) = Service(Requested(p, i))
    BY <1>2, Zenon DEF Raised
  <2>2. /\ Sound(Requested(p, i))
        /\ Requested(p, i).INT = p.INT
        /\ Requested(p, i).elcr = p.elcr
        /\ Requested(p, i).line = p.line \cup {i}
        /\ Requested(p, i).irr = p.irr \cup {i}
    BY RequestedSound, Zenon
  <2>3. /\ Sound(Service(Requested(p, i)))
        /\ Service(Requested(p, i)).line = Requested(p, i).line
        /\ Service(Requested(p, i)).irr = Requested(p, i).irr
        /\ Service(Requested(p, i)).elcr = Requested(p, i).elcr
        /\ Requested(p, i).INT => Service(Requested(p, i)) = Requested(p, i)
    BY <2>2, ServiceSound, Zenon
  <2> QED  BY <1>2, <2>1, <2>2, <2>3, Zenon
<1> QED  BY <1>1, <1>2

\* A line that goes down takes its request, and the signal with the last one.
LEMMA LoweredSound ==
  ASSUME NEW p, Sound(p), NEW i \in Pin
  PROVE  /\ Sound(Lowered(p, i))
         /\ Lowered(p, i).elcr = p.elcr
         /\ i \notin p.line => Lowered(p, i) = p
         /\ i \in p.line => /\ Lowered(p, i).line = p.line \ {i}
                            /\ Lowered(p, i).irr = p.irr \ {i}
                            /\ Lowered(p, i).INT = (p.INT /\ (p.irr \ {i}) \ p.imr # {})
                            /\ Lowered(p, i).imr = p.imr
<1>1. CASE i \notin p.line
  BY <1>1, Zenon DEF Lowered
<1>2. CASE i \in p.line
  <2> DEFINE q == [p EXCEPT !.line = @ \ {i}, !.irr = @ \ {i}]
             on == p.INT /\ q.irr \ q.imr # {}
             r == [q EXCEPT !.INT = on]
  <2>1. Lowered(p, i) = r
    BY <1>2, Zenon DEF Lowered
  <2>2. /\ q \in ChipType
        /\ q.INT = p.INT /\ q.irq = p.irq /\ q.isr = p.isr /\ q.elcr = p.elcr
        /\ q.line = p.line \ {i} /\ q.irr = p.irr \ {i} /\ q.imr = p.imr
    <3>1. p.line \ {i} \in SUBSET Pin /\ p.irr \ {i} \in SUBSET Pin
      BY Zenon DEF Sound, ChipType
    <3> QED  BY <3>1, Zenon DEF Sound, ChipType
  <2>3. on \in BOOLEAN /\ (on => p.INT) /\ on = (p.INT /\ (p.irr \ {i}) \ p.imr # {})
    BY <2>2, Zenon DEF Sound, ChipType
  <2> HIDE DEF q, on
  <2>4. /\ r \in ChipType
        /\ r.INT = on /\ r.irq = q.irq /\ r.isr = q.isr /\ r.elcr = q.elcr
        /\ r.line = q.line /\ r.irr = q.irr /\ r.imr = q.imr
    BY <2>2, <2>3, Zenon DEF ChipType
  <2> HIDE DEF r
  <2>5. Sound(r)
    <3>1. p.irr \subseteq p.line /\ (p.INT => p.irq \notin p.isr)
      BY Zenon DEF Sound
    <3>2. r.irr \subseteq r.line
      BY <3>1, <2>2, <2>4, Zenon
    <3>3. r.INT => r.irq \notin r.isr
      BY <3>1, <2>2, <2>3, <2>4, Zenon
    <3> QED  BY <2>4, <3>2, <3>3, Zenon DEF Sound
  <2>6. /\ r.elcr = p.elcr
        /\ r.line = p.line \ {i}
        /\ r.irr = p.irr \ {i}
        /\ r.INT = (p.INT /\ (p.irr \ {i}) \ p.imr # {})
        /\ r.imr = p.imr
    BY <2>2, <2>3, <2>4, Zenon
  <2> QED  BY <1>2, <2>1, <2>5, <2>6, Zenon
<1> QED  BY <1>1, <1>2

\* An acknowledge ends the signal and puts the choice in service.
LEMMA AcknowledgedSound ==
  ASSUME NEW p, Sound(p)
  PROVE  /\ Sound(Acknowledged(p))
         /\ Acknowledged(p).INT = FALSE
         /\ Acknowledged(p).line = p.line
         /\ Acknowledged(p).elcr = p.elcr
         /\ Acknowledged(p).irr = IF p.irq \in p.elcr THEN p.irr ELSE p.irr \ {p.irq}
<1> DEFINE requests == IF p.irq \in p.elcr THEN p.irr ELSE p.irr \ {p.irq}
           services == IF p.auto_eoi THEN p.isr ELSE p.isr \cup {p.irq}
           lowest == IF p.auto_eoi /\ p.rotate_on_autoeoi THEN p.irq ELSE p.lowest_priority
           q == [p EXCEPT !.INT = FALSE, !.irr = requests, !.isr = services,
                          !.lowest_priority = lowest]
<1>1. Acknowledged(p) = q
  BY Zenon DEF Acknowledged
<1>2. /\ requests \in SUBSET Pin /\ requests \subseteq p.line
      /\ services \in SUBSET Pin
      /\ lowest \in Pin
  BY Zenon DEF Sound, ChipType
<1>3. requests = IF p.irq \in p.elcr THEN p.irr ELSE p.irr \ {p.irq}
  OBVIOUS
<1> HIDE DEF requests, services, lowest
<1>4. /\ q \in ChipType
      /\ q.INT = FALSE /\ q.line = p.line /\ q.irr = requests /\ q.elcr = p.elcr
  BY <1>2, Zenon DEF Sound, ChipType
<1> HIDE DEF q
<1> QED  BY <1>1, <1>2, <1>3, <1>4, Zenon DEF Sound

\* An end of interrupt touches nothing but the service register.
LEMMA HighestClearedSound ==
  ASSUME NEW p, Sound(p)
  PROVE  /\ Sound(HighestCleared(p))
         /\ HighestCleared(p).INT = p.INT
         /\ HighestCleared(p).line = p.line
         /\ HighestCleared(p).irr = p.irr
         /\ HighestCleared(p).elcr = p.elcr
<1>1. CASE p.isr = {}
  BY <1>1, Zenon DEF HighestCleared
<1>2. CASE p.isr # {}
  <2> DEFINE S == p.isr \ {FirstOf(p, p.isr)}
             q == [p EXCEPT !.isr = S]
  <2>1. HighestCleared(p) = q
    BY <1>2, Zenon DEF HighestCleared
  <2>2. S \in SUBSET Pin /\ S \subseteq p.isr
    BY Zenon DEF Sound, ChipType
  <2> HIDE DEF S
  <2>3. /\ q \in ChipType
        /\ q.INT = p.INT /\ q.irq = p.irq /\ q.line = p.line /\ q.irr = p.irr
        /\ q.elcr = p.elcr /\ q.isr = S
    BY <2>2, Zenon DEF Sound, ChipType
  <2> HIDE DEF q
  <2>4. Sound(q)
    BY <2>2, <2>3, Zenon DEF Sound
  <2> QED  BY <2>1, <2>3, <2>4, Zenon
<1> QED  BY <1>1, <1>2

-----------------------------------------------------------------------------
(* What the two chips and INTR keep.                                       *)

\* The cascade pin never becomes level triggered, so an acknowledge of the
\* slave takes back its request.
CascadeOnEdge == Cascade \notin pic["master"].elcr

IInv ==
  /\ TypeOK
  /\ \A c \in Chip : Sound(pic[c])
  /\ CascadeOnEdge
  /\ IntrFollowsMaster

\* The function of the two chips.
LEMMA PairOfChips ==
  ASSUME NEW m \in ChipType, NEW s \in ChipType
  PROVE  /\ [master |-> m, slave |-> s] \in [Chip -> ChipType]
         /\ [master |-> m, slave |-> s]["master"] = m
         /\ [master |-> m, slave |-> s]["slave"] = s
BY DEF Chip

\* INTR and both chips after a service of either.
LEMMA BecomeKeepsIInv ==
  ASSUME IInv, NEW new \in [Chip -> ChipType], \A c \in Chip : Sound(new[c]),
         pic["master"].INT => new["master"].INT,
         new["master"].elcr = pic["master"].elcr,
         Become(new)
  PROVE  IInv'
<1>1. pic' = new /\ intr' = (intr \/ (~pic["master"].INT /\ new["master"].INT))
  BY Zenon DEF Become
<1>2. (intr <=> pic["master"].INT) /\ intr \in BOOLEAN /\ new["master"].INT \in BOOLEAN
  BY Zenon DEF IInv, TypeOK, IntrFollowsMaster, Chip, ChipType
<1>3. intr' <=> pic'["master"].INT
  BY <1>1, <1>2, Zenon
<1>4. intr' \in BOOLEAN
  BY <1>1, <1>2, Zenon
<1>5. Cascade \notin pic'["master"].elcr
  BY <1>1, Zenon DEF IInv, CascadeOnEdge
<1> QED  BY <1>1, <1>3, <1>4, <1>5, Zenon
         DEF IInv, TypeOK, IntrFollowsMaster, CascadeOnEdge

\* A service of the slave keeps both chips sound, and the master signalling.
LEMMA SlaveServicedSound ==
  ASSUME NEW m, Sound(m), NEW s, Sound(s)
  PROVE  /\ SlaveServiced(m, s) \in [Chip -> ChipType]
         /\ \A c \in Chip : Sound(SlaveServiced(m, s)[c])
         /\ m.INT => SlaveServiced(m, s)["master"].INT
         /\ SlaveServiced(m, s)["master"].elcr = m.elcr
<1> DEFINE m1 == IF Signals(s) THEN Raised(m, Cascade) ELSE m
           s1 == Service(s)
<1>1. Sound(m1) /\ (m.INT => m1.INT) /\ m1.elcr = m.elcr
  <2>1. Cascade \in Pin
    BY ConstantsAssumption
  <2>2. /\ Sound(Raised(m, Cascade))
        /\ m.INT => Raised(m, Cascade).INT
        /\ Raised(m, Cascade).elcr = m.elcr
    BY <2>1, RaisedSound, Zenon
  <2> QED  BY <2>2, Zenon
<1>2. Sound(s1)
  BY ServiceSound, Zenon
<1>3. m1 \in ChipType /\ s1 \in ChipType
  BY <1>1, <1>2, Zenon DEF Sound
<1>4. SlaveServiced(m, s) = [master |-> m1, slave |-> s1]
  BY Zenon DEF SlaveServiced
<1> HIDE DEF m1, s1
<1>5. /\ [master |-> m1, slave |-> s1] \in [Chip -> ChipType]
      /\ [master |-> m1, slave |-> s1]["master"] = m1
      /\ [master |-> m1, slave |-> s1]["slave"] = s1
  BY <1>3, PairOfChips
<1>6. \A c \in Chip : c = "master" \/ c = "slave"
  BY DEF Chip
<1> QED  BY <1>1, <1>2, <1>4, <1>5, <1>6, Zenon

\* Both chips after one is replaced by a sound one.
LEMMA ChipsSound ==
  ASSUME IInv, NEW c \in Chip, NEW p, Sound(p)
  PROVE  /\ [pic EXCEPT ![c] = p] \in [Chip -> ChipType]
         /\ [pic EXCEPT ![c] = p][c] = p
         /\ \A d \in Chip : Sound([pic EXCEPT ![c] = p][d])
         /\ \A d \in Chip \ {c} : [pic EXCEPT ![c] = p][d] = pic[d]
BY Zenon DEF IInv, TypeOK, Sound

\* Chip c becomes p without a service, and INTR follows the master.
LEMMA UpdateKeepsIInv ==
  ASSUME IInv, NEW c \in Chip, NEW p, Sound(p),
         c = "master" => Cascade \notin p.elcr,
         pic' = [pic EXCEPT ![c] = p],
         \/ p.INT = pic[c].INT /\ intr' = intr
         \/ c = "master" /\ intr' = p.INT
         \/ c = "slave" /\ intr' = intr
  PROVE  IInv'
<1>1. /\ pic' \in [Chip -> ChipType]
      /\ pic'[c] = p
      /\ \A d \in Chip : Sound(pic'[d])
      /\ \A d \in Chip \ {c} : pic'[d] = pic[d]
  BY ChipsSound, Zenon
<1>2. intr' = pic'["master"].INT /\ intr' \in BOOLEAN
  <2>1. intr = pic["master"].INT /\ intr \in BOOLEAN /\ "master" \in Chip /\ "slave" # "master"
    BY Zenon DEF IInv, TypeOK, IntrFollowsMaster, Sound, ChipType, Chip
  <2>2. p.INT \in BOOLEAN
    BY Zenon DEF Sound, ChipType
  <2>3. CASE c = "master"
    BY <1>1, <2>1, <2>2, <2>3, Zenon
  <2>4. CASE c # "master"
    BY <1>1, <2>1, <2>4, Zenon DEF Chip
  <2> QED  BY <2>3, <2>4
<1>3. Cascade \notin pic'["master"].elcr
  BY <1>1, Zenon DEF Chip, IInv, CascadeOnEdge
<1> QED  BY <1>1, <1>2, <1>3, Zenon DEF IInv, TypeOK, IntrFollowsMaster, CascadeOnEdge

\* Chip c becomes p, with the signal it had, and is serviced.
LEMMA ServiceAsKeepsIInv ==
  ASSUME IInv, NEW c \in Chip, NEW p, Sound(p), p.INT = pic[c].INT,
         p.elcr = pic[c].elcr, ServiceAs(c, p)
  PROVE  IInv'
<1>0. "master" \in Chip /\ "slave" \in Chip
  BY DEF Chip
<1>1. CASE c = "master"
  <2>1. Sound(Service(p)) /\ (p.INT => Service(p) = p) /\ Service(p).elcr = p.elcr
    BY ServiceSound, Zenon
  <2> DEFINE new == [pic EXCEPT !["master"] = Service(p)]
  <2>2. /\ new \in [Chip -> ChipType]
        /\ new["master"] = Service(p)
        /\ \A d \in Chip : Sound(new[d])
    BY <1>0, <2>1, ChipsSound, Zenon
  <2>3. Become(new)
    BY <1>1, Zenon DEF ServiceAs
  <2> HIDE DEF new
  <2>4. /\ pic["master"].INT => new["master"].INT
        /\ new["master"].elcr = pic["master"].elcr
    BY <1>1, <2>1, <2>2, Zenon
  <2> QED  BY <2>2, <2>3, <2>4, BecomeKeepsIInv, Zenon
<1>2. CASE c # "master"
  <2> DEFINE new == SlaveServiced(pic["master"], p)
  <2>1. Become(new)
    BY <1>2, Zenon DEF ServiceAs
  <2>2. Sound(pic["master"])
    BY <1>0, Zenon DEF IInv
  <2>3. /\ new \in [Chip -> ChipType]
        /\ \A d \in Chip : Sound(new[d])
        /\ pic["master"].INT => new["master"].INT
        /\ new["master"].elcr = pic["master"].elcr
    BY <2>2, SlaveServicedSound, Zenon
  <2> HIDE DEF new
  <2> QED  BY <2>1, <2>3, BecomeKeepsIInv, Zenon
<1> QED  BY <1>1, <1>2

\* A device raises its line.
LEMMA RaiseIRQKeepsIInv ==
  ASSUME IInv, NEW c \in Chip, NEW i \in Pin, RaiseIRQ(c, i)
  PROVE  IInv'
<1>0. "master" \in Chip /\ "slave" \in Chip /\ Sound(pic["master"]) /\ Sound(pic["slave"])
  BY DEF Chip, IInv
<1>1. CASE c = "master"
  <2>1. /\ Sound(Raised(pic["master"], i))
        /\ pic["master"].INT => Raised(pic["master"], i).INT
        /\ Raised(pic["master"], i).elcr = pic["master"].elcr
    BY <1>0, RaisedSound, Zenon
  <2> DEFINE new == [pic EXCEPT !["master"] = Raised(pic["master"], i)]
  <2>2. /\ new \in [Chip -> ChipType]
        /\ new["master"] = Raised(pic["master"], i)
        /\ \A d \in Chip : Sound(new[d])
    BY <1>0, <2>1, ChipsSound, Zenon
  <2>3. Become(new)
    BY <1>1, Zenon DEF RaiseIRQ
  <2> HIDE DEF new
  <2> QED  BY <2>1, <2>2, <2>3, BecomeKeepsIInv, Zenon
<1>2. CASE c # "master"
  <2> DEFINE new == SlaveServiced(pic["master"], Requested(pic["slave"], i))
  <2>1. Become(new)
    BY <1>2, Zenon DEF RaiseIRQ
  <2>2. Sound(Requested(pic["slave"], i))
    BY <1>0, RequestedSound, Zenon
  <2>3. /\ new \in [Chip -> ChipType]
        /\ \A d \in Chip : Sound(new[d])
        /\ pic["master"].INT => new["master"].INT
        /\ new["master"].elcr = pic["master"].elcr
    BY <1>0, <2>2, SlaveServicedSound, Zenon
  <2> HIDE DEF new
  <2> QED  BY <2>1, <2>3, BecomeKeepsIInv, Zenon
<1> QED  BY <1>1, <1>2

\* A device lowers its line: INTR follows the master's signal down.
LEMMA LowerIRQKeepsIInv ==
  ASSUME IInv, NEW c \in Chip, NEW i \in Pin, LowerIRQ(c, i)
  PROVE  IInv'
<1> DEFINE p == Lowered(pic[c], i)
           quiet == p.irr \ p.imr = {}
           m == IF c = "master" THEN p
                ELSE IF quiet THEN Lowered(pic["master"], Cascade) ELSE pic["master"]
           s == IF c = "slave" THEN p ELSE pic["slave"]
<1>0. /\ "master" \in Chip /\ "slave" \in Chip
      /\ Sound(pic["master"]) /\ Sound(pic["slave"]) /\ Sound(pic[c])
      /\ Cascade \in Pin
  BY ConstantsAssumption DEF Chip, IInv
<1>1. /\ pic' = [master |-> m, slave |-> s]
      /\ intr' = (intr /\ (m.line # pic["master"].line => m.irr \ m.imr # {}))
  BY Zenon DEF LowerIRQ
<1>2. Sound(p)
  BY <1>0, LoweredSound, Zenon
\* The master is as it was, or one of its lines has been lowered.
<1>3. \/ m = pic["master"]
      \/ \E j \in Pin : j \in pic["master"].line /\ m = Lowered(pic["master"], j)
  <2>1. CASE c = "master"
    BY <2>1, Zenon DEF LowerIRQ
  <2>2. CASE c # "master"
    <3>1. m = Lowered(pic["master"], Cascade) \/ m = pic["master"]
      BY <2>2, Zenon
    <3>2. Cascade \notin pic["master"].line
            => Lowered(pic["master"], Cascade) = pic["master"]
      BY <1>0, LoweredSound, Zenon
    <3> QED  BY <1>0, <3>1, <3>2, Zenon
  <2> QED  BY <2>1, <2>2
<1> HIDE DEF m
<1>4. /\ Sound(m)
      /\ m.INT = (pic["master"].INT /\ (m.line # pic["master"].line => m.irr \ m.imr # {}))
      /\ m.elcr = pic["master"].elcr
  <2>1. CASE m = pic["master"]
    <3>1. pic["master"].INT \in BOOLEAN
      BY <1>0, Zenon DEF Sound, ChipType
    <3> QED  BY <1>0, <2>1, <3>1, Zenon
  <2>2. ASSUME NEW j \in Pin, j \in pic["master"].line, m = Lowered(pic["master"], j)
        PROVE  <1>4!1 /\ <1>4!2 /\ <1>4!3
    <3> DEFINE q == pic["master"]
    <3>0. Sound(q) /\ j \in q.line /\ m = Lowered(q, j)
      BY <1>0, <2>2
    <3> HIDE DEF q
    <3>1. /\ Sound(Lowered(q, j))
          /\ Lowered(q, j).line = q.line \ {j}
          /\ Lowered(q, j).irr = q.irr \ {j}
          /\ Lowered(q, j).INT = (q.INT /\ (q.irr \ {j}) \ q.imr # {})
          /\ Lowered(q, j).imr = q.imr
          /\ Lowered(q, j).elcr = q.elcr
      BY ONLY <3>0, LoweredSound
    <3>2. q.line \ {j} # q.line
      BY <3>0, Zenon
    <3>3. m.line # q.line /\ m.irr \ m.imr = (q.irr \ {j}) \ q.imr
      BY <3>0, <3>1, <3>2, Zenon
    <3>4. /\ Sound(m)
          /\ m.INT = (q.INT /\ (m.line # q.line => m.irr \ m.imr # {}))
          /\ m.elcr = q.elcr
      BY <3>0, <3>1, <3>3, Zenon
    <3> QED  BY <3>4, Zenon DEF q
  <2> QED  BY <1>3, <2>1, <2>2
<1>5. Sound(s)
  BY <1>0, <1>2, Zenon
<1> HIDE DEF s, p
<1>6. /\ pic' \in [Chip -> ChipType]
      /\ pic'["master"] = m
      /\ pic'["slave"] = s
  BY <1>1, <1>4, <1>5, PairOfChips, Zenon DEF Sound
<1>7. \A d \in Chip : Sound(pic'[d])
  BY <1>4, <1>5, <1>6, Zenon DEF Chip
<1>8. intr \in BOOLEAN /\ intr = pic["master"].INT
  BY <1>0, Zenon DEF IInv, TypeOK, IntrFollowsMaster, Sound, ChipType
<1>9. intr' \in BOOLEAN /\ intr' = m.INT
  BY <1>1, <1>4, <1>8, Zenon
<1>10. Cascade \notin pic'["master"].elcr
  BY <1>4, <1>6, Zenon DEF IInv, CascadeOnEdge
<1> QED  BY <1>6, <1>7, <1>9, <1>10, Zenon DEF IInv, TypeOK, IntrFollowsMaster, CascadeOnEdge

\* The CPU acknowledges.
LEMMA IACKeepsIInv ==
  ASSUME IInv, IAC
  PROVE  IInv'
<1> DEFINE m == Acknowledged(pic["master"])
           lowered == [m EXCEPT !.line = @ \ {Cascade}]
           both == SlaveServiced(lowered, Acknowledged(pic["slave"]))
           new == IF pic["master"].irq = Cascade THEN both ELSE [pic EXCEPT !["master"] = m]
<1>0. /\ "master" \in Chip /\ "slave" \in Chip
      /\ Sound(pic["master"]) /\ Sound(pic["slave"])
      /\ Cascade \in Pin
      /\ Cascade \notin pic["master"].elcr
  BY ConstantsAssumption DEF Chip, IInv, CascadeOnEdge
<1>1. /\ pic' = [new EXCEPT !["master"] = Service(new["master"])]
      /\ intr' = Service(new["master"]).INT
  BY Zenon DEF IAC
<1>2. /\ Sound(m)
      /\ m.INT = FALSE
      /\ m.elcr = pic["master"].elcr
      /\ m.irr = IF pic["master"].irq \in pic["master"].elcr
                 THEN pic["master"].irr ELSE pic["master"].irr \ {pic["master"].irq}
  BY <1>0, AcknowledgedSound, Zenon
<1> HIDE DEF m
<1>3. /\ new \in [Chip -> ChipType]
      /\ \A d \in Chip : Sound(new[d])
      /\ new["master"].elcr = pic["master"].elcr
  <2>1. CASE pic["master"].irq = Cascade
    <3>1. m.irr \subseteq m.line \ {Cascade}
      BY <1>0, <1>2, <2>1, Zenon DEF Sound
    <3>2. /\ lowered \in ChipType
          /\ lowered.irr = m.irr /\ lowered.line = m.line \ {Cascade}
          /\ lowered.INT = m.INT /\ lowered.elcr = m.elcr
      BY <1>2, Zenon DEF Sound, ChipType
    <3> HIDE DEF lowered
    <3>3. Sound(lowered)
      BY <1>2, <3>1, <3>2, Zenon DEF Sound
    <3>4. Sound(Acknowledged(pic["slave"]))
      BY <1>0, AcknowledgedSound, Zenon
    <3>5. /\ both \in [Chip -> ChipType]
          /\ \A d \in Chip : Sound(both[d])
          /\ both["master"].elcr = lowered.elcr
      BY <3>3, <3>4, SlaveServicedSound, Zenon
    <3> HIDE DEF both
    <3> QED  BY <1>2, <2>1, <3>2, <3>5, Zenon
  <2>2. CASE pic["master"].irq # Cascade
    <3>1. new = [pic EXCEPT !["master"] = m]
      BY <2>2, Zenon
    <3> HIDE DEF new
    <3> QED  BY <1>0, <1>2, <3>1, ChipsSound, Zenon
  <2> QED  BY <2>1, <2>2
<1> HIDE DEF new
<1> DEFINE p == Service(new["master"])
<1>4. Sound(p) /\ p.INT \in BOOLEAN /\ p.elcr = new["master"].elcr
  BY <1>0, <1>3, ServiceSound, Zenon
<1> HIDE DEF p
<1>5. pic' = [new EXCEPT !["master"] = p] /\ intr' = p.INT
  BY <1>1, Zenon DEF p
<1>6. /\ pic' \in [Chip -> ChipType]
      /\ pic'["master"] = p
      /\ \A d \in Chip : Sound(pic'[d])
  BY <1>0, <1>3, <1>4, <1>5, Zenon DEF Sound
<1>7. Cascade \notin pic'["master"].elcr
  BY <1>0, <1>3, <1>4, <1>6, Zenon
<1> QED  BY <1>4, <1>5, <1>6, <1>7, Zenon
         DEF IInv, TypeOK, IntrFollowsMaster, CascadeOnEdge

\* The commands that only set a field of their chip.
LEMMA PollKeepsIInv ==
  ASSUME IInv, NEW c \in Chip, Poll(c)
  PROVE  IInv'
<1> DEFINE q == [pic[c] EXCEPT !.polled = TRUE]
<1>1. Sound(pic[c]) /\ (c = "master" => Cascade \notin pic[c].elcr)
  BY Zenon DEF IInv, CascadeOnEdge
<1>2. pic' = [pic EXCEPT ![c] = q] /\ intr' = intr
  BY Zenon DEF Poll
<1>3. Sound(q) /\ q.INT = pic[c].INT /\ q.elcr = pic[c].elcr
  BY <1>1, Zenon DEF Sound, ChipType
<1> HIDE DEF q
<1> QED  BY <1>1, <1>2, <1>3, UpdateKeepsIInv, Zenon

\* Special mask mode ends.
LEMMA CancelSpecialMaskKeepsIInv ==
  ASSUME IInv, NEW c \in Chip, CancelSpecialMask(c)
  PROVE  IInv'
<1> DEFINE q == [pic[c] EXCEPT !.special_mask = FALSE]
<1>1. Sound(pic[c]) /\ (c = "master" => Cascade \notin pic[c].elcr)
  BY Zenon DEF IInv, CascadeOnEdge
<1>2. pic' = [pic EXCEPT ![c] = q] /\ intr' = intr
  BY Zenon DEF CancelSpecialMask
<1>3. Sound(q) /\ q.INT = pic[c].INT /\ q.elcr = pic[c].elcr
  BY <1>1, Zenon DEF Sound, ChipType
<1> HIDE DEF q
<1> QED  BY <1>1, <1>2, <1>3, UpdateKeepsIInv, Zenon

\* The mode of the automatic end of interrupt.
LEMMA RotateOnAutoEOIKeepsIInv ==
  ASSUME IInv, NEW c \in Chip, NEW on \in BOOLEAN, RotateOnAutoEOI(c, on)
  PROVE  IInv'
<1> DEFINE q == [pic[c] EXCEPT !.rotate_on_autoeoi = on]
<1>1. Sound(pic[c]) /\ (c = "master" => Cascade \notin pic[c].elcr)
  BY Zenon DEF IInv, CascadeOnEdge
<1>2. pic' = [pic EXCEPT ![c] = q] /\ intr' = intr
  BY Zenon DEF RotateOnAutoEOI
<1>3. Sound(q) /\ q.INT = pic[c].INT /\ q.elcr = pic[c].elcr
  BY <1>1, Zenon DEF Sound, ChipType
<1> HIDE DEF q
<1> QED  BY <1>1, <1>2, <1>3, UpdateKeepsIInv, Zenon

\* The order of priorities.
LEMMA SetLowestPriorityKeepsIInv ==
  ASSUME IInv, NEW c \in Chip, NEW i \in Pin, SetLowestPriority(c, i)
  PROVE  IInv'
<1> DEFINE q == [pic[c] EXCEPT !.lowest_priority = i]
<1>1. Sound(pic[c]) /\ (c = "master" => Cascade \notin pic[c].elcr)
  BY Zenon DEF IInv, CascadeOnEdge
<1>2. pic' = [pic EXCEPT ![c] = q] /\ intr' = intr
  BY Zenon DEF SetLowestPriority
<1>3. Sound(q) /\ q.INT = pic[c].INT /\ q.elcr = pic[c].elcr
  BY <1>1, Zenon DEF Sound, ChipType
<1> HIDE DEF q
<1> QED  BY <1>1, <1>2, <1>3, UpdateKeepsIInv, Zenon

\* The commands that are followed by a service.
LEMMA SetSpecialMaskKeepsIInv ==
  ASSUME IInv, NEW c \in Chip, SetSpecialMask(c)
  PROVE  IInv'
<1> DEFINE q == [pic[c] EXCEPT !.special_mask = TRUE]
<1>1. Sound(pic[c])
  BY Zenon DEF IInv
<1>2. ServiceAs(c, q)
  BY Zenon DEF SetSpecialMask
<1>3. Sound(q) /\ q.INT = pic[c].INT /\ q.elcr = pic[c].elcr
  BY <1>1, Zenon DEF Sound, ChipType
<1> HIDE DEF q
<1> QED  BY <1>2, <1>3, ServiceAsKeepsIInv, Zenon

\* The end of interrupt of a named pin.
LEMMA SpecificEOIKeepsIInv ==
  ASSUME IInv, NEW c \in Chip, NEW i \in Pin, SpecificEOI(c, i)
  PROVE  IInv'
<1> DEFINE q == [pic[c] EXCEPT !.isr = @ \ {i}]
<1>1. Sound(pic[c])
  BY Zenon DEF IInv
<1>2. ServiceAs(c, q)
  BY Zenon DEF SpecificEOI
<1>3. Sound(q) /\ q.INT = pic[c].INT /\ q.elcr = pic[c].elcr
  BY <1>1, Zenon DEF Sound, ChipType
<1> HIDE DEF q
<1> QED  BY <1>2, <1>3, ServiceAsKeepsIInv, Zenon

\* The end of interrupt of a named pin that becomes the lowest.
LEMMA SpecificRotateEOIKeepsIInv ==
  ASSUME IInv, NEW c \in Chip, NEW i \in Pin, SpecificRotateEOI(c, i)
  PROVE  IInv'
<1> DEFINE q == [pic[c] EXCEPT !.isr = @ \ {i}, !.lowest_priority = i]
<1>1. Sound(pic[c])
  BY Zenon DEF IInv
<1>2. ServiceAs(c, q)
  BY Zenon DEF SpecificRotateEOI
<1>3. Sound(q) /\ q.INT = pic[c].INT /\ q.elcr = pic[c].elcr
  BY <1>1, Zenon DEF Sound, ChipType
<1> HIDE DEF q
<1> QED  BY <1>2, <1>3, ServiceAsKeepsIInv, Zenon

\* The mask register.
LEMMA WriteMaskKeepsIInv ==
  ASSUME IInv, NEW c \in Chip, NEW mask \in SUBSET Pin, WriteMask(c, mask)
  PROVE  IInv'
<1> DEFINE q == [pic[c] EXCEPT !.imr = mask]
<1>1. Sound(pic[c])
  BY Zenon DEF IInv
<1>2. ServiceAs(c, q)
  BY Zenon DEF WriteMask
<1>3. Sound(q) /\ q.INT = pic[c].INT /\ q.elcr = pic[c].elcr
  BY <1>1, Zenon DEF Sound, ChipType
<1> HIDE DEF q
<1> QED  BY <1>2, <1>3, ServiceAsKeepsIInv, Zenon

\* The end of the highest interrupt in service.
LEMMA EOIKeepsIInv ==
  ASSUME IInv, NEW c \in Chip, EOI(c)
  PROVE  IInv'
<1> DEFINE h == HighestCleared(pic[c])
           q == h
<1>1. ServiceAs(c, q)
  BY Zenon DEF EOI
<1>2. Sound(pic[c])
  BY Zenon DEF IInv
<1>3. Sound(h) /\ h.INT = pic[c].INT /\ h.elcr = pic[c].elcr
  BY <1>2, HighestClearedSound, Zenon
<1> HIDE DEF h
<1>5. Sound(q) /\ q.INT = h.INT /\ q.elcr = h.elcr
  BY <1>3, Zenon DEF Sound, ChipType
<1> HIDE DEF q
<1> QED  BY <1>1, <1>3, <1>5, ServiceAsKeepsIInv, Zenon

\* The end of the highest interrupt, with a turn of the order.
LEMMA RotateEOIKeepsIInv ==
  ASSUME IInv, NEW c \in Chip, RotateEOI(c)
  PROVE  IInv'
<1> DEFINE h == HighestCleared(pic[c])
           q == [h EXCEPT !.lowest_priority = (@ + 1) % PinCount]
<1>1. ServiceAs(c, q)
  BY Zenon DEF RotateEOI
<1>2. Sound(pic[c])
  BY Zenon DEF IInv
<1>3. Sound(h) /\ h.INT = pic[c].INT /\ h.elcr = pic[c].elcr
  BY <1>2, HighestClearedSound, Zenon
<1> HIDE DEF h
<1>4. (h.lowest_priority + 1) % PinCount \in Pin
  <2>1. h.lowest_priority \in Pin
    BY <1>3, Zenon DEF Sound, ChipType
  <2> QED  BY <2>1, ConstantsAssumption, SMT DEF Pin
<1>5. Sound(q) /\ q.INT = h.INT /\ q.elcr = h.elcr
  BY <1>3, <1>4, Zenon DEF Sound, ChipType
<1> HIDE DEF q
<1> QED  BY <1>1, <1>3, <1>5, ServiceAsKeepsIInv, Zenon

\* A read after a poll command.
LEMMA PolledReadKeepsIInv ==
  ASSUME IInv, NEW c \in Chip, PolledRead(c)
  PROVE  IInv'
<1> DEFINE h == HighestCleared(pic[c])
           q == [h EXCEPT !.polled = FALSE]
<1>1. ServiceAs(c, q)
  BY Zenon DEF PolledRead
<1>2. Sound(pic[c])
  BY Zenon DEF IInv
<1>3. Sound(h) /\ h.INT = pic[c].INT /\ h.elcr = pic[c].elcr
  BY <1>2, HighestClearedSound, Zenon
<1> HIDE DEF h
<1>5. Sound(q) /\ q.INT = h.INT /\ q.elcr = h.elcr
  BY <1>3, Zenon DEF Sound, ChipType
<1> HIDE DEF q
<1> QED  BY <1>1, <1>3, <1>5, ServiceAsKeepsIInv, Zenon

\* The commands that (re)initialize a chip, and the edge/level registers.
LEMMA InitCommandKeepsIInv ==
  ASSUME IInv, NEW c \in Chip, NEW requires_4 \in BOOLEAN, InitCommand(c, requires_4)
  PROVE  IInv'
<1> DEFINE q == [pic[c] EXCEPT !.expects = 2, !.requires_4 = requires_4,
                               !.imr = {}, !.isr = {}, !.irr = {}, !.INT = FALSE,
                               !.lowest_priority = PinCount - 1,
                               !.auto_eoi = FALSE, !.rotate_on_autoeoi = FALSE]
<1>1. pic' = [pic EXCEPT ![c] = q]
  BY Zenon DEF InitCommand
<1>2. intr' = (intr /\ c = "slave")
  BY Zenon DEF InitCommand
<1>3. Sound(pic[c]) /\ (c = "master" => Cascade \notin pic[c].elcr) /\ intr \in BOOLEAN
  BY Zenon DEF IInv, TypeOK, CascadeOnEdge
<1>4. PinCount - 1 \in Pin
  BY ConstantsAssumption, SMT DEF Pin
<1>5. /\ q \in ChipType
      /\ q.INT = FALSE /\ q.irr = {} /\ q.elcr = pic[c].elcr
  <2>1. pic[c] \in ChipType
    BY <1>3, Zenon DEF Sound
  <2> QED  BY ONLY <1>4, <2>1, Zenon DEF ChipType
<1> HIDE DEF q
<1>6. Sound(q)
  BY <1>5, Zenon DEF Sound
<1>7. (c = "master" /\ intr' = q.INT) \/ (c = "slave" /\ intr' = intr)
  BY <1>2, <1>3, <1>5, Zenon DEF Chip
<1> QED  BY <1>1, <1>3, <1>5, <1>6, <1>7, UpdateKeepsIInv, Zenon

\* A word of an initialization changes no request and no signal.
LEMMA InitWordKeepsIInv ==
  ASSUME IInv, NEW c \in Chip, NEW auto_eoi \in BOOLEAN, InitWord(c, auto_eoi)
  PROVE  IInv'
<1>1. PICK e \in {NotInInit, 2, 3, 4}, a \in BOOLEAN :
        pic' = [pic EXCEPT ![c] = [pic[c] EXCEPT !.expects = e, !.auto_eoi = a]]
  <2>1. pic[c].auto_eoi \in BOOLEAN /\ pic \in [Chip -> ChipType] /\ pic[c] \in ChipType
    BY Zenon DEF IInv, TypeOK, Sound, ChipType
  <2>2. pic[c] = [pic[c] EXCEPT !.auto_eoi = pic[c].auto_eoi]
    BY <2>1, Zenon DEF ChipType
  <2> DEFINE a == pic[c].auto_eoi
  <2>3. ASSUME NEW e
        PROVE  [pic EXCEPT ![c].expects = e]
                 = [pic EXCEPT ![c] = [pic[c] EXCEPT !.expects = e, !.auto_eoi = a]]
    BY <2>1, Zenon DEF ChipType
  <2>4. CASE pic' = [pic EXCEPT ![c].expects = 3]
    BY <2>1, <2>3, <2>4, Zenon
  <2>5. CASE pic' = [pic EXCEPT ![c].expects = IF pic[c].requires_4 THEN 4 ELSE NotInInit]
    BY <2>1, <2>3, <2>5, Zenon
  <2>6. CASE pic' = [pic EXCEPT ![c].expects = NotInInit, ![c].auto_eoi = auto_eoi]
    BY <2>1, <2>6, Zenon
  <2> QED  BY <2>4, <2>5, <2>6, Zenon DEF InitWord
<1> DEFINE q == [pic[c] EXCEPT !.expects = e, !.auto_eoi = a]
<1>2. Sound(pic[c]) /\ (c = "master" => Cascade \notin pic[c].elcr)
  BY Zenon DEF IInv, CascadeOnEdge
<1>3. Sound(q) /\ q.INT = pic[c].INT /\ q.elcr = pic[c].elcr
  BY <1>2, Zenon DEF Sound, ChipType
<1>4. pic' = [pic EXCEPT ![c] = q] /\ intr' = intr
  BY <1>1, Zenon DEF InitWord
<1> HIDE DEF q
<1> QED  BY <1>2, <1>3, <1>4, UpdateKeepsIInv, Zenon

\* The edge/level registers: the cascade pin is not among those they set.
LEMMA SetELCRKeepsIInv ==
  ASSUME IInv, NEW c \in Chip, NEW pins \in SUBSET Pin, SetELCR(c, pins)
  PROVE  IInv'
<1> DEFINE q == [pic[c] EXCEPT !.elcr = pins]
<1>1. Sound(pic[c])
  BY Zenon DEF IInv
<1>2. pic' = [pic EXCEPT ![c] = q] /\ intr' = intr
  BY Zenon DEF SetELCR
<1>3. Sound(q) /\ q.INT = pic[c].INT /\ q.elcr = pins
  BY <1>1, Zenon DEF Sound, ChipType
<1>4. c = "master" => Cascade \notin pins
  <2>1. \A i \in pins : <<c, i>> \in LevelCapable
    BY Zenon DEF SetELCR
  <2>2. <<"master", Cascade>> \notin LevelCapable
    BY ConstantsAssumption, Zenon
  <2> QED  BY <2>1, <2>2, Zenon
<1> HIDE DEF q
<1> QED  BY <1>2, <1>3, <1>4, UpdateKeepsIInv, Zenon

-----------------------------------------------------------------------------
(* The invariants of the specification.                                    *)

\* The chips are sound when the machine is switched on.
LEMMA InitSound == Init => IInv
<1> SUFFICES ASSUME Init
             PROVE  IInv
  OBVIOUS
<1>1. PinCount - 1 \in Pin /\ 0 \in Pin
  BY ConstantsAssumption, SMT DEF Pin
<1>2. PowerOn \in ChipType
  BY <1>1, Zenon DEF PowerOn, ChipType
<1>3. PowerOn.irr = {} /\ PowerOn.INT = FALSE /\ PowerOn.elcr = {}
  BY Zenon DEF PowerOn
<1>4. \A c \in Chip : pic[c] = PowerOn
  BY Zenon DEF Init
<1>5. TypeOK
  BY <1>2, Zenon DEF Init, TypeOK
<1>6. \A c \in Chip : Sound(pic[c])
  BY <1>2, <1>3, <1>4, Zenon DEF Sound
<1>7. CascadeOnEdge /\ IntrFollowsMaster
  BY <1>3, <1>4, Zenon DEF CascadeOnEdge, IntrFollowsMaster, Init, Chip
<1> QED  BY <1>5, <1>6, <1>7, Zenon DEF IInv

\* Every step of a device, of the guest and of the CPU keeps the invariant.
LEMMA StepSound == IInv /\ [Next]_vars => IInv'
<1> SUFFICES ASSUME IInv, [Next]_vars
             PROVE  IInv'
  OBVIOUS
<1>1. ASSUME NEW d \in Devices, RaiseIRQ(d[1], d[2]) \/ LowerIRQ(d[1], d[2])
      PROVE  IInv'
  <2>1. d[1] \in Chip /\ d[2] \in Pin
    BY ConstantsAssumption
  <2> QED  BY <1>1, <2>1, RaiseIRQKeepsIInv, LowerIRQKeepsIInv
<1>2. CASE IAC
  BY <1>2, IACKeepsIInv
<1>3. ASSUME NEW c \in Chip, NEW requires_4 \in BOOLEAN, InitCommand(c, requires_4)
      PROVE  IInv'
  BY <1>3, InitCommandKeepsIInv
<1>4. ASSUME NEW c \in Chip, NEW auto_eoi \in BOOLEAN, InitWord(c, auto_eoi)
      PROVE  IInv'
  BY <1>4, InitWordKeepsIInv
<1>5. ASSUME NEW c \in Chip, Poll(c) \/ PolledRead(c)
      PROVE  IInv'
  BY <1>5, PollKeepsIInv, PolledReadKeepsIInv
<1>6. ASSUME NEW c \in Chip, CancelSpecialMask(c) \/ SetSpecialMask(c)
      PROVE  IInv'
  BY <1>6, CancelSpecialMaskKeepsIInv, SetSpecialMaskKeepsIInv
<1>7. ASSUME NEW c \in Chip, NEW on \in BOOLEAN, RotateOnAutoEOI(c, on)
      PROVE  IInv'
  BY <1>7, RotateOnAutoEOIKeepsIInv
<1>8. ASSUME NEW c \in Chip, EOI(c) \/ RotateEOI(c)
      PROVE  IInv'
  BY <1>8, EOIKeepsIInv, RotateEOIKeepsIInv
<1>9. ASSUME NEW c \in Chip, NEW i \in Pin,
             SpecificEOI(c, i) \/ SpecificRotateEOI(c, i) \/ SetLowestPriority(c, i)
      PROVE  IInv'
  BY <1>9, SpecificEOIKeepsIInv, SpecificRotateEOIKeepsIInv, SetLowestPriorityKeepsIInv
<1>10. ASSUME NEW m \in Masks, WriteMask(m[1], m[2])
       PROVE  IInv'
  <2>1. m[1] \in Chip /\ m[2] \in SUBSET Pin
    BY ConstantsAssumption
  <2> QED  BY <1>10, <2>1, WriteMaskKeepsIInv
<1>11. ASSUME NEW c \in Chip, NEW pins \in SUBSET Pin, SetELCR(c, pins)
       PROVE  IInv'
  BY <1>11, SetELCRKeepsIInv
<1>12. CASE UNCHANGED vars
  BY <1>12, Zenon DEF vars, IInv, TypeOK, Sound, CascadeOnEdge, IntrFollowsMaster
<1> QED  BY <1>1, <1>2, <1>3, <1>4, <1>5, <1>6, <1>7, <1>8, <1>9, <1>10, <1>11, <1>12,
            Zenon DEF Next

\* The inductive invariant holds whatever the devices, the guest and the CPU do.
THEOREM Invariance == Spec => []IInv
<1> QED  BY InitSound, StepSound, PTL DEF Spec

\* The registers keep their types: the round of priorities never leaves the
\* pins, and no choice is made outside them.
THEOREM TypeCorrect == Spec => []TypeOK
<1>1. IInv => TypeOK
  BY DEF IInv
<1> QED  BY <1>1, Invariance, PTL

\* INTR is high exactly while the master waits for an acknowledge.
THEOREM IntrAgrees == Spec => []IntrFollowsMaster
<1>1. IInv => IntrFollowsMaster
  BY DEF IInv
<1> QED  BY <1>1, Invariance, PTL

\* No request outlives its line.
THEOREM RequestsNeedLines == Spec => []RequestsHaveLines
<1>1. IInv => RequestsHaveLines
  BY Zenon DEF IInv, Sound, RequestsHaveLines
<1> QED  BY <1>1, Invariance, PTL

\* A pin in service is not chosen again.
THEOREM NoDoubleService == Spec => []ChosenNotInService
<1>1. IInv => ChosenNotInService
  BY Zenon DEF IInv, Sound, ChosenNotInService
<1> QED  BY <1>1, Invariance, PTL


-----------------------------------------------------------------------------
(* What a step may do to a chip.                                           *)

\* A chip that signals, or has nothing that it may signal.
Settled(p) == p.INT \/ Eligible(p) = {}

\* The chosen pin outranks everything in service.
AboveService(p) == \A j \in p.isr : Rank(p, p.irq) < Rank(p, j)

\* A chip that was p becomes q: whether it chose a pin now, and in what order.
Nested(p, q) ==
  q.INT /\ (p.INT => q.irq # p.irq) /\ ~q.special_mask => AboveService(q)

Kept(p, q) == Nested(p, q) /\ (Settled(p) => Settled(q))

\* After service_pic a chip signals or has nothing to signal, and if it has just
\* begun to, its choice outranks everything in service.
LEMMA ServiceSettles ==
  ASSUME NEW p, Sound(p)
  PROVE  /\ Settled(Service(p))
         /\ ~p.INT /\ Service(p).INT /\ ~Service(p).special_mask
              => AboveService(Service(p))
<1>1. CASE p.INT \/ Eligible(p) = {}
  BY <1>1, Zenon DEF Service, Settled
<1>2. CASE ~(p.INT \/ Eligible(p) = {})
  <2> DEFINE i == FirstOf(p, Eligible(p))
             q == [p EXCEPT !.INT = TRUE, !.irq = i]
  <2>1. Service(p) = q
    BY <1>2, Zenon DEF Service
  <2>2. p \in ChipType /\ Eligible(p) \subseteq Pin
    BY EligibleOutOfService DEF Sound
  <2>3. i \in Eligible(p)
    BY <1>2, <2>2, FirstOfBelongs
  <2>4. i \in Pin
    BY <2>2, <2>3
  <2>5. ~p.special_mask => \A j \in p.isr : Rank(p, i) < Rank(p, j)
    BY <2>3, Zenon DEF Eligible
  <2> HIDE DEF i
  <2>6. /\ q.INT = TRUE /\ q.irq = i /\ q.isr = p.isr
        /\ q.special_mask = p.special_mask /\ q.lowest_priority = p.lowest_priority
    BY <2>2, Zenon DEF ChipType
  <2> HIDE DEF q
  <2>7. \A j : Rank(q, j) = Rank(p, j)
    BY <2>6, Zenon DEF Rank
  <2>8. ~q.special_mask => AboveService(q)
    BY <2>5, <2>6, <2>7, Zenon DEF AboveService
  <2> QED  BY <2>1, <2>6, <2>8, Zenon DEF Settled
<1> QED  BY <1>1, <1>2

\* A service of what the chip has become: either it signalled the same pin
\* already, or it does not signal any longer.
LEMMA ServiceKept ==
  ASSUME NEW p, NEW r, Sound(r), r.INT => p.INT /\ p.irq = r.irq
  PROVE  Kept(p, Service(r))
<1>1. /\ Settled(Service(r))
      /\ ~r.INT /\ Service(r).INT /\ ~Service(r).special_mask => AboveService(Service(r))
      /\ r.INT => Service(r) = r
  BY ServiceSettles, ServiceSound, Zenon
<1>2. Nested(p, Service(r))
  BY <1>1, Zenon DEF Nested
<1> QED  BY <1>1, <1>2, Zenon DEF Kept

\* A chip whose requests, services, mask and order of priorities stay as they
\* are, or that loses requests.
LEMMA FewerRequestsKept ==
  ASSUME NEW p, NEW q, q.INT => p.INT /\ q.irq = p.irq, Eligible(q) \subseteq Eligible(p),
         p.INT => q.INT \/ q.irr \ q.imr = {}
  PROVE  Kept(p, q)
<1>1. Nested(p, q)
  BY Zenon DEF Nested
<1>2. q.irr \ q.imr = {} => Eligible(q) = {}
  BY Zenon DEF Eligible
<1>3. Settled(p) => Settled(q)
  BY <1>2, Zenon DEF Settled
<1> QED  BY <1>1, <1>3, Zenon DEF Kept

\* The bits that decide what may be signalled.
LEMMA EligibleFrom ==
  ASSUME NEW p, NEW q, q.irr \ q.imr \subseteq p.irr \ p.imr, q.isr = p.isr,
         q.special_mask = p.special_mask, q.lowest_priority = p.lowest_priority
  PROVE  Eligible(q) \subseteq Eligible(p)
<1>1. \A i : Rank(q, i) = Rank(p, i)
  BY Zenon DEF Rank
<1>2. ASSUME NEW i, i \in Eligible(q)
      PROVE  i \in Eligible(p)
  <2>1. i \in p.irr \ p.imr
    BY <1>2, Zenon DEF Eligible
  <2>2. IF q.special_mask THEN i \notin q.isr ELSE \A j \in q.isr : Rank(q, i) < Rank(q, j)
    BY <1>2, Zenon DEF Eligible
  <2>3. q.special_mask => i \notin p.isr
    BY <2>2, Zenon
  <2>4. ~q.special_mask => \A j \in p.isr : Rank(p, i) < Rank(p, j)
    <3>1. ASSUME ~q.special_mask, NEW j \in p.isr
          PROVE  Rank(p, i) < Rank(p, j)
      <4>1. Rank(q, i) < Rank(q, j)
        BY <2>2, <3>1, Zenon
      <4>2. Rank(q, i) = Rank(p, i) /\ Rank(q, j) = Rank(p, j)
        BY <1>1, Zenon
      <4> QED  BY <4>1, <4>2, SMT
    <3> QED  BY <3>1, Zenon
  <2>5. IF p.special_mask THEN i \notin p.isr ELSE \A j \in p.isr : Rank(p, i) < Rank(p, j)
    BY <2>3, <2>4, Zenon
  <2> QED  BY <2>1, <2>5, Zenon DEF Eligible
<1> QED  BY <1>2, Zenon

\* A line that goes up: the chip is serviced with the request.
LEMMA RaisedKept ==
  ASSUME NEW p, Sound(p), NEW i \in Pin
  PROVE  Kept(p, Raised(p, i))
<1>1. CASE i \in p.line
  <2>1. Raised(p, i) = p
    BY <1>1, Zenon DEF Raised
  <2>2. Nested(p, p)
    BY Zenon DEF Nested
  <2> QED  BY <2>1, <2>2, Zenon DEF Kept
<1>2. CASE i \notin p.line
  <2> DEFINE r == Requested(p, i)
  <2>1. Sound(r) /\ r.INT = p.INT
    BY RequestedSound, Zenon
  <2>2. r.irq = p.irq
    <3>1. p.line \cup {i} \in SUBSET Pin /\ p.irr \cup {i} \in SUBSET Pin
      BY Zenon DEF Sound, ChipType
    <3> QED  BY <3>1, Zenon DEF Sound, ChipType, Requested
  <2>3. Raised(p, i) = Service(r)
    BY <1>2, Zenon DEF Raised
  <2> HIDE DEF r
  <2> QED  BY <2>1, <2>2, <2>3, ServiceKept, Zenon
<1> QED  BY <1>1, <1>2

\* A line that goes down: the chip loses a request, and its signal with the last.
LEMMA LoweredKept ==
  ASSUME NEW p, Sound(p), NEW i \in Pin
  PROVE  Kept(p, Lowered(p, i))
<1>1. CASE i \notin p.line
  <2>1. Lowered(p, i) = p
    BY <1>1, Zenon DEF Lowered
  <2>2. Nested(p, p)
    BY Zenon DEF Nested
  <2> QED  BY <2>1, <2>2, Zenon DEF Kept
<1>2. CASE i \in p.line
  <2> DEFINE l == Lowered(p, i)
             q == [p EXCEPT !.line = @ \ {i}, !.irr = @ \ {i}]
             on == p.INT /\ q.irr \ q.imr # {}
             r == [q EXCEPT !.INT = on]
  <2>1. l = r
    BY <1>2, Zenon DEF Lowered
  <2>2. /\ q \in ChipType
        /\ q.irq = p.irq /\ q.isr = p.isr
        /\ q.special_mask = p.special_mask /\ q.lowest_priority = p.lowest_priority
    <3>1. p.line \ {i} \in SUBSET Pin /\ p.irr \ {i} \in SUBSET Pin
      BY Zenon DEF Sound, ChipType
    <3> QED  BY <3>1, Zenon DEF Sound, ChipType
  <2> HIDE DEF q, on
  <2>3. /\ r.irq = q.irq /\ r.isr = q.isr
        /\ r.special_mask = q.special_mask /\ r.lowest_priority = q.lowest_priority
    BY <2>2, Zenon DEF ChipType
  <2> HIDE DEF r
  <2>4. /\ l.irq = p.irq /\ l.isr = p.isr
        /\ l.special_mask = p.special_mask /\ l.lowest_priority = p.lowest_priority
    BY <2>1, <2>2, <2>3, Zenon
  <2>5. /\ l.irr = p.irr \ {i}
        /\ l.INT = (p.INT /\ (p.irr \ {i}) \ p.imr # {})
        /\ l.imr = p.imr
    BY <1>2, LoweredSound, SMT
  <2> HIDE DEF l
  <2>6. l.irr \ l.imr \subseteq p.irr \ p.imr
    BY <2>5, Zenon
  <2>7. Eligible(l) \subseteq Eligible(p)
    BY <2>4, <2>6, EligibleFrom, Zenon
  <2>8. (l.INT => p.INT /\ l.irq = p.irq) /\ (p.INT => l.INT \/ l.irr \ l.imr = {})
    BY <2>4, <2>5, Zenon
  <2>9. Kept(p, l)
    BY <2>7, <2>8, FewerRequestsKept, Zenon
  <2> QED  BY <2>9 DEF l
<1> QED  BY <1>1, <1>2

-----------------------------------------------------------------------------
(* What a step does to both chips.                                         *)

\* ChipsAgree for a master and a slave.
Agree(m, s) ==
  /\ s.INT <=> Cascade \in m.line
  /\ s.INT => Cascade \in m.irr

\* The slave is serviced, and raises the cascade pin if it begins to signal.
LEMMA SlaveServicedMoves ==
  ASSUME NEW m, Sound(m), NEW s, Sound(s)
  PROVE  /\ SlaveServiced(m, s)["slave"] = Service(s)
         /\ Kept(m, SlaveServiced(m, s)["master"])
         /\ Agree(m, s) => Agree(SlaveServiced(m, s)["master"], SlaveServiced(m, s)["slave"])
<1> DEFINE m1 == IF Signals(s) THEN Raised(m, Cascade) ELSE m
           s1 == Service(s)
<1>0. Cascade \in Pin
  BY ConstantsAssumption
<1>1. /\ Sound(Raised(m, Cascade))
      /\ Cascade \notin m.line => /\ Raised(m, Cascade).line = m.line \cup {Cascade}
                                 /\ Raised(m, Cascade).irr = m.irr \cup {Cascade}
      /\ Kept(m, Raised(m, Cascade))
  BY <1>0, RaisedSound, RaisedKept, Zenon
<1>2. /\ Sound(s1)
      /\ s.INT => s1 = s
  BY ServiceSound, Zenon
<1>3. Kept(m, m)
  BY Zenon DEF Kept, Nested
<1>4. Sound(m1) /\ Kept(m, m1)
  BY <1>1, <1>3, Zenon
<1>5. /\ SlaveServiced(m, s)["master"] = m1
      /\ SlaveServiced(m, s)["slave"] = s1
  <2>1. SlaveServiced(m, s) = [master |-> m1, slave |-> s1]
    BY Zenon DEF SlaveServiced
  <2>2. m1 \in ChipType /\ s1 \in ChipType
    BY <1>2, <1>4, Zenon DEF Sound
  <2> HIDE DEF m1, s1
  <2> QED  BY <2>1, <2>2, PairOfChips
<1>6. ASSUME Agree(m, s)
      PROVE  Agree(m1, s1)
  <2>1. CASE Signals(s)
    <3>1. ~s.INT /\ s1.INT /\ m1 = Raised(m, Cascade)
      BY <2>1, Zenon DEF Signals
    <3>2. Cascade \notin m.line
      BY <1>6, <3>1, Zenon DEF Agree
    <3>3. Cascade \in m1.line /\ Cascade \in m1.irr
      BY <1>1, <3>1, <3>2, Zenon
    <3> HIDE DEF m1, s1
    <3> QED  BY <3>1, <3>3, Zenon DEF Agree
  <2>2. CASE ~Signals(s)
    <3>1. m1 = m /\ (s.INT <=> s1.INT)
      BY <1>2, <2>2, Zenon DEF Signals
    <3> HIDE DEF m1, s1
    <3> QED  BY <1>6, <3>1, Zenon DEF Agree
  <2> QED  BY <2>1, <2>2
<1> HIDE DEF m1, s1
<1> QED  BY <1>4, <1>5, <1>6, Zenon DEF s1

\* What every step but two does: each chip stays settled and chooses in order,
\* and the two agree if they did.
Moves ==
  /\ \A c \in Chip : Kept(pic[c], pic'[c])
  /\ ChipsAgree => ChipsAgree'

\* Both chips and what they agree on.
LEMMA MovesFrom ==
  ASSUME Kept(pic["master"], pic'["master"]), Kept(pic["slave"], pic'["slave"]),
         Agree(pic["master"], pic["slave"]) => Agree(pic'["master"], pic'["slave"])
  PROVE  Moves
BY Zenon DEF Moves, Chip, ChipsAgree, Agree

\* Chip c becomes p and is serviced: its signal and choice are as before, and if
\* it is the master, so is its cascade pin.
LEMMA ServiceAsMoves ==
  ASSUME IInv, NEW c \in Chip, NEW p, Sound(p),
         p.INT = pic[c].INT, p.irq = pic[c].irq,
         c = "master" => /\ Cascade \in p.line <=> Cascade \in pic[c].line
                         /\ Cascade \in pic[c].irr => Cascade \in p.irr,
         ServiceAs(c, p)
  PROVE  Moves
<1>0. /\ "master" \in Chip /\ "slave" \in Chip /\ "master" # "slave"
      /\ Sound(pic["master"]) /\ Sound(pic["slave"])
      /\ pic \in [Chip -> ChipType]
  BY DEF Chip, IInv, TypeOK
<1>1. Kept(pic[c], Service(p))
  BY ServiceKept, Zenon
<1>2. CASE c = "master"
  <2>1. pic' = [pic EXCEPT !["master"] = Service(p)]
    BY <1>2, Zenon DEF ServiceAs, Become
  <2>2. pic'["master"] = Service(p) /\ pic'["slave"] = pic["slave"]
    BY <1>0, <2>1, Zenon
  <2>3. Service(p).line = p.line /\ Service(p).irr = p.irr
    BY ServiceSound, Zenon
  <2>4. Agree(pic["master"], pic["slave"]) => Agree(pic'["master"], pic'["slave"])
    BY <1>2, <2>2, <2>3, Zenon DEF Agree
  <2>5. Kept(pic["slave"], pic["slave"])
    BY Zenon DEF Kept, Nested
  <2> QED  BY <1>1, <1>2, <2>2, <2>4, <2>5, MovesFrom, Zenon
<1>3. CASE c # "master"
  <2>0. c = "slave"
    BY <1>3, Zenon DEF Chip
  <2>1. pic' = SlaveServiced(pic["master"], p)
    BY <1>3, Zenon DEF ServiceAs, Become
  <2>2. /\ SlaveServiced(pic["master"], p)["slave"] = Service(p)
        /\ Kept(pic["master"], SlaveServiced(pic["master"], p)["master"])
        /\ Agree(pic["master"], p)
             => Agree(SlaveServiced(pic["master"], p)["master"],
                      SlaveServiced(pic["master"], p)["slave"])
    BY <1>0, SlaveServicedMoves, Zenon
  <2>3. Agree(pic["master"], pic["slave"]) => Agree(pic["master"], p)
    BY <2>0, Zenon DEF Agree
  <2> QED  BY <1>1, <2>0, <2>1, <2>2, <2>3, MovesFrom, Zenon
<1> QED  BY <1>2, <1>3

\* Chip c becomes p and is not serviced; if it is the master, its lines and
\* requests are as before.
LEMMA UpdateMoves ==
  ASSUME IInv, NEW c \in Chip, NEW p, pic' = [pic EXCEPT ![c] = p], p.INT = pic[c].INT,
         Kept(pic[c], p), p.line = pic[c].line, p.irr = pic[c].irr
  PROVE  Moves
<1>0. /\ "master" \in Chip /\ "slave" \in Chip /\ "master" # "slave"
      /\ pic \in [Chip -> ChipType]
  BY DEF Chip, IInv, TypeOK
<1>1. pic'[c] = p /\ \A d \in Chip \ {c} : pic'[d] = pic[d]
  BY <1>0, Zenon
<1>2. \A d \in Chip : Kept(pic[d], pic'[d])
  BY <1>1, Zenon DEF Kept, Nested
<1>3. \A d \in Chip : /\ pic'[d].INT = pic[d].INT
                     /\ pic'[d].line = pic[d].line
                     /\ pic'[d].irr = pic[d].irr
  BY <1>1, Zenon
<1>4. Agree(pic["master"], pic["slave"]) => Agree(pic'["master"], pic'["slave"])
  BY <1>0, <1>3, Zenon DEF Agree
<1> QED  BY <1>0, <1>2, <1>4, MovesFrom, Zenon

\* What a chip that is not serviced keeps when its requests, services and order
\* of priorities stay.
LEMMA AlikeKept ==
  ASSUME NEW p, NEW q, q.irr = p.irr, q.imr = p.imr, q.isr = p.isr, q.INT = p.INT,
         q.irq = p.irq, q.special_mask = p.special_mask,
         q.lowest_priority = p.lowest_priority
  PROVE  Kept(p, q)
<1>1. q.irr \ q.imr \subseteq p.irr \ p.imr
  BY Zenon
<1>2. Eligible(q) \subseteq Eligible(p)
  BY <1>1, EligibleFrom, Zenon
<1>3. (q.INT => p.INT /\ q.irq = p.irq) /\ (p.INT => q.INT \/ q.irr \ q.imr = {})
  BY Zenon
<1> QED  BY <1>2, <1>3, FewerRequestsKept, Zenon

\* An end of interrupt does not change what the chip has chosen.
LEMMA HighestClearedChoice ==
  ASSUME NEW p, Sound(p)
  PROVE  HighestCleared(p).irq = p.irq
BY Zenon DEF HighestCleared, Sound, ChipType

\* A poll command only prepares the next read.
LEMMA PollMoves ==
  ASSUME IInv, NEW c \in Chip, Poll(c)
  PROVE  Moves
<1> DEFINE p == pic[c]
           q == [p EXCEPT !.polled = TRUE]
<1>1. p \in ChipType
  BY Zenon DEF IInv, Sound
<1>2. pic' = [pic EXCEPT ![c] = q]
  BY Zenon DEF Poll
<1> HIDE DEF p
<1>3. /\ q.irr = p.irr /\ q.imr = p.imr /\ q.isr = p.isr /\ q.INT = p.INT
      /\ q.irq = p.irq /\ q.special_mask = p.special_mask
      /\ q.lowest_priority = p.lowest_priority /\ q.line = p.line
  BY <1>1, Zenon DEF ChipType
<1> HIDE DEF q
<1>4. Kept(p, q)
  BY <1>3, AlikeKept, Zenon
<1> QED  BY <1>2, <1>3, <1>4, UpdateMoves, Zenon DEF p

\* The mode of the automatic end of interrupt counts at the next acknowledge.
LEMMA RotateOnAutoEOIMoves ==
  ASSUME IInv, NEW c \in Chip, NEW on \in BOOLEAN, RotateOnAutoEOI(c, on)
  PROVE  Moves
<1> DEFINE p == pic[c]
           q == [p EXCEPT !.rotate_on_autoeoi = on]
<1>1. p \in ChipType
  BY Zenon DEF IInv, Sound
<1>2. pic' = [pic EXCEPT ![c] = q]
  BY Zenon DEF RotateOnAutoEOI
<1> HIDE DEF p
<1>3. /\ q.irr = p.irr /\ q.imr = p.imr /\ q.isr = p.isr /\ q.INT = p.INT
      /\ q.irq = p.irq /\ q.special_mask = p.special_mask
      /\ q.lowest_priority = p.lowest_priority /\ q.line = p.line
  BY <1>1, Zenon DEF ChipType
<1> HIDE DEF q
<1>4. Kept(p, q)
  BY <1>3, AlikeKept, Zenon
<1> QED  BY <1>2, <1>3, <1>4, UpdateMoves, Zenon DEF p

\* So do the edge/level registers.
LEMMA SetELCRMoves ==
  ASSUME IInv, NEW c \in Chip, NEW pins \in SUBSET Pin, SetELCR(c, pins)
  PROVE  Moves
<1> DEFINE p == pic[c]
           q == [p EXCEPT !.elcr = pins]
<1>1. p \in ChipType
  BY Zenon DEF IInv, Sound
<1>2. pic' = [pic EXCEPT ![c] = q]
  BY Zenon DEF SetELCR
<1> HIDE DEF p
<1>3. /\ q.irr = p.irr /\ q.imr = p.imr /\ q.isr = p.isr /\ q.INT = p.INT
      /\ q.irq = p.irq /\ q.special_mask = p.special_mask
      /\ q.lowest_priority = p.lowest_priority /\ q.line = p.line
  BY <1>1, Zenon DEF ChipType
<1> HIDE DEF q
<1>4. Kept(p, q)
  BY <1>3, AlikeKept, Zenon
<1> QED  BY <1>2, <1>3, <1>4, UpdateMoves, Zenon DEF p

\* The words of an initialization.
LEMMA InitWordMoves ==
  ASSUME IInv, NEW c \in Chip, NEW auto_eoi \in BOOLEAN, InitWord(c, auto_eoi)
  PROVE  Moves
<1> DEFINE p == pic[c]
<1>1. p \in ChipType /\ pic \in [Chip -> ChipType]
  BY Zenon DEF IInv, TypeOK, Sound
<1>2. PICK e, a : pic' = [pic EXCEPT ![c] = [p EXCEPT !.expects = e, !.auto_eoi = a]]
  <2>1. ASSUME NEW e
        PROVE  [pic EXCEPT ![c].expects = e]
                 = [pic EXCEPT ![c] = [p EXCEPT !.expects = e, !.auto_eoi = p.auto_eoi]]
    BY <1>1, Zenon DEF ChipType
  <2>2. CASE pic' = [pic EXCEPT ![c].expects = 3]
    <3>1. pic' = [pic EXCEPT ![c] = [p EXCEPT !.expects = 3, !.auto_eoi = p.auto_eoi]]
      BY <2>1, <2>2
    <3> QED  BY <3>1
  <2>3. CASE pic' = [pic EXCEPT ![c].expects = IF pic[c].requires_4 THEN 4 ELSE NotInInit]
    <3> DEFINE w == IF pic[c].requires_4 THEN 4 ELSE NotInInit
    <3>1. pic' = [pic EXCEPT ![c].expects = w]
      BY <2>3
    <3> HIDE DEF w
    <3>2. pic' = [pic EXCEPT ![c] = [p EXCEPT !.expects = w, !.auto_eoi = p.auto_eoi]]
      BY <2>1, <3>1
    <3> QED  BY <3>2
  <2>4. CASE pic' = [pic EXCEPT ![c].expects = NotInInit, ![c].auto_eoi = auto_eoi]
    BY <1>1, <2>4, Zenon
  <2> QED  BY <2>2, <2>3, <2>4, Zenon DEF InitWord
<1> DEFINE q == [p EXCEPT !.expects = e, !.auto_eoi = a]
<1> HIDE DEF p
<1>3. /\ q.irr = p.irr /\ q.imr = p.imr /\ q.isr = p.isr /\ q.INT = p.INT
      /\ q.irq = p.irq /\ q.special_mask = p.special_mask
      /\ q.lowest_priority = p.lowest_priority /\ q.line = p.line
  BY <1>1, Zenon DEF ChipType
<1> HIDE DEF q
<1>4. Kept(p, q)
  BY <1>3, AlikeKept, Zenon
<1> QED  BY <1>2, <1>3, <1>4, UpdateMoves, Zenon DEF p, q

\* Without special mask mode a chip may signal no more than with it.
LEMMA CancelSpecialMaskMoves ==
  ASSUME IInv, NEW c \in Chip, CancelSpecialMask(c)
  PROVE  Moves
<1> DEFINE p == pic[c]
           q == [p EXCEPT !.special_mask = FALSE]
<1>1. Sound(p)
  BY Zenon DEF IInv
<1>2. pic' = [pic EXCEPT ![c] = q]
  BY Zenon DEF CancelSpecialMask
<1> HIDE DEF p
<1>3. /\ q \in ChipType /\ q.irr = p.irr /\ q.imr = p.imr /\ q.isr = p.isr
      /\ q.INT = p.INT /\ q.irq = p.irq /\ q.special_mask = FALSE
      /\ q.lowest_priority = p.lowest_priority /\ q.line = p.line
  BY <1>1, Zenon DEF Sound, ChipType
<1> HIDE DEF q
<1>4. Eligible(q) \subseteq Eligible(p)
  <2>1. CASE p.special_mask
    <3>1. ASSUME NEW i, i \in Eligible(q)
          PROVE  i \in Eligible(p)
      <4>1. i \notin q.isr
        BY <1>3, <3>1, EligibleOutOfService, Zenon
      <4>2. i \in q.irr \ q.imr
        BY <3>1, Zenon DEF Eligible
      <4> QED  BY <1>3, <2>1, <4>1, <4>2, Zenon DEF Eligible
    <3> QED  BY <3>1, Zenon
  <2>2. CASE ~p.special_mask
    <3>1. p.special_mask = q.special_mask
      BY <1>1, <1>3, <2>2, Zenon DEF Sound, ChipType
    <3>2. q.irr \ q.imr \subseteq p.irr \ p.imr
      BY <1>3, Zenon
    <3> QED  BY <1>3, <3>1, <3>2, EligibleFrom, Zenon
  <2> QED  BY <2>1, <2>2
<1>5. (q.INT => p.INT /\ q.irq = p.irq) /\ (p.INT => q.INT \/ q.irr \ q.imr = {})
  BY <1>3, Zenon
<1>6. Kept(p, q)
  BY <1>4, <1>5, FewerRequestsKept, Zenon
<1> QED  BY <1>2, <1>3, <1>6, UpdateMoves, Zenon DEF p

\* The commands that are followed by a service.
LEMMA SetSpecialMaskMoves ==
  ASSUME IInv, NEW c \in Chip, SetSpecialMask(c)
  PROVE  Moves
<1> DEFINE h == pic[c]
           q == [h EXCEPT !.special_mask = TRUE]
<1>1. Sound(pic[c])
  BY Zenon DEF IInv
<1>2. ServiceAs(c, q)
  BY Zenon DEF SetSpecialMask
<1>3. /\ Sound(h) /\ h.INT = pic[c].INT /\ h.irq = pic[c].irq
      /\ h.line = pic[c].line /\ h.irr = pic[c].irr
  BY <1>1
<1> HIDE DEF h
<1>5. /\ Sound(q) /\ q.INT = h.INT /\ q.irq = h.irq
      /\ q.line = h.line /\ q.irr = h.irr
  BY <1>3, Zenon DEF Sound, ChipType
<1> HIDE DEF q
<1>6. c = "master" => /\ Cascade \in q.line <=> Cascade \in pic[c].line
                      /\ Cascade \in pic[c].irr => Cascade \in q.irr
  BY <1>3, <1>5, Zenon
<1>7. q.INT = pic[c].INT /\ q.irq = pic[c].irq
  BY <1>3, <1>5, Zenon
<1> QED  BY <1>2, <1>5, <1>6, <1>7, ServiceAsMoves, Zenon

\* A new mask may let a request through: the chip is serviced.
LEMMA WriteMaskMoves ==
  ASSUME IInv, NEW c \in Chip, NEW mask \in SUBSET Pin, WriteMask(c, mask)
  PROVE  Moves
<1> DEFINE h == pic[c]
           q == [h EXCEPT !.imr = mask]
<1>1. Sound(pic[c])
  BY Zenon DEF IInv
<1>2. ServiceAs(c, q)
  BY Zenon DEF WriteMask
<1>3. /\ Sound(h) /\ h.INT = pic[c].INT /\ h.irq = pic[c].irq
      /\ h.line = pic[c].line /\ h.irr = pic[c].irr
  BY <1>1
<1> HIDE DEF h
<1>5. /\ Sound(q) /\ q.INT = h.INT /\ q.irq = h.irq
      /\ q.line = h.line /\ q.irr = h.irr
  BY <1>3, Zenon DEF Sound, ChipType
<1> HIDE DEF q
<1>6. c = "master" => /\ Cascade \in q.line <=> Cascade \in pic[c].line
                      /\ Cascade \in pic[c].irr => Cascade \in q.irr
  BY <1>3, <1>5, Zenon
<1>7. q.INT = pic[c].INT /\ q.irq = pic[c].irq
  BY <1>3, <1>5, Zenon
<1> QED  BY <1>2, <1>5, <1>6, <1>7, ServiceAsMoves, Zenon

\* An end of interrupt may, too: of a named pin,
LEMMA SpecificEOIMoves ==
  ASSUME IInv, NEW c \in Chip, NEW i \in Pin, SpecificEOI(c, i)
  PROVE  Moves
<1> DEFINE h == pic[c]
           q == [h EXCEPT !.isr = @ \ {i}]
<1>1. Sound(pic[c])
  BY Zenon DEF IInv
<1>2. ServiceAs(c, q)
  BY Zenon DEF SpecificEOI
<1>3. /\ Sound(h) /\ h.INT = pic[c].INT /\ h.irq = pic[c].irq
      /\ h.line = pic[c].line /\ h.irr = pic[c].irr
  BY <1>1
<1> HIDE DEF h
<1>5. /\ Sound(q) /\ q.INT = h.INT /\ q.irq = h.irq
      /\ q.line = h.line /\ q.irr = h.irr
  BY <1>3, Zenon DEF Sound, ChipType
<1> HIDE DEF q
<1>6. c = "master" => /\ Cascade \in q.line <=> Cascade \in pic[c].line
                      /\ Cascade \in pic[c].irr => Cascade \in q.irr
  BY <1>3, <1>5, Zenon
<1>7. q.INT = pic[c].INT /\ q.irq = pic[c].irq
  BY <1>3, <1>5, Zenon
<1> QED  BY <1>2, <1>5, <1>6, <1>7, ServiceAsMoves, Zenon

\* of a named pin that becomes the lowest,
LEMMA SpecificRotateEOIMoves ==
  ASSUME IInv, NEW c \in Chip, NEW i \in Pin, SpecificRotateEOI(c, i)
  PROVE  Moves
<1> DEFINE h == pic[c]
           q == [h EXCEPT !.isr = @ \ {i}, !.lowest_priority = i]
<1>1. Sound(pic[c])
  BY Zenon DEF IInv
<1>2. ServiceAs(c, q)
  BY Zenon DEF SpecificRotateEOI
<1>3. /\ Sound(h) /\ h.INT = pic[c].INT /\ h.irq = pic[c].irq
      /\ h.line = pic[c].line /\ h.irr = pic[c].irr
  BY <1>1
<1> HIDE DEF h
<1>5. /\ Sound(q) /\ q.INT = h.INT /\ q.irq = h.irq
      /\ q.line = h.line /\ q.irr = h.irr
  BY <1>3, Zenon DEF Sound, ChipType
<1> HIDE DEF q
<1>6. c = "master" => /\ Cascade \in q.line <=> Cascade \in pic[c].line
                      /\ Cascade \in pic[c].irr => Cascade \in q.irr
  BY <1>3, <1>5, Zenon
<1>7. q.INT = pic[c].INT /\ q.irq = pic[c].irq
  BY <1>3, <1>5, Zenon
<1> QED  BY <1>2, <1>5, <1>6, <1>7, ServiceAsMoves, Zenon

\* of the highest in service,
LEMMA EOIMoves ==
  ASSUME IInv, NEW c \in Chip, EOI(c)
  PROVE  Moves
<1> DEFINE h == HighestCleared(pic[c])
           q == h
<1>1. Sound(pic[c])
  BY Zenon DEF IInv
<1>2. ServiceAs(c, q)
  BY Zenon DEF EOI
<1>3. /\ Sound(h) /\ h.INT = pic[c].INT /\ h.irq = pic[c].irq
      /\ h.line = pic[c].line /\ h.irr = pic[c].irr
  BY <1>1, HighestClearedSound, HighestClearedChoice, Zenon
<1> HIDE DEF h
<1>5. /\ Sound(q) /\ q.INT = h.INT /\ q.irq = h.irq
      /\ q.line = h.line /\ q.irr = h.irr
  BY <1>3, Zenon DEF Sound, ChipType
<1> HIDE DEF q
<1>6. c = "master" => /\ Cascade \in q.line <=> Cascade \in pic[c].line
                      /\ Cascade \in pic[c].irr => Cascade \in q.irr
  BY <1>3, <1>5, Zenon
<1>7. q.INT = pic[c].INT /\ q.irq = pic[c].irq
  BY <1>3, <1>5, Zenon
<1> QED  BY <1>2, <1>5, <1>6, <1>7, ServiceAsMoves, Zenon

\* of the highest, turning the order,
LEMMA RotateEOIMoves ==
  ASSUME IInv, NEW c \in Chip, RotateEOI(c)
  PROVE  Moves
<1> DEFINE h == HighestCleared(pic[c])
           q == [h EXCEPT !.lowest_priority = (@ + 1) % PinCount]
<1>1. Sound(pic[c])
  BY Zenon DEF IInv
<1>2. ServiceAs(c, q)
  BY Zenon DEF RotateEOI
<1>3. /\ Sound(h) /\ h.INT = pic[c].INT /\ h.irq = pic[c].irq
      /\ h.line = pic[c].line /\ h.irr = pic[c].irr
  BY <1>1, HighestClearedSound, HighestClearedChoice, Zenon
<1> HIDE DEF h
<1>4. (h.lowest_priority + 1) % PinCount \in Pin
  <2>1. h.lowest_priority \in Pin
    BY <1>3, Zenon DEF Sound, ChipType
  <2> QED  BY <2>1, ConstantsAssumption, SMT DEF Pin
<1>5. /\ Sound(q) /\ q.INT = h.INT /\ q.irq = h.irq
      /\ q.line = h.line /\ q.irr = h.irr
  BY <1>3, <1>4, Zenon DEF Sound, ChipType
<1> HIDE DEF q
<1>6. c = "master" => /\ Cascade \in q.line <=> Cascade \in pic[c].line
                      /\ Cascade \in pic[c].irr => Cascade \in q.irr
  BY <1>3, <1>5, Zenon
<1>7. q.INT = pic[c].INT /\ q.irq = pic[c].irq
  BY <1>3, <1>5, Zenon
<1> QED  BY <1>2, <1>5, <1>6, <1>7, ServiceAsMoves, Zenon

\* or the one that a polled read implies.
LEMMA PolledReadMoves ==
  ASSUME IInv, NEW c \in Chip, PolledRead(c)
  PROVE  Moves
<1> DEFINE h == HighestCleared(pic[c])
           q == [h EXCEPT !.polled = FALSE]
<1>1. Sound(pic[c])
  BY Zenon DEF IInv
<1>2. ServiceAs(c, q)
  BY Zenon DEF PolledRead
<1>3. /\ Sound(h) /\ h.INT = pic[c].INT /\ h.irq = pic[c].irq
      /\ h.line = pic[c].line /\ h.irr = pic[c].irr
  BY <1>1, HighestClearedSound, HighestClearedChoice, Zenon
<1> HIDE DEF h
<1>5. /\ Sound(q) /\ q.INT = h.INT /\ q.irq = h.irq
      /\ q.line = h.line /\ q.irr = h.irr
  BY <1>3, Zenon DEF Sound, ChipType
<1> HIDE DEF q
<1>6. c = "master" => /\ Cascade \in q.line <=> Cascade \in pic[c].line
                      /\ Cascade \in pic[c].irr => Cascade \in q.irr
  BY <1>3, <1>5, Zenon
<1>7. q.INT = pic[c].INT /\ q.irq = pic[c].irq
  BY <1>3, <1>5, Zenon
<1> QED  BY <1>2, <1>5, <1>6, <1>7, ServiceAsMoves, Zenon

\* A command that sets the order of priorities can strand a request, and
\* nothing else.
LEMMA SetLowestPriorityMoves ==
  ASSUME IInv, NEW c \in Chip, NEW i \in Pin, SetLowestPriority(c, i)
  PROVE  /\ \A d \in Chip : Nested(pic[d], pic'[d])
         /\ \A d \in Chip \ {c} : Kept(pic[d], pic'[d])
         /\ ChipsAgree => ChipsAgree'
<1> DEFINE p == pic[c]
           q == [p EXCEPT !.lowest_priority = i]
<1>1. p \in ChipType /\ pic \in [Chip -> ChipType]
  BY Zenon DEF IInv, TypeOK, Sound
<1>2. pic' = [pic EXCEPT ![c] = q]
  BY Zenon DEF SetLowestPriority
<1>3. pic'[c] = q /\ \A d \in Chip \ {c} : pic'[d] = pic[d]
  BY <1>1, <1>2, Zenon
<1>4. q.INT = p.INT /\ q.irq = p.irq /\ q.irr = p.irr /\ q.line = p.line
  BY <1>1, Zenon DEF ChipType
<1> HIDE DEF q
<1>5. \A d \in Chip : /\ pic'[d].INT = pic[d].INT
                     /\ pic'[d].irq = pic[d].irq
                     /\ pic'[d].line = pic[d].line
                     /\ pic'[d].irr = pic[d].irr
  BY <1>3, <1>4, Zenon
<1>6. \A d \in Chip : Nested(pic[d], pic'[d])
  BY <1>5, Zenon DEF Nested
<1>7. \A d \in Chip \ {c} : Kept(pic[d], pic'[d])
  BY <1>3, <1>6, Zenon DEF Kept
<1>8. ChipsAgree => ChipsAgree'
  BY <1>5, Zenon DEF ChipsAgree, Chip
<1> QED  BY <1>6, <1>7, <1>8

\* An initialization leaves no request; it may leave the master's cascade pin,
\* or the slave's signal, without its counterpart.
LEMMA InitCommandMoves ==
  ASSUME IInv, NEW c \in Chip, NEW requires_4 \in BOOLEAN, InitCommand(c, requires_4)
  PROVE  \A d \in Chip : Kept(pic[d], pic'[d])
<1> DEFINE p == pic[c]
           q == [p EXCEPT !.expects = 2, !.requires_4 = requires_4,
                          !.imr = {}, !.isr = {}, !.irr = {}, !.INT = FALSE,
                          !.lowest_priority = PinCount - 1,
                          !.auto_eoi = FALSE, !.rotate_on_autoeoi = FALSE]
<1>1. p \in ChipType /\ pic \in [Chip -> ChipType]
  BY Zenon DEF IInv, TypeOK, Sound
<1>2. pic' = [pic EXCEPT ![c] = q]
  BY Zenon DEF InitCommand
<1>3. pic'[c] = q /\ \A d \in Chip \ {c} : pic'[d] = pic[d]
  BY <1>1, <1>2, Zenon
<1>4. q.INT = FALSE /\ q.irr = {}
  BY <1>1, Zenon DEF ChipType
<1> HIDE DEF p, q
<1>5. Eligible(q) = {}
  BY <1>4, Zenon DEF Eligible
<1>6. Kept(p, q)
  BY <1>4, <1>5, Zenon DEF Kept, Nested, Settled
<1>7. \A d \in Chip \ {c} : Kept(pic[d], pic'[d])
  BY <1>3, Zenon DEF Kept, Nested
<1> QED  BY <1>3, <1>6, <1>7, Zenon DEF p

\* A device's line goes up: its chip is serviced.
LEMMA RaiseIRQMoves ==
  ASSUME IInv, NEW c \in Chip, NEW i \in Pin, <<c, i>> # <<"master", Cascade>>, RaiseIRQ(c, i)
  PROVE  Moves
<1> DEFINE p == pic[c]
           q == Requested(p, i)
<1>1. Sound(p)
  BY Zenon DEF IInv
<1>2. ServiceAs(c, q)
  <2>1. CASE c = "master"
    <3>1. Raised(p, i) = Service(q)
      BY Zenon DEF Raised, RaiseIRQ
    <3>2. Become([pic EXCEPT !["master"] = Raised(pic["master"], i)])
      BY <2>1, Zenon DEF RaiseIRQ
    <3> QED  BY <2>1, <3>1, <3>2, Zenon DEF ServiceAs
  <2>2. CASE c # "master"
    <3>1. Become(SlaveServiced(pic["master"], Requested(pic["slave"], i))) /\ c = "slave"
      BY <2>2, Zenon DEF RaiseIRQ, Chip
    <3> QED  BY <2>2, <3>1, Zenon DEF ServiceAs
  <2> QED  BY <2>1, <2>2
<1>3. Sound(q) /\ q.INT = p.INT /\ q.line = p.line \cup {i} /\ q.irr = p.irr \cup {i}
  BY <1>1, RequestedSound, Zenon
<1>4. q.irq = p.irq
  <2>1. p.line \cup {i} \in SUBSET Pin /\ p.irr \cup {i} \in SUBSET Pin
    BY <1>1, Zenon DEF Sound, ChipType
  <2> QED  BY <1>1, <2>1, Zenon DEF Sound, ChipType, Requested
<1> HIDE DEF q
<1>5. c = "master" => Cascade # i
  BY Zenon
<1>6. c = "master" => /\ Cascade \in q.line <=> Cascade \in p.line
                      /\ Cascade \in p.irr => Cascade \in q.irr
  BY <1>3, <1>5, Zenon
<1> QED  BY <1>2, <1>3, <1>4, <1>6, ServiceAsMoves, Zenon DEF p

\* A device's line goes down: a signal of the slave that has lost its last
\* request takes the cascade line with it.
LEMMA LowerIRQMoves ==
  ASSUME IInv, NEW c \in Chip, NEW i \in Pin, <<c, i>> # <<"master", Cascade>>, LowerIRQ(c, i)
  PROVE  Moves
<1> DEFINE p == Lowered(pic[c], i)
           quiet == p.irr \ p.imr = {}
           m == IF c = "master" THEN p
                ELSE IF quiet THEN Lowered(pic["master"], Cascade) ELSE pic["master"]
           s == IF c = "slave" THEN p ELSE pic["slave"]
<1>0. /\ "master" \in Chip /\ "slave" \in Chip /\ "master" # "slave"
      /\ Sound(pic["master"]) /\ Sound(pic["slave"]) /\ Sound(pic[c])
      /\ Cascade \in Pin
  BY ConstantsAssumption DEF Chip, IInv
<1>1. pic' = [master |-> m, slave |-> s] /\ i \in pic[c].line
  BY Zenon DEF LowerIRQ
<1>2. /\ Sound(p) /\ Kept(pic[c], p)
      /\ p.line = pic[c].line \ {i}
      /\ p.irr = pic[c].irr \ {i}
      /\ p.imr = pic[c].imr
      /\ p.INT = (pic[c].INT /\ ~quiet)
  <2>1. /\ Sound(p)
        /\ p.line = pic[c].line \ {i}
        /\ p.irr = pic[c].irr \ {i}
        /\ p.INT = (pic[c].INT /\ (pic[c].irr \ {i}) \ pic[c].imr # {})
        /\ p.imr = pic[c].imr
    <3>1. i \in Pin /\ Sound(pic[c]) /\ i \in pic[c].line
      BY <1>0, <1>1
    <3>2. /\ Sound(Lowered(pic[c], i))
          /\ i \in pic[c].line => /\ Lowered(pic[c], i).line = pic[c].line \ {i}
                                 /\ Lowered(pic[c], i).irr = pic[c].irr \ {i}
                                 /\ Lowered(pic[c], i).INT = (pic[c].INT /\ (pic[c].irr \ {i}) \ pic[c].imr # {})
                                 /\ Lowered(pic[c], i).imr = pic[c].imr
      BY ONLY <3>1, LoweredSound
    <3> QED  BY ONLY <3>1, <3>2, Zenon
  <2>2. Kept(pic[c], p)
    BY <1>0, LoweredKept, Zenon
  <2> HIDE DEF p
  <2> QED  BY <2>1, <2>2, Zenon
<1>3. /\ Sound(Lowered(pic["master"], Cascade))
      /\ Kept(pic["master"], Lowered(pic["master"], Cascade))
      /\ Cascade \notin Lowered(pic["master"], Cascade).line
  <2>1. /\ Sound(Lowered(pic["master"], Cascade))
        /\ Cascade \notin pic["master"].line
             => Lowered(pic["master"], Cascade) = pic["master"]
        /\ Cascade \in pic["master"].line
             => Lowered(pic["master"], Cascade).line = pic["master"].line \ {Cascade}
    BY ONLY <1>0, LoweredSound
  <2>2. Kept(pic["master"], Lowered(pic["master"], Cascade))
    BY <1>0, LoweredKept, Zenon
  <2> QED  BY <2>1, <2>2, Zenon
<1>4. Kept(pic["master"], pic["master"]) /\ Kept(pic["slave"], pic["slave"])
  BY Zenon DEF Kept, Nested
<1> HIDE DEF p
<1>5. CASE c = "master"
  <2>1. m = p /\ s = pic["slave"]
    BY <1>0, <1>5
  <2>2. pic'["master"] = p /\ pic'["slave"] = pic["slave"]
    BY <1>0, <1>1, <1>2, <2>1, PairOfChips, Zenon DEF Sound
  <2>3. Cascade # i
    BY <1>5, Zenon
  <2>4. Agree(pic["master"], pic["slave"]) => Agree(pic'["master"], pic'["slave"])
    BY <1>2, <1>5, <2>2, <2>3, Zenon DEF Agree
  <2> QED  BY <1>2, <1>4, <1>5, <2>2, <2>4, MovesFrom, Zenon
<1>6. CASE c = "slave"
  <2>1. m = (IF quiet THEN Lowered(pic["master"], Cascade) ELSE pic["master"]) /\ s = p
    BY <1>0, <1>6
  <2> HIDE DEF m, s
  <2>2. Sound(m) /\ Kept(pic["master"], m)
    BY <1>0, <1>3, <1>4, <2>1, Zenon
  <2>3. pic'["master"] = m /\ pic'["slave"] = p
    BY <1>1, <1>2, <2>1, <2>2, PairOfChips, Zenon DEF Sound
  <2>4. Agree(pic["master"], pic["slave"]) => Agree(m, p)
    <3>1. CASE quiet
      BY <1>2, <1>3, <2>1, <3>1, Zenon DEF Agree
    <3>2. CASE ~quiet
      BY <1>2, <1>6, <2>1, <3>2, Zenon DEF Agree
    <3> QED  BY <3>1, <3>2
  <2> QED  BY <1>2, <1>6, <2>2, <2>3, <2>4, MovesFrom, Zenon
<1> QED  BY <1>5, <1>6, Zenon DEF Chip

\* The CPU acknowledges: the slave's signal and the cascade line go down
\* together, and come back together.
LEMMA IACMoves ==
  ASSUME IInv, IAC
  PROVE  Moves
<1> DEFINE m == Acknowledged(pic["master"])
           s == Acknowledged(pic["slave"])
           lowered == [m EXCEPT !.line = @ \ {Cascade}]
           both == SlaveServiced(lowered, s)
           new == IF pic["master"].irq = Cascade THEN both ELSE [pic EXCEPT !["master"] = m]
<1>0. /\ "master" \in Chip /\ "slave" \in Chip /\ "master" # "slave"
      /\ Sound(pic["master"]) /\ Sound(pic["slave"])
      /\ Cascade \in Pin
      /\ Cascade \notin pic["master"].elcr
      /\ pic["master"].INT
      /\ pic \in [Chip -> ChipType]
  BY ConstantsAssumption DEF Chip, IInv, TypeOK, CascadeOnEdge, IntrFollowsMaster, IAC
<1>1. pic' = [new EXCEPT !["master"] = Service(new["master"])]
  BY Zenon DEF IAC
<1>2. /\ Sound(m)
      /\ m.INT = FALSE
      /\ m.line = pic["master"].line
      /\ m.irr = IF pic["master"].irq \in pic["master"].elcr
                 THEN pic["master"].irr ELSE pic["master"].irr \ {pic["master"].irq}
  BY <1>0, AcknowledgedSound, Zenon
<1>3. Sound(s) /\ s.INT = FALSE
  BY <1>0, AcknowledgedSound, Zenon
<1> HIDE DEF m, s
<1>4. CASE pic["master"].irq = Cascade
  <2>1. m.irr \subseteq m.line \ {Cascade}
    BY <1>0, <1>2, <1>4, Zenon DEF Sound
  <2>2. /\ lowered \in ChipType
        /\ lowered.irr = m.irr /\ lowered.line = m.line \ {Cascade}
        /\ lowered.INT = m.INT
    BY <1>2, Zenon DEF Sound, ChipType
  <2> HIDE DEF lowered
  <2>3. Sound(lowered)
    BY <1>2, <2>1, <2>2, Zenon DEF Sound
  <2>4. Agree(lowered, s)
    BY <1>3, <2>2, Zenon DEF Agree
  <2>5. /\ both \in [Chip -> ChipType]
        /\ \A d \in Chip : Sound(both[d])
        /\ both["slave"] = Service(s)
        /\ Agree(both["master"], both["slave"])
    BY <1>3, <2>3, <2>4, SlaveServicedSound, SlaveServicedMoves, Zenon
  <2> HIDE DEF both
  <2>6. pic' = [both EXCEPT !["master"] = Service(both["master"])]
    BY <1>1, <1>4, Zenon
  <2>7. pic'["master"] = Service(both["master"]) /\ pic'["slave"] = Service(s)
    BY <1>0, <2>5, <2>6, Zenon
  <2>8. /\ Service(both["master"]).line = both["master"].line
        /\ Service(both["master"]).irr = both["master"].irr
    BY <1>0, <2>5, ServiceSound, Zenon
  <2>9. Agree(pic'["master"], pic'["slave"])
    BY <2>5, <2>7, <2>8, Zenon DEF Agree
  <2>10. Kept(pic["slave"], Service(s))
    BY <1>3, ServiceKept, Zenon
  <2>11. Kept(pic["master"], Service(both["master"]))
    <3> DEFINE b == both["master"]
    <3>1. Sound(b) /\ Settled(Service(b)) /\ (b.INT => Service(b) = b)
      BY <1>0, <2>5, ServiceSettles, ServiceSound, Zenon
    <3>2. Service(b).INT /\ Service(b).irq # Cascade /\ ~Service(b).special_mask
            => AboveService(Service(b))
      <4>1. ~b.INT => Kept(lowered, Service(b))
        BY <3>1, ServiceKept, Zenon
      <4>2. Kept(lowered, b)
        BY <1>3, <2>3, SlaveServicedMoves, Zenon DEF both
      <4>3. ~lowered.INT
        BY <1>2, <2>2
      <4> HIDE DEF b
      <4> QED  BY <3>1, <4>1, <4>2, <4>3, Zenon DEF Kept, Nested
    <3> HIDE DEF b
    <3>3. Nested(pic["master"], Service(b))
      BY <1>4, <1>0, <3>2, Zenon DEF Nested
    <3> QED  BY <3>1, <3>3, Zenon DEF Kept, b
  <2> QED  BY <2>7, <2>9, <2>10, <2>11, MovesFrom, Zenon
<1>5. CASE pic["master"].irq # Cascade
  <2>1. new = [pic EXCEPT !["master"] = m]
    BY <1>5, Zenon
  <2>2. new["master"] = m /\ new["slave"] = pic["slave"] /\ new \in [Chip -> ChipType]
    BY <1>0, <1>2, <2>1, Zenon DEF Sound
  <2> HIDE DEF new
  <2>3. pic'["master"] = Service(m) /\ pic'["slave"] = pic["slave"]
    BY <1>0, <1>1, <2>2, Zenon
  <2>4. Service(m).line = m.line /\ Service(m).irr = m.irr
    BY <1>2, ServiceSound, Zenon
  <2>5. Cascade \in pic["master"].irr => Cascade \in m.irr
    BY <1>2, <1>5, Zenon
  <2>6. Agree(pic["master"], pic["slave"]) => Agree(pic'["master"], pic'["slave"])
    BY <1>2, <2>3, <2>4, <2>5, Zenon DEF Agree
  <2>7. Kept(pic["master"], Service(m))
    BY <1>2, ServiceKept, Zenon
  <2>8. Kept(pic["slave"], pic["slave"])
    BY Zenon DEF Kept, Nested
  <2> QED  BY <2>3, <2>6, <2>7, <2>8, MovesFrom, Zenon
<1> QED  BY <1>4, <1>5

-----------------------------------------------------------------------------
(* The action properties of the specification.                             *)

\* What any step does: the two exceptions are named.
StepMoves ==
  /\ \A c \in Chip : Nested(pic[c], pic'[c])
  /\ \A c \in Chip : \/ Settled(pic[c]) => Settled(pic'[c])
                     \/ \E i \in Pin : SetLowestPriority(c, i)
  /\ \/ ChipsAgree => ChipsAgree'
     \/ \E c \in Chip, requires_4 \in BOOLEAN : InitCommand(c, requires_4)

\* Each action is one of the cases above.
LEMMA EveryStepMoves ==
  ASSUME IInv, [Next]_vars
  PROVE  StepMoves
<1>0. Moves => StepMoves
  BY Zenon DEF Moves, StepMoves, Kept
<1>1. ASSUME NEW d \in Devices, RaiseIRQ(d[1], d[2]) \/ LowerIRQ(d[1], d[2])
      PROVE  StepMoves
  <2>1. d[1] \in Chip /\ d[2] \in Pin /\ <<d[1], d[2]>> # <<"master", Cascade>>
    BY ConstantsAssumption
  <2> QED  BY <1>0, <1>1, <2>1, RaiseIRQMoves, LowerIRQMoves
<1>2. CASE IAC
  BY <1>0, <1>2, IACMoves
<1>3. ASSUME NEW c \in Chip, NEW requires_4 \in BOOLEAN, InitCommand(c, requires_4)
      PROVE  StepMoves
  BY <1>3, InitCommandMoves, Zenon DEF StepMoves, Kept
<1>4. ASSUME NEW c \in Chip, NEW auto_eoi \in BOOLEAN, InitWord(c, auto_eoi)
      PROVE  StepMoves
  BY <1>0, <1>4, InitWordMoves
<1>5. ASSUME NEW c \in Chip, Poll(c) \/ PolledRead(c)
      PROVE  StepMoves
  BY <1>0, <1>5, PollMoves, PolledReadMoves
<1>6. ASSUME NEW c \in Chip, CancelSpecialMask(c) \/ SetSpecialMask(c)
      PROVE  StepMoves
  BY <1>0, <1>6, CancelSpecialMaskMoves, SetSpecialMaskMoves
<1>7. ASSUME NEW c \in Chip, NEW on \in BOOLEAN, RotateOnAutoEOI(c, on)
      PROVE  StepMoves
  BY <1>0, <1>7, RotateOnAutoEOIMoves
<1>8. ASSUME NEW c \in Chip, EOI(c) \/ RotateEOI(c)
      PROVE  StepMoves
  BY <1>0, <1>8, EOIMoves, RotateEOIMoves
<1>9. ASSUME NEW c \in Chip, NEW i \in Pin, SpecificEOI(c, i) \/ SpecificRotateEOI(c, i)
      PROVE  StepMoves
  BY <1>0, <1>9, SpecificEOIMoves, SpecificRotateEOIMoves
<1>10. ASSUME NEW c \in Chip, NEW i \in Pin, SetLowestPriority(c, i)
       PROVE  StepMoves
  BY <1>10, SetLowestPriorityMoves, Zenon DEF StepMoves, Kept
<1>11. ASSUME NEW m \in Masks, WriteMask(m[1], m[2])
       PROVE  StepMoves
  <2>1. m[1] \in Chip /\ m[2] \in SUBSET Pin
    BY ConstantsAssumption
  <2> QED  BY <1>0, <1>11, <2>1, WriteMaskMoves
<1>12. ASSUME NEW c \in Chip, NEW pins \in SUBSET Pin, SetELCR(c, pins)
       PROVE  StepMoves
  BY <1>0, <1>12, SetELCRMoves
<1>13. CASE UNCHANGED vars
  BY <1>13, Zenon DEF vars, StepMoves, Nested, Settled, ChipsAgree
<1> QED  BY <1>1, <1>2, <1>3, <1>4, <1>5, <1>6, <1>7, <1>8, <1>9, <1>10, <1>11, <1>12,
            <1>13, Zenon DEF Next

\* Only the set-priority command leaves a chip idle with a request that it may
\* signal.
THEOREM NoRequestStranded == Spec => OnlySetPriorityStrands
<1>1. IInv /\ [Next]_vars =>
        [\A c \in Chip :
           ~Stranded(c) /\ Stranded(c)' => \E i \in Pin : SetLowestPriority(c, i)]_vars
  <2> SUFFICES ASSUME IInv, [Next]_vars, NEW c \in Chip, ~Stranded(c), Stranded(c)'
               PROVE  \E i \in Pin : SetLowestPriority(c, i)
    BY Zenon
  <2>1. Settled(pic[c]) /\ ~Settled(pic'[c])
    BY Zenon DEF Stranded, Settled
  <2>2. StepMoves
    BY EveryStepMoves
  <2> QED  BY <2>1, <2>2, Zenon DEF StepMoves
<1> QED  BY <1>1, Invariance, PTL DEF Spec, OnlySetPriorityStrands

\* In normal nested mode a chip chooses a pin above everything in service.
THEOREM NestingIsKept == Spec => FullyNested
<1>1. IInv /\ [Next]_vars =>
        [\A c \in Chip : Chooses(c) /\ ~pic'[c].special_mask =>
           \A j \in pic'[c].isr : Rank(pic'[c], pic'[c].irq) < Rank(pic'[c], j)]_vars
  <2> SUFFICES ASSUME IInv, [Next]_vars, NEW c \in Chip, Chooses(c), ~pic'[c].special_mask
               PROVE  \A j \in pic'[c].isr : Rank(pic'[c], pic'[c].irq) < Rank(pic'[c], j)
    BY Zenon
  <2>1. StepMoves
    BY EveryStepMoves
  <2>2. Nested(pic[c], pic'[c])
    BY <2>1, Zenon DEF StepMoves
  <2> QED  BY <2>2, Zenon DEF Nested, Chooses, AboveService
<1> QED  BY <1>1, Invariance, PTL DEF Spec, FullyNested

\* Only an initialization of one of the chips makes the slave's signal and the
\* master's cascade pin disagree.
THEOREM CascadeIsKept == Spec => OnlyInitSeparates
<1>1. IInv /\ [Next]_vars =>
        [ChipsAgree /\ ~ChipsAgree' =>
           \E c \in Chip, requires_4 \in BOOLEAN : InitCommand(c, requires_4)]_vars
  <2> SUFFICES ASSUME IInv, [Next]_vars, ChipsAgree, ~ChipsAgree'
               PROVE  \E c \in Chip, requires_4 \in BOOLEAN : InitCommand(c, requires_4)
    BY Zenon
  <2>1. StepMoves
    BY EveryStepMoves
  <2> QED  BY <2>1, Zenon DEF StepMoves
<1> QED  BY <1>1, Invariance, PTL DEF Spec, OnlyInitSeparates
=============================================================================
