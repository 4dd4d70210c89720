--------------------------- MODULE ServicesProofs ---------------------------
(***************************************************************************)
(* Proofs about the services that MCServices composes, for all values of   *)
(* its constants: the classes over descriptors, signals and the clock, the *)
(* data log and Base64.                                                    *)
(***************************************************************************)
EXTENDS MCServices, FiniteSetTheorems, SequenceTheorems, WellFoundedInduction, TLAPS

-----------------------------------------------------------------------------
(* Each service takes the steps of its own module, or none.                *)

LEMMA OwnSteps ==
  ASSUME [MCNext]_allVars
  PROVE  /\ [Next]_vars
         /\ [Logger!Next]_loggerVars
         /\ [LogOf!Next]_logVars
         /\ [DescriptorOf!Next]_descriptorVars
         /\ [SignalOf!Next]_signalVars
         /\ [PacerOf!Next]_pacerVars
         /\ [TextOf!Next]_textVars
  BY DEF MCNext, allVars

LEMMA LeastOf ==
  ASSUME NEW S \in SUBSET Nat, S # {}
  PROVE  \E m \in S : \A n \in S : m <= n
<1>1. PICK m \in S : \A n \in S : ~(<<n, m>> \in OpToRel(<, Nat))
  BY NatLessThanWellFounded, WFMin
<1>2. \A n \in S : ~(n < m)
  BY <1>1 DEF OpToRel
<1> QED BY <1>2

-----------------------------------------------------------------------------
(* Signal.                                                                 *)

(* The disposition is the handler on top of the stack outside of a call,   *)
(* and inside of one the handler that is pushed or popped.                 *)
Disposed ==
  /\ call = SignalOf!Outside => disposition = SignalOf!OnTop(handlers)
  /\ call # SignalOf!Outside =>
       /\ call.of \in {"PushHandler", "PopHandler"}
       /\ call.handler \in Handlers /\ disposition = call.handler

SignalInv == handlers \in Seq(Handlers) /\ Disposed /\ SignalOf!TopIsCalled

LEMMA SignalInit == SignalOf!Init => SignalInv
  BY DEF SignalOf!Init, SignalInv, Disposed, SignalOf!TopIsCalled, SignalOf!OnTop

LEMMA DeliverIsRight ==
  ASSUME SignalInv, SignalOf!Deliver
  PROVE  SignalOf!TopIsCalled'
  BY DEF SignalInv, Disposed, SignalOf!Deliver, SignalOf!TopIsCalled, SignalOf!Tops

LEMMA SignalStep ==
  ASSUME SignalInv, [SignalOf!Next]_signalVars
  PROVE  SignalInv'
<1> USE DEF SignalInv, Disposed, SignalOf!TopIsCalled, SignalOf!Outside
<1>1. CASE SignalOf!Send
  BY <1>1, DeliverIsRight DEF SignalOf!Send
<1>2. CASE SignalOf!Block
  BY <1>2 DEF SignalOf!Block
<1>3. CASE SignalOf!Unblock
  BY <1>3, DeliverIsRight DEF SignalOf!Unblock
<1>4. CASE SignalOf!Wait
  BY <1>4 DEF SignalOf!Wait
<1>5. CASE \E h \in Handlers : SignalOf!PushHandler(h)
  BY <1>5 DEF SignalOf!PushHandler
<1>6. CASE SignalOf!PushReturns
  <2>1. handlers' = <<disposition>> \o handlers /\ disposition \in Handlers
    BY <1>6 DEF SignalOf!PushReturns
  <2>2. handlers' \in Seq(Handlers) /\ SignalOf!OnTop(handlers') = disposition
    BY <2>1 DEF SignalOf!OnTop
  <2> QED BY <1>6, <2>2 DEF SignalOf!PushReturns
<1>7. CASE SignalOf!PopHandler
  BY <1>7 DEF SignalOf!PopHandler, SignalOf!OnTop, SignalOf!Calling
<1>8. CASE SignalOf!PopReturns
  BY <1>8 DEF SignalOf!PopReturns
<1>9. CASE UNCHANGED signalVars
  BY <1>9 DEF signalVars
<1> QED BY <1>1, <1>2, <1>3, <1>4, <1>5, <1>6, <1>7, <1>8, <1>9 DEF SignalOf!Next

-----------------------------------------------------------------------------
(* Descriptor.                                                             *)

Fd == 0 .. Fds - 1

(* What OwnedOnce says, without counting.                                  *)
Single(d) ==
  /\ \A o, p \in Objects : fd[o] = d /\ fd[p] = d => o = p
  /\ d \in held => \A o \in Objects : fd[o] # d
  /\ d \in open <=> d \in held \/ \E o \in Objects : fd[o] = d

DescriptorInv ==
  /\ open \subseteq Fd /\ held \subseteq Fd /\ failed \subseteq Fd
  /\ fd \in [Objects -> Fd \cup {DescriptorOf!None, DescriptorOf!Gone}]
  /\ \A d \in Fd \ failed : Single(d)

LEMMA FdIs == Fd \subseteq Nat /\ DescriptorOf!None \notin Fd /\ DescriptorOf!Gone \notin Fd
              /\ DescriptorOf!None # DescriptorOf!Gone /\ (\A d \in Fd : d >= 0)
  BY ServicesAssumption DEF Fd, DescriptorOf!None, DescriptorOf!Gone

LEMMA DescriptorInit == DescriptorOf!Init => DescriptorInv
  BY FdIs DEF DescriptorOf!Init, DescriptorInv, Single

LEMMA MinIs ==
  ASSUME NEW S \in SUBSET Fd, S # {}
  PROVE  DescriptorOf!Min(S) \in S
  BY FdIs, LeastOf DEF DescriptorOf!Min

(* open and dup give a descriptor that is free, or none.                   *)
LEMMA LowestIs ==
  ASSUME DescriptorOf!Free # {}
  PROVE  DescriptorOf!Lowest \in Fd \ open
  BY MinIs DEF DescriptorOf!Lowest, DescriptorOf!Free, Fd

LEMMA DupIs ==
  ASSUME NEW source, NEW avail \in SUBSET Fd
  PROVE  DescriptorOf!Dup(source, avail) \in avail \cup {DescriptorOf!None}
  BY MinIs DEF DescriptorOf!Dup

(* A close that does not fail leaves the object without a descriptor.      *)
LEMMA ClosingIs ==
  ASSUME DescriptorInv, NEW o \in Objects, NEW c \in DescriptorOf!Closings(o)
  PROVE  /\ c.open \subseteq open /\ open \ {fd[o]} \subseteq c.open
         /\ failed \subseteq c.failed /\ c.failed \subseteq Fd /\ c.failed \subseteq failed \cup {fd[o]}
         /\ \/ fd[o] \notin Fd /\ c.open = open /\ c.fd = fd[o]
            \/ fd[o] \in Fd /\ c.open = open \ {fd[o]} /\ c.fd = DescriptorOf!None
            \/ fd[o] \in c.failed /\ c.fd = fd[o]
<1>1. CASE fd[o] \notin open
  <2>1. c.open = open /\ c.failed = failed /\ c.fd = fd[o]
    BY <1>1 DEF DescriptorOf!Closings
  <2>2. fd[o] \in Fd => fd[o] \in failed
    BY <1>1 DEF DescriptorInv, Single
  <2> QED BY <2>1, <2>2 DEF DescriptorInv
<1>2. CASE fd[o] \in open
  BY <1>2 DEF DescriptorInv, DescriptorOf!Closings
<1> QED BY <1>1, <1>2

(* What becomes of descriptor e when object o has d in place of fd[o]: it  *)
(* is another one, is kept, given up, or taken.                            *)
Passed(o, d, e) ==
  \/ fd[o] # e /\ d # e /\ (e \in held' <=> e \in held) /\ (e \in open' <=> e \in open)
  \/ fd[o] = e /\ d = e /\ (e \in held' <=> e \in held) /\ (e \in open' <=> e \in open)
  \/ fd[o] = e /\ d # e /\ (e \in held' <=> e \in open')
  \/ fd[o] # e /\ d = e /\ e \notin held' /\ e \in open' /\ (e \in held \/ e \notin open)

LEMMA OnePasses ==
  ASSUME DescriptorInv, NEW o \in Objects,
         NEW d \in Fd \cup {DescriptorOf!None, DescriptorOf!Gone}, fd' = [fd EXCEPT ![o] = d],
         open' \subseteq Fd, held' \subseteq Fd, failed \subseteq failed', failed' \subseteq Fd,
         \A e \in Fd \ failed' : Passed(o, d, e)
  PROVE  DescriptorInv'
<1>1. fd' \in [Objects -> Fd \cup {DescriptorOf!None, DescriptorOf!Gone}]
      /\ fd'[o] = d /\ \A p \in Objects \ {o} : fd'[p] = fd[p]
  BY DEF DescriptorInv
<1>2. ASSUME NEW e \in Fd \ failed' PROVE Single(e)'
  <2>1. Single(e) /\ Passed(o, d, e)
    BY DEF DescriptorInv
  <2> QED BY <1>1, <2>1 DEF Single, Passed
<1>3. Fd' = Fd
  BY DEF Fd
<1> QED BY <1>1, <1>2, <1>3 DEF DescriptorInv

LEMMA DescriptorStep ==
  ASSUME DescriptorInv, [DescriptorOf!Next]_descriptorVars
  PROVE  DescriptorInv'
<1> USE FdIs
<1>0. open \subseteq Fd /\ held \subseteq Fd /\ failed \subseteq Fd
      /\ \A o \in Objects : fd[o] \in Fd \cup {DescriptorOf!None, DescriptorOf!Gone}
  BY DEF DescriptorInv
<1>1. CASE DescriptorOf!OpenOwn
  <2>1. PICK d \in Fd \ open : open' = open \cup {d} /\ held' = held \cup {d}
    BY <1>1, LowestIs DEF DescriptorOf!OpenOwn
  <2>2. UNCHANGED <<fd, failed>> /\ Fd' = Fd
    BY <1>1 DEF DescriptorOf!OpenOwn, Fd
  <2>3. ASSUME NEW e \in Fd \ failed PROVE Single(e)'
    <3>1. Single(e)
      BY DEF DescriptorInv
    <3> QED BY <2>1, <2>2, <3>1 DEF Single
  <2> QED BY <2>1, <2>2, <2>3 DEF DescriptorInv
<1>2. CASE DescriptorOf!CloseOwn
  BY <1>2 DEF DescriptorOf!CloseOwn, DescriptorInv, Single
<1>3. ASSUME NEW o \in Objects, DescriptorOf!Construct(o) PROVE DescriptorInv'
  BY <1>3 DEF DescriptorOf!Construct, DescriptorInv, Single
<1>4. ASSUME NEW o \in Objects, DescriptorOf!Attach(o) PROVE DescriptorInv'
  <2>1. PICK c \in DescriptorOf!Closings(o), d \in held \cup {DescriptorOf!None} :
          /\ open' = c.open /\ failed' = c.failed
          /\ fd' = [fd EXCEPT ![o] = IF d >= 0 THEN d ELSE c.fd]
          /\ held' = held \ {d}
    BY <1>4 DEF DescriptorOf!Attach
  <2>2. CASE d \in held
    <3>1. fd' = [fd EXCEPT ![o] = d]
      BY <1>0, <2>1, <2>2
    <3>2. \A e \in Fd \ failed' : Passed(o, d, e)
      BY <2>1, <2>2, ClosingIs DEF Passed, DescriptorInv, Single
    <3> QED BY <1>0, <2>1, <2>2, <3>1, <3>2, ClosingIs, OnePasses
  <2>3. CASE d = DescriptorOf!None
    <3>1. fd' = [fd EXCEPT ![o] = c.fd] /\ held' = held
      BY <1>0, <2>1, <2>3 DEF DescriptorOf!None
    <3>2. ASSUME NEW e \in Fd \ failed' PROVE Passed(o, c.fd, e)
      <4>1. Single(e)
        BY ClosingIs, <2>1 DEF DescriptorInv
      <4> QED BY <2>1, <3>1, <4>1, ClosingIs DEF Passed, Single
    <3> QED BY <1>0, <2>1, <3>1, <3>2, ClosingIs, OnePasses
  <2> QED BY <2>2, <2>3
<1>5. ASSUME NEW o \in Objects, DescriptorOf!Detach(o) PROVE DescriptorInv'
  <2>1. fd[o] >= 0
    BY <1>5 DEF DescriptorOf!Detach
  <2>2. fd[o] # DescriptorOf!None /\ fd[o] # DescriptorOf!Gone
    BY <2>1 DEF DescriptorOf!None, DescriptorOf!Gone
  <2>3. fd[o] \in Fd
    BY <1>0, <2>2
  <2>4. \A e \in Fd \ failed' : Passed(o, DescriptorOf!None, e)
    BY <1>5, <2>3 DEF DescriptorOf!Detach, Passed, DescriptorInv, Single
  <2> QED BY <1>0, <1>5, <2>3, <2>4, OnePasses DEF DescriptorOf!Detach
<1>6. ASSUME NEW o \in Objects, DescriptorOf!Close(o) PROVE DescriptorInv'
  <2>1. PICK c \in DescriptorOf!Closings(o) :
          open' = c.open /\ failed' = c.failed /\ fd' = [fd EXCEPT ![o] = c.fd] /\ held' = held
    BY <1>6 DEF DescriptorOf!Close
  <2>2. \A e \in Fd \ failed' : Passed(o, c.fd, e)
    BY <2>1, ClosingIs DEF Passed, DescriptorInv, Single
  <2> QED BY <1>0, <2>1, <2>2, ClosingIs, OnePasses
<1>7. ASSUME NEW o \in Objects, DescriptorOf!Destroy(o) PROVE DescriptorInv'
  <2>1. PICK c \in DescriptorOf!Closings(o) :
          /\ open' = c.open /\ failed' = c.failed
          /\ fd' = [fd EXCEPT ![o] = DescriptorOf!Gone] /\ held' = held
    BY <1>7 DEF DescriptorOf!Destroy
  <2>2. ASSUME NEW e \in Fd \ failed' PROVE Passed(o, DescriptorOf!Gone, e)
    <3>1. Single(e) /\ e \notin failed'
      BY ClosingIs, <2>1 DEF DescriptorInv
    <3>2. e # fd[o] \/ c.open = open \ {fd[o]}
      BY <2>1, <3>1, ClosingIs
    <3> QED BY <2>1, <3>1, <3>2, ClosingIs DEF Passed, Single
  <2> QED BY <1>0, <2>1, <2>2, ClosingIs, OnePasses
<1>8. ASSUME NEW o \in Objects, NEW p \in Objects, DescriptorOf!Copy(o, p) PROVE DescriptorInv'
  <2>1. PICK d \in (Fd \ open) \cup {DescriptorOf!None} :
          fd' = [fd EXCEPT ![o] = d] /\ open' = open \cup DescriptorOf!Taken(d)
    BY <1>8, DupIs DEF DescriptorOf!Copy, DescriptorOf!Free, Fd
  <2>2. fd[o] \notin Fd /\ held' = held /\ failed' = failed
    BY <1>8 DEF DescriptorOf!Copy
  <2>3. open' \subseteq Fd /\ \A e \in Fd : e \in open' <=> e \in open \/ e = d
    BY <1>0, <2>1 DEF DescriptorOf!Taken
  <2>4. \A e \in Fd \ failed' : Passed(o, d, e)
    BY <2>1, <2>2, <2>3 DEF Passed, DescriptorInv, Single
  <2> QED BY <1>0, <2>1, <2>2, <2>3, <2>4, OnePasses
<1>9. ASSUME NEW o \in Objects, NEW p \in Objects, DescriptorOf!Assign(o, p) PROVE DescriptorInv'
  <2>1. PICK c \in DescriptorOf!Closings(o) :
          LET d == DescriptorOf!Dup(fd[p], Fd \ c.open)
          IN  /\ failed' = c.failed /\ held' = held
              /\ IF fd[p] >= 0
                 THEN fd' = [fd EXCEPT ![o] = d] /\ open' = c.open \cup DescriptorOf!Taken(d)
                 ELSE fd' = [fd EXCEPT ![o] = c.fd] /\ open' = c.open
    BY <1>9 DEF DescriptorOf!Assign, Fd
  <2>2. CASE ~(fd[p] >= 0)
    <3>1. \A e \in Fd \ failed' : Passed(o, c.fd, e)
      BY <2>1, <2>2, ClosingIs DEF Passed, DescriptorInv, Single
    <3>2. /\ c.fd \in Fd \cup {DescriptorOf!None, DescriptorOf!Gone}
          /\ open' \subseteq Fd /\ failed \subseteq failed' /\ failed' \subseteq Fd
      <4>1. fd[o] \in Fd \cup {DescriptorOf!None, DescriptorOf!Gone}
        BY DEF DescriptorInv
      <4>2. open' = c.open /\ failed' = c.failed
        BY <2>1, <2>2
      <4>3. c.fd = fd[o] \/ c.fd = DescriptorOf!None
        BY ClosingIs
      <4>4. c.open \subseteq open /\ failed \subseteq c.failed /\ c.failed \subseteq Fd
        BY ClosingIs
      <4> QED BY ONLY <1>0, <4>1, <4>2, <4>3, <4>4
    <3>3. fd' = [fd EXCEPT ![o] = c.fd] /\ held' \subseteq Fd
      BY <1>0, <2>1, <2>2
    <3> QED BY ONLY DescriptorInv, <3>1, <3>2, <3>3, o \in Objects, OnePasses
  <2>3. CASE fd[p] >= 0
    <3>1. PICK d \in (Fd \ c.open) \cup {DescriptorOf!None} :
            fd' = [fd EXCEPT ![o] = d] /\ open' = c.open \cup DescriptorOf!Taken(d)
      BY <2>1, <2>3, DupIs
    <3>2. open' \subseteq Fd /\ \A e \in Fd : e \in open' <=> e \in c.open \/ e = d
      <4>1. c.open \subseteq Fd
        BY <1>0, ClosingIs
      <4> QED BY <3>1, <4>1 DEF DescriptorOf!Taken
    <3>3. \A e \in Fd \ failed' : Passed(o, d, e)
      BY <2>1, <3>1, <3>2, ClosingIs DEF Passed, DescriptorInv, Single
    <3> QED BY <1>0, <2>1, <3>1, <3>2, <3>3, ClosingIs, OnePasses
  <2> QED BY <2>2, <2>3
<1>10. CASE UNCHANGED descriptorVars
  BY <1>10 DEF descriptorVars, DescriptorInv, Single
<1> QED BY <1>1, <1>2, <1>3, <1>4, <1>5, <1>6, <1>7, <1>8, <1>9, <1>10 DEF DescriptorOf!Next

(* One owner, counted.                                                     *)
LEMMA OwnersCounted == DescriptorInv => DescriptorOf!OwnedOnce
<1> SUFFICES ASSUME DescriptorInv, NEW d \in (0 .. (Fds - 1)) \ failed
             PROVE  Cardinality(DescriptorOf!Owners(d)) + (IF d \in held THEN 1 ELSE 0)
                    = (IF d \in open THEN 1 ELSE 0)
  <2>1. \A S : DescriptorOf!Cardinality(S) = Cardinality(S)
    BY DEF DescriptorOf!Cardinality, Cardinality
  <2> QED BY <2>1, Zenon DEF DescriptorOf!OwnedOnce
<1>1. Single(d)
  BY DEF DescriptorInv, Fd
<1>2. CASE DescriptorOf!Owners(d) = {}
  <2>1. d \in open <=> d \in held
    BY <1>1, <1>2 DEF Single, DescriptorOf!Owners
  <2> QED BY <1>2, <2>1, FS_EmptySet
<1>3. CASE DescriptorOf!Owners(d) # {}
  <2>1. PICK o \in Objects : DescriptorOf!Owners(d) = {o}
    BY <1>1, <1>3 DEF Single, DescriptorOf!Owners
  <2>2. d \notin held /\ d \in open
    BY <1>1, <2>1 DEF Single, DescriptorOf!Owners
  <2>3. Cardinality(DescriptorOf!Owners(d)) = 1
    BY <2>1, FS_Singleton
  <2> QED BY <2>2, <2>3
<1> QED BY <1>2, <1>3

-----------------------------------------------------------------------------
(* A signal calls the handler that is on top of the stack, or was so at    *)
(* the beginning or will be at the end of the PushHandler() or PopHandler()*)
(* it comes in the middle of; a descriptor whose close(2) never failed is  *)
(* open exactly as long as one object, or the program, owns it.            *)
THEOREM SystemAgreement == MCSpec => []SystemAgrees
<1> DEFINE Inv == SignalInv /\ DescriptorInv
<1>1. MCInit => Inv
  BY SignalInit, DescriptorInit DEF MCInit
<1>2. Inv /\ [MCNext]_allVars => Inv'
  BY OwnSteps, SignalStep, DescriptorStep
<1>3. Inv => SystemAgrees
  BY OwnersCounted DEF SystemAgrees, SignalInv
<1> QED BY <1>1, <1>2, <1>3, PTL DEF MCSpec
-----------------------------------------------------------------------------
(* Pacer.                                                                  *)

Times == [secs : Nat, usecs : Nat]
Due   == PacerOf!Total(nextTime)
Step(r) == PacerOf!Total(PacerOf!Interval(r))
Race  == PacerOf!Total(PacerOf!RaceTime)
Paid  == paced * Step(rate) + late * Race

(* _nextTime is at most a step and the shortest sleep ahead, and a step    *)
(* more for each sleep that was ended early.                               *)
PacerTyping ==
  /\ now \in 0 .. Horizon /\ mark \in 0 .. now /\ rate \in Rates /\ nextTime \in Times
  /\ signals \in 0 .. Interrupts /\ paced \in Nat /\ late \in Nat
Ahead == Due <= now + MinSleep + Step(rate) + signals * Step(rate)
Asleep == wake # PacerOf!Awake => wake = Due

(* What returned since the mark has moved _nextTime on by as much; it was  *)
(* not further behind the mark than a race, but for a sleep that began     *)
(* before it.                                                              *)
Moved ==
  /\ Paid <= Step(rate) \/ Paid + mark <= Due + Step(rate) + Race
  /\ wake # PacerOf!Awake /\ Due + Race < mark => paced = 0 /\ late = 0

PacerInv == PacerTyping /\ Ahead /\ Asleep /\ Moved

(* A number of microseconds that fits into a TimeValue is its total.       *)
LEMMA TotalIs ==
  ASSUME NEW v \in Nat, v < Wrap * Million
  PROVE  PacerOf!OfTotal(v) \in Times /\ PacerOf!Total(PacerOf!OfTotal(v)) = v
<1>1. Million \in Nat \ {0} /\ Wrap \in Nat \ {0}
  BY ClockAssumption
<1> DEFINE q == v \div Million
           u == v % Million
<1>2. q \in Int /\ u \in 0 .. Million - 1 /\ v = Million * q + u
  BY <1>1
<1> HIDE DEF q, u
<1>3. q >= 0
  <2>1. ASSUME q <= -1 PROVE FALSE
    <3>1. Million * q <= -Million
      BY <1>1, <1>2, <2>1
    <3> QED BY <1>1, <1>2, <3>1
  <2> QED BY <1>2, <2>1
<1>4. q < Wrap
  <2>1. ASSUME q >= Wrap PROVE FALSE
    <3>1. Million * q >= Million * Wrap
      BY <1>1, <1>2, <2>1
    <3>2. Million * Wrap = Wrap * Million
      BY <1>1
    <3> QED BY <1>1, <1>2, <3>1, <3>2
  <2> QED BY <1>1, <1>2, <2>1
<1>5. q % Wrap = q
  BY <1>1, <1>2, <1>3, <1>4
<1>6. PacerOf!OfTotal(v) = [secs |-> q, usecs |-> u]
  BY <1>5 DEF PacerOf!OfTotal, q, u
<1>7. Million * q = q * Million
  BY <1>1, <1>2
<1> QED BY <1>2, <1>3, <1>6, <1>7 DEF PacerOf!Total, Times

LEMMA TotalIsNat == ASSUME NEW t \in Times PROVE PacerOf!Total(t) \in Nat
  BY ClockAssumption DEF PacerOf!Total, Times

(* A step is at most a second; a race is ten of the shortest sleeps.       *)
LEMMA StepIs ==
  ASSUME NEW r \in Rates
  PROVE  PacerOf!Interval(r) \in Times /\ Step(r) \in 0 .. Million
<1>1. Million \in Nat \ {0} /\ r \in Nat
  BY ClockAssumption
<1>2. CASE r > 1
  <2>1. Million \div r \in 0 .. Million
    <3> DEFINE q == Million \div r
               u == Million % r
    <3>0. r \in Nat \ {0}
      BY <1>1, <1>2
    <3>1. q \in Int /\ u \in 0 .. r - 1 /\ Million = r * q + u
      BY <1>1, <3>0
    <3> HIDE DEF q, u
    <3>2. q >= 0
      <4>1. ASSUME q <= -1 PROVE FALSE
        <5>1. r * q <= -r
          BY <3>0, <3>1, <4>1
        <5> QED BY <1>1, <3>0, <3>1, <5>1
      <4> QED BY <3>1, <4>1
    <3>3. r * q >= q
      BY <3>0, <3>1, <3>2
    <3> QED BY <1>1, <3>0, <3>1, <3>2, <3>3 DEF q
  <2>2. PacerOf!Interval(r) = [secs |-> 0, usecs |-> Million \div r]
    BY <1>2 DEF PacerOf!Interval, PacerOf!Set
  <2> QED BY <1>1, <2>1, <2>2 DEF Step, PacerOf!Total, Times
<1>3. CASE ~(r > 1)
  <2>1. PacerOf!Interval(r) = [secs |-> 1, usecs |-> 0]
    BY <1>3 DEF PacerOf!Interval, PacerOf!Set
  <2> QED BY <1>1, <2>1 DEF Step, PacerOf!Total, Times
<1> QED BY <1>2, <1>3

LEMMA RaceIs == Race = 10 * MinSleep /\ Race \in Nat /\ PacerOf!RaceTime \in Times
<1>1. MinSleep \in Nat /\ Million \in Nat /\ Wrap \in Nat /\ Horizon \in Nat /\ Interrupts \in Nat
  BY ClockAssumption
<1>2. PacerOf!Total(PacerOf!Set(0, MinSleep)) = MinSleep
  BY <1>1 DEF PacerOf!Total, PacerOf!Set
<1>3. PacerOf!RaceTime = PacerOf!OfTotal(MinSleep * 10)
  BY <1>2 DEF PacerOf!RaceTime, PacerOf!Times
<1>4. Wrap * Million \in Nat /\ (2 + Interrupts) * Million \in Nat
  BY <1>1
<1>5. MinSleep * 10 \in Nat /\ MinSleep * 10 < Wrap * Million
  BY <1>1, <1>4, ClockAssumption
<1> QED BY <1>1, <1>3, <1>5, TotalIs DEF Race

LEMMA Distributes ==
  ASSUME NEW a \in Nat, NEW b \in Nat
  PROVE  (a + 1) * b = a * b + b /\ a * b \in Nat /\ (2 + a) * b = 2 * b + a * b
  OBVIOUS

LEMMA Grows ==
  ASSUME NEW a \in Nat, NEW b \in Nat, NEW c \in Nat, NEW d \in Nat, a <= c, b <= d
  PROVE  a * b <= c * d
<1>1. a * b <= c * b
  <2>1. c * b = a * b + (c - a) * b
    OBVIOUS
  <2>2. (c - a) * b >= 0
    OBVIOUS
  <2>3. a * b \in Int /\ (c - a) * b \in Int
    OBVIOUS
  <2> QED BY <2>1, <2>2, <2>3
<1>2. c * b <= c * d
  <2>1. c * d = c * b + c * (d - b)
    OBVIOUS
  <2>2. c * (d - b) >= 0
    OBVIOUS
  <2>3. c * b \in Int /\ c * (d - b) \in Int
    OBVIOUS
  <2> QED BY <2>1, <2>2, <2>3
<1>3. a * b \in Int /\ c * b \in Int /\ c * d \in Int
  OBVIOUS
<1> QED BY <1>1, <1>2, <1>3

(* What Pace() computes, while _nextTime is not too far ahead.             *)
LEMMA PaceFacts ==
  ASSUME PacerTyping, Ahead
  PROVE  /\ now \in Nat /\ mark \in Nat /\ mark <= now /\ Due \in Nat /\ Step(rate) \in Nat
         /\ signals * Step(rate) \in Nat /\ Race \in Nat /\ MinSleep \in Nat
         /\ PacerOf!Now \in Times /\ PacerOf!Total(PacerOf!Now) = now
         /\ PacerOf!TooLate <=> Due + Race < now
         /\ PacerOf!Sleeps <=> now + MinSleep <= Due /\ now < Due
         /\ PacerOf!Sleeps => PacerOf!Total(PacerOf!Minus(nextTime, PacerOf!Now)) = Due - now
         /\ LET t == PacerOf!Plus(nextTime, PacerOf!Interval(rate))
            IN  t \in Times /\ PacerOf!Total(t) = Due + Step(rate)
         /\ \A r \in Rates : LET t == PacerOf!Plus(PacerOf!Now, PacerOf!Interval(r))
                             IN  t \in Times /\ PacerOf!Total(t) = now + Step(r)
<1>1. /\ now \in Nat /\ mark \in Nat /\ mark <= now /\ now <= Horizon
      /\ Due \in Nat /\ Step(rate) \in Nat /\ Step(rate) <= Million
      /\ signals \in Nat /\ signals <= Interrupts
  BY StepIs, TotalIsNat, ClockAssumption DEF PacerTyping, Due
<1>2. /\ MinSleep \in Nat /\ Million \in Nat /\ Horizon \in Nat /\ Interrupts \in Nat /\ Wrap \in Nat
      /\ Race = 10 * MinSleep /\ Race \in Nat
  BY ClockAssumption, RaceIs
<1> DEFINE room == Wrap * Million
           early == signals * Step(rate)
           most == Interrupts * Million
<1>3. early \in Nat /\ most \in Nat /\ early <= most
  BY <1>1, <1>2, Grows, Distributes
<1>4. room \in Nat /\ Horizon + 11 * MinSleep + 2 * Million + most < room
  <2>1. (2 + Interrupts) * Million = 2 * Million + Interrupts * Million /\ Wrap * Million \in Nat
    BY <1>2, Distributes
  <2> QED BY <2>1, ClockAssumption
<1>5. Due <= Horizon + MinSleep + Million + most
  <2>1. Due <= now + MinSleep + Step(rate) + early
    BY DEF Ahead
  <2> HIDE DEF early, most
  <2> QED BY <1>1, <1>2, <1>3, <2>1
<1>6. \A v \in Nat : v < room => PacerOf!OfTotal(v) \in Times /\ PacerOf!Total(PacerOf!OfTotal(v)) = v
  BY TotalIs
<1> HIDE DEF room, most
<1>7. PacerOf!Now \in Times /\ PacerOf!Total(PacerOf!Now) = now
  <2>1. now < room
    BY <1>1, <1>2, <1>3, <1>4
  <2> QED BY <1>1, <1>6, <2>1 DEF PacerOf!Now
<1>8. PacerOf!TooLate <=> Due + Race < now
  <2>1. Due + Race \in Nat /\ Due + Race < room
    BY <1>1, <1>2, <1>3, <1>4, <1>5
  <2>2. PacerOf!Total(PacerOf!Plus(nextTime, PacerOf!RaceTime)) = Due + Race
    BY <1>6, <2>1 DEF PacerOf!Plus, Due, Race
  <2> QED BY <1>7, <2>2 DEF PacerOf!TooLate, PacerOf!Less
<1>9. now < Due => PacerOf!Total(PacerOf!Minus(nextTime, PacerOf!Now)) = Due - now
  <2>1. now < Due => Due - now \in Nat /\ Due - now < room
    BY <1>1, <1>2, <1>3, <1>4, <1>5
  <2> QED BY <1>6, <1>7, <2>1 DEF PacerOf!Minus, Due
<1>10. PacerOf!Sleeps <=> now + MinSleep <= Due /\ now < Due
  <2>1. PacerOf!Total(PacerOf!Set(0, MinSleep)) = MinSleep
    BY <1>2 DEF PacerOf!Total, PacerOf!Set
  <2>2. PacerOf!Sleeps <=> now < Due /\ Due - now >= MinSleep
    BY <1>7, <1>9, <2>1 DEF PacerOf!Sleeps, PacerOf!Less, PacerOf!AtLeast, Due
  <2> QED BY <1>1, <1>2, <2>2
<1>11. /\ PacerOf!Plus(nextTime, PacerOf!Interval(rate)) \in Times
       /\ PacerOf!Total(PacerOf!Plus(nextTime, PacerOf!Interval(rate))) = Due + Step(rate)
  <2>1. Due + Step(rate) \in Nat /\ Due + Step(rate) < room
    BY <1>1, <1>2, <1>3, <1>4, <1>5
  <2> QED BY <1>6, <2>1 DEF PacerOf!Plus, Due, Step
<1>12. ASSUME NEW r \in Rates
       PROVE  /\ PacerOf!Plus(PacerOf!Now, PacerOf!Interval(r)) \in Times
              /\ PacerOf!Total(PacerOf!Plus(PacerOf!Now, PacerOf!Interval(r))) = now + Step(r)
  <2>1. Step(r) \in Nat /\ Step(r) <= Million
    BY <1>2, StepIs
  <2>2. now + Step(r) \in Nat /\ now + Step(r) < room
    BY <1>1, <1>2, <1>3, <1>4, <2>1
  <2> QED BY <1>6, <1>7, <2>2 DEF PacerOf!Plus, Step
<1> QED BY <1>1, <1>2, <1>3, <1>7, <1>8, <1>9, <1>10, <1>11, <1>12

LEMMA PacerInit == PacerOf!Init => PacerInv
<1> SUFFICES ASSUME PacerOf!Init PROVE PacerInv
  OBVIOUS
<1>1. now = 0 /\ mark = 0 /\ rate \in Rates /\ signals = 0 /\ paced = 0 /\ late = 0
      /\ wake = PacerOf!Awake /\ nextTime = PacerOf!Plus(PacerOf!Now, PacerOf!Interval(rate))
  BY DEF PacerOf!Init
<1>2. PacerOf!Now \in Times /\ PacerOf!Total(PacerOf!Now) = 0
  <2>1. PacerOf!Now = [secs |-> 0, usecs |-> 0]
    BY <1>1, ClockAssumption DEF PacerOf!Now, PacerOf!OfTotal
  <2> QED BY <2>1, ClockAssumption DEF PacerOf!Total, Times
<1>3. Step(rate) \in Nat /\ Step(rate) <= Million
  BY <1>1, StepIs, ClockAssumption
<1>4. /\ {Horizon, MinSleep, Interrupts, Million, Wrap} \subseteq Nat
      /\ Wrap * Million \in Nat /\ Million < Wrap * Million
  <2>1. {Horizon, MinSleep, Interrupts, Million, Wrap} \subseteq Nat
    BY ClockAssumption
  <2>2. (2 + Interrupts) * Million = 2 * Million + Interrupts * Million
        /\ Interrupts * Million \in Nat /\ Wrap * Million \in Nat
    BY <2>1, Distributes
  <2> QED BY <2>1, <2>2, ClockAssumption
<1>5. nextTime \in Times /\ Due = Step(rate)
  <2>1. Step(rate) < Wrap * Million
    BY <1>3, <1>4
  <2>2. nextTime = PacerOf!OfTotal(0 + Step(rate))
    BY <1>1, <1>2 DEF PacerOf!Plus, Step
  <2> QED BY <1>3, <2>1, <2>2, TotalIs DEF Due
<1>6. Paid = 0 /\ signals * Step(rate) = 0
  BY <1>1, <1>3, RaceIs DEF Paid
<1> QED BY <1>1, <1>3, <1>4, <1>5, <1>6, RaceIs DEF PacerInv, PacerTyping, Ahead, Asleep, Moved

(* Pace() returns, and _nextTime moves on by a step.                       *)
LEMMA PaceReturns ==
  ASSUME PacerInv, PacerOf!Return, wake' = PacerOf!Awake, UNCHANGED <<now, rate, mark, late>>,
         signals' \in 0 .. Interrupts,
         signals' = signals + 1 \/ (signals' = signals /\ Due <= now + MinSleep),
         Due + Race < mark => paced = 0 /\ late = 0
  PROVE  PacerInv'
<1>1. PacerTyping /\ Ahead /\ Moved
  BY DEF PacerInv
<1>2. /\ now \in Nat /\ mark \in Nat /\ mark <= now /\ Due \in Nat /\ Step(rate) \in Nat
      /\ signals * Step(rate) \in Nat /\ Race \in Nat /\ MinSleep \in Nat
  BY <1>1, PaceFacts
<1>3. nextTime' \in Times /\ Due' = Due + Step(rate) /\ paced' = paced + 1
  BY <1>1, PaceFacts DEF PacerOf!Return, Due
<1>4. Step(rate)' = Step(rate) /\ Race' = Race /\ PacerOf!Awake' = PacerOf!Awake
  BY DEF Step, Race, PacerOf!Total, PacerOf!Interval, PacerOf!RaceTime, PacerOf!Times, PacerOf!Set,
         PacerOf!OfTotal, PacerOf!Awake
<1>5. paced * Step(rate) \in Nat /\ late * Race \in Nat /\ Paid = paced * Step(rate) + late * Race
  BY <1>1, <1>2, Distributes DEF PacerTyping, Paid
<1>6. Paid' = Paid + Step(rate)
  <2>1. (paced + 1) * Step(rate) = paced * Step(rate) + Step(rate)
    BY <1>1, <1>2, Distributes DEF PacerTyping
  <2>2. Paid' = (paced + 1) * Step(rate) + late * Race
    BY <1>3, <1>4 DEF Paid
  <2> QED BY <1>2, <1>5, <2>1, <2>2
<1>7. PacerTyping'
  BY <1>1, <1>3 DEF PacerTyping, Times
<1>8. Ahead'
  <2> DEFINE e == signals * Step(rate)
  <2>1. (signals + 1) * Step(rate) = e + Step(rate)
    BY <1>1, <1>2, Distributes DEF PacerTyping
  <2>2. Due <= now + MinSleep + Step(rate) + e
    BY <1>1 DEF Ahead
  <2>3. signals' * Step(rate) \in Nat
        /\ Due' <= now + MinSleep + Step(rate) + signals' * Step(rate)
    <3>1. CASE signals' = signals + 1
      <4>1. signals' * Step(rate) = e + Step(rate)
        BY <2>1, <3>1
      <4> HIDE DEF e
      <4> QED BY <1>2, <1>3, <2>2, <4>1 DEF e
    <3>2. CASE signals' = signals /\ Due <= now + MinSleep
      <4>1. signals' * Step(rate) = e /\ e \in Nat
        BY <3>2, <1>2
      <4> HIDE DEF e
      <4> QED BY <1>2, <1>3, <3>2, <4>1
    <3> QED BY <3>1, <3>2
  <2> QED BY <1>4, <2>3 DEF Ahead
<1>9. Moved'
  <2>1. CASE Due + Race < mark
    <3>1. paced = 0 /\ late = 0
      BY <2>1
    <3>2. Paid = 0
      BY <1>2, <3>1 DEF Paid
    <3> QED BY <1>2, <1>4, <1>6, <3>2 DEF Moved
  <2>2. CASE ~(Due + Race < mark)
    <3>1. Paid \in Nat
      BY <1>5
    <3>2. Paid + mark <= Due + Step(rate) + Race
      BY <1>1, <1>2, <2>2, <3>1 DEF Moved
    <3> QED BY <1>2, <1>3, <1>4, <1>6, <3>1, <3>2 DEF Moved
  <2> QED BY <2>1, <2>2
<1> QED BY <1>4, <1>7, <1>8, <1>9 DEF PacerInv, Asleep

LEMMA PacerStep ==
  ASSUME PacerInv, [PacerOf!Next]_pacerVars
  PROVE  PacerInv'
<1>0. PacerTyping /\ Ahead /\ Asleep /\ Moved
  BY DEF PacerInv
<1>1. /\ now \in Nat /\ mark \in Nat /\ mark <= now /\ Due \in Nat /\ Step(rate) \in Nat
      /\ signals * Step(rate) \in Nat /\ Race \in Nat /\ MinSleep \in Nat
  BY <1>0, PaceFacts
<1>2. PacerOf!Awake' = PacerOf!Awake /\ Race' = Race /\ \A r : Step(r)' = Step(r')
  BY DEF Step, Race, PacerOf!Total, PacerOf!Interval, PacerOf!RaceTime, PacerOf!Times, PacerOf!Set,
         PacerOf!OfTotal, PacerOf!Awake
<1>3. CASE PacerOf!Tick
  <2>1. now' = now + 1 /\ now < Horizon
        /\ UNCHANGED <<nextTime, rate, wake, signals, mark, paced, late>>
    BY <1>3 DEF PacerOf!Tick
  <2>2. Due' = Due /\ Step(rate)' = Step(rate) /\ Paid' = Paid
    BY <1>2, <2>1 DEF Due, Paid, PacerOf!Total, Step, PacerOf!Interval
  <2>3. PacerTyping'
    BY <1>0, <1>1, <2>1, ClockAssumption DEF PacerTyping, Times
  <2>4. Ahead'
    BY <1>0, <1>1, <2>1, <2>2 DEF Ahead
  <2>5. Asleep' /\ Moved'
    BY <1>0, <1>2, <2>1, <2>2 DEF Asleep, Moved
  <2> QED BY <2>3, <2>4, <2>5 DEF PacerInv
<1>4. CASE PacerOf!Observe
  <2>1. mark' = now /\ paced' = 0 /\ late' = 0 /\ UNCHANGED <<now, nextTime, rate, wake, signals>>
    BY <1>4 DEF PacerOf!Observe
  <2>2. Due' = Due /\ Step(rate)' = Step(rate) /\ Paid' = 0
    BY <1>1, <1>2, <2>1 DEF Due, Paid, PacerOf!Total, Step, PacerOf!Interval
  <2> QED BY <1>0, <1>1, <1>2, <2>1, <2>2 DEF PacerInv, PacerTyping, Times, Ahead, Asleep, Moved
<1>5. CASE PacerOf!SetRate
  <2>1. PICK r \in Rates : rate' = r /\ nextTime' = PacerOf!Plus(PacerOf!Now, PacerOf!Interval(r))
    BY <1>5 DEF PacerOf!SetRate
  <2>2. mark' = now /\ paced' = 0 /\ late' = 0 /\ UNCHANGED <<now, wake, signals>>
        /\ wake = PacerOf!Awake
    BY <1>5 DEF PacerOf!SetRate
  <2>3. nextTime' \in Times /\ Due' = now + Step(r) /\ Step(rate)' = Step(r) /\ Step(r) \in Nat
    BY <1>0, <2>1, PaceFacts, StepIs, ClockAssumption DEF Due, PacerOf!Total, Step, PacerOf!Interval
  <2>4. Paid' = 0 /\ signals * Step(r) \in Nat
    BY <1>0, <1>1, <1>2, <2>2, <2>3 DEF Paid, PacerTyping
  <2>5. PacerTyping'
    BY <1>0, <1>1, <2>1, <2>2, <2>3 DEF PacerTyping, Times
  <2>6. Ahead'
    BY <1>1, <2>2, <2>3, <2>4 DEF Ahead
  <2> QED BY <1>1, <1>2, <2>2, <2>3, <2>4, <2>5, <2>6 DEF PacerInv, Asleep, Moved
<1>6. CASE PacerOf!PaceLate
  <2>1. nextTime' = PacerOf!Now /\ late' = late + 1 /\ wake = PacerOf!Awake /\ Due + Race < now
        /\ UNCHANGED <<now, rate, wake, signals, mark, paced>>
    BY <1>0, <1>6, PaceFacts DEF PacerOf!PaceLate
  <2>2. nextTime' \in Times /\ Due' = now /\ Step(rate)' = Step(rate)
    BY <1>0, <1>2, <2>1, PaceFacts DEF Due, PacerOf!Total, Step, PacerOf!Interval
  <2>3. paced * Step(rate) \in Nat /\ late * Race \in Nat /\ (late + 1) * Race = late * Race + Race
    BY <1>0, <1>1, Distributes DEF PacerTyping
  <2>4. Paid' = Paid + Race /\ Paid \in Nat
    BY <1>1, <1>2, <2>1, <2>2, <2>3 DEF Paid
  <2>5. PacerTyping'
    BY <1>0, <1>1, <2>1, <2>2 DEF PacerTyping, Times
  <2>6. Ahead'
    BY <1>1, <2>1, <2>2 DEF Ahead
  <2>7. Moved'
    <3>1. Paid <= Step(rate) \/ Paid + mark <= Due + Step(rate) + Race
      BY <1>0 DEF Moved
    <3>2. Paid' + mark <= now + Step(rate) + Race
      BY <1>1, <2>1, <2>4, <3>1
    <3> QED BY <1>2, <2>1, <2>2, <3>2 DEF Moved
  <2> QED BY <1>2, <2>1, <2>5, <2>6, <2>7 DEF PacerInv, Asleep
<1>7. CASE PacerOf!PaceOnTime
  <2>1. ~(Due + Race < now) /\ ~(now + MinSleep <= Due /\ now < Due)
    BY <1>0, <1>7, PaceFacts DEF PacerOf!PaceOnTime
  <2>2. Due <= now + MinSleep /\ ~(Due + Race < mark)
    BY <1>1, <2>1
  <2>3. PacerOf!Return /\ wake' = PacerOf!Awake /\ UNCHANGED <<now, rate, mark, late, signals>>
    BY <1>7 DEF PacerOf!PaceOnTime
  <2> QED BY <1>0, <2>2, <2>3, PaceReturns DEF PacerTyping
<1>8. CASE PacerOf!PaceSleep
  <2>1. PacerOf!Sleeps /\ wake' = now + PacerOf!Total(PacerOf!Minus(nextTime, PacerOf!Now))
        /\ UNCHANGED <<now, nextTime, rate, signals, mark, paced, late>>
    BY <1>8 DEF PacerOf!PaceSleep
  <2>2. now + MinSleep <= Due /\ wake' = now + (Due - now)
    BY <1>0, <2>1, PaceFacts
  <2>3. wake' = Due /\ ~(Due + Race < mark)
    BY <1>1, <2>2
  <2>4. Due' = Due /\ Step(rate)' = Step(rate) /\ Paid' = Paid
    BY <1>2, <2>1 DEF Due, Paid, PacerOf!Total, Step, PacerOf!Interval
  <2>5. PacerTyping' /\ Ahead'
    BY <1>0, <1>1, <2>1, <2>4 DEF PacerTyping, Times, Ahead
  <2>6. Asleep' /\ Moved'
    BY <1>0, <1>2, <2>1, <2>3, <2>4 DEF Asleep, Moved
  <2> QED BY <2>5, <2>6 DEF PacerInv
<1>9. CASE PacerOf!Wake
  <2>1. wake # PacerOf!Awake /\ wake' = PacerOf!Awake /\ PacerOf!Return
        /\ UNCHANGED <<now, rate, mark, late>>
    BY <1>9 DEF PacerOf!Wake
  <2>2. wake = Due /\ (Due + Race < mark => paced = 0 /\ late = 0)
    BY <1>0, <2>1 DEF Asleep, Moved
  <2>3. CASE now >= wake /\ UNCHANGED signals
    <3>1. Due <= now + MinSleep
      BY <1>1, <2>2, <2>3
    <3> QED BY <1>0, <2>1, <2>2, <2>3, <3>1, PaceReturns DEF PacerTyping
  <2>4. CASE now < wake /\ signals < Interrupts /\ signals' = signals + 1
    <3>1. signals' \in 0 .. Interrupts
      BY <1>0, <2>4, ClockAssumption DEF PacerTyping
    <3> QED BY <2>1, <2>2, <2>4, <3>1, PaceReturns
  <2> QED BY <1>9, <2>3, <2>4 DEF PacerOf!Wake
<1>10. CASE UNCHANGED pacerVars
  BY <1>0, <1>2, <1>10
     DEF pacerVars, PacerInv, PacerTyping, Times, Ahead, Asleep, Moved, Due, Paid, Step,
         PacerOf!Total, PacerOf!Interval
<1> QED BY <1>3, <1>4, <1>5, <1>6, <1>7, <1>8, <1>9, <1>10 DEF PacerOf!Next

LEMMA PacerHolds == PacerInv => PacerOf!RateHeld
<1> SUFFICES ASSUME PacerInv PROVE PacerOf!NotFaster /\ PacerOf!NotSlower
  BY DEF PacerOf!RateHeld
<1>1. PacerTyping /\ Ahead /\ Asleep /\ Moved
  BY DEF PacerInv
<1>2. /\ now \in Nat /\ mark \in Nat /\ mark <= now /\ Due \in Nat /\ Step(rate) \in Nat
      /\ signals * Step(rate) \in Nat /\ Race \in Nat /\ MinSleep \in Nat
  BY <1>1, PaceFacts
<1> DEFINE e == signals * Step(rate)
<1>3. (2 + signals) * Step(rate) = 2 * Step(rate) + e /\ (1 + signals) * Step(rate) = Step(rate) + e
  <2>1. 1 + signals = signals + 1
    BY <1>1 DEF PacerTyping
  <2> QED BY <1>1, <1>2, <2>1, Distributes DEF PacerTyping
<1>4. Due <= now + MinSleep + Step(rate) + e /\ e \in Nat
  BY <1>1, <1>2 DEF Ahead
<1>5. Paid \in Nat
  BY <1>1, <1>2, Distributes DEF Paid, PacerTyping
<1> HIDE DEF e
<1>6. Paid <= (now - mark) + MinSleep + (2 * Step(rate) + e) + Race
  BY <1>1, <1>2, <1>4, <1>5 DEF Moved
<1>7. PacerOf!NotFaster
  BY <1>3, <1>6 DEF PacerOf!NotFaster, Paid, Step, Race
<1>8. PacerOf!NotSlower
  <2>1. wake # PacerOf!Awake => wake <= now + MinSleep + (Step(rate) + e)
    BY <1>1, <1>2, <1>4 DEF Asleep
  <2> QED BY <1>3, <2>1 DEF PacerOf!NotSlower, Step
<1> QED BY <1>7, <1>8

(* However the calls of Pace() fall, and whichever sleeps a signal ends,   *)
(* no more of them return in a stretch of time than the rate allows, ten   *)
(* sleeps' lateness and one call that slept; none is kept for longer than  *)
(* the rate asks for.                                                      *)
THEOREM PaceIsHeld == MCSpec => []RateHeld
<1>1. MCInit => PacerInv
  BY PacerInit DEF MCInit
<1>2. PacerInv /\ [MCNext]_allVars => PacerInv'
  BY OwnSteps, PacerStep
<1>3. PacerInv => RateHeld
  BY PacerHolds DEF RateHeld
<1> QED BY <1>1, <1>2, <1>3, PTL DEF MCSpec

-----------------------------------------------------------------------------
(* DataLog.                                                                *)

Part == Nat \X {1, 2}

LogTyping ==
  /\ next \in Nat /\ stored \in Seq(Nat) /\ logData \in Seq(Part) /\ got \in Seq(Part \X Part)
  /\ writer \in [s : BOOLEAN, app : BOOLEAN, bad : BOOLEAN, buffer : Seq(Part), at : Int]
  /\ reader \in [s : BOOLEAN, bad : BOOLEAN, seen : Seq(Part), pos : Nat]

(* The file and the writer's buffer are what was recorded, and the buffer  *)
(* goes to the end of the file.                                            *)
WriterRight ==
  /\ LogOf!Parts(stored) = logData \o writer.buffer
  /\ ~writer.bad /\ (writer.app \/ writer.at = Len(logData))
  /\ ~writer.s => writer.buffer = <<>>

(* The reader has seen a first part of the file, and what it got are the   *)
(* entries up to where it is.                                              *)
ReaderRight ==
  /\ ~reader.s => reader = LogOf!NoReader /\ got = <<>>
  /\ Len(reader.seen) <= Len(logData) /\ reader.pos <= Len(reader.seen)
  /\ \A i \in 1 .. Len(reader.seen) : reader.seen[i] = logData[i]
  /\ ~reader.bad => reader.pos = 2 * Len(got)
  /\ 2 * Len(got) <= Len(logData)
  /\ \A i \in 1 .. Len(got) : got[i] = <<logData[2 * i - 1], logData[2 * i]>>

LogInv == ~upset => LogTyping /\ WriterRight /\ ReaderRight

(* The parts of the entries, one after the other.                          *)
LEMMA PartsAre ==
  ASSUME NEW e \in Seq(Nat)
  PROVE  /\ LogOf!Parts(e) \in Seq(Part) /\ Len(LogOf!Parts(e)) = 2 * Len(e)
         /\ \A i \in 1 .. 2 * Len(e) : LogOf!Parts(e)[i] =
              <<e[(i + 1) \div 2], IF i % 2 = 1 THEN 1 ELSE 2>>
         /\ \A i \in 1 .. Len(e) : LogOf!Parts(e)[2 * i - 1] = <<e[i], 1>>
                                   /\ LogOf!Parts(e)[2 * i] = <<e[i], 2>>
<1>1. Len(e) \in Nat /\ \A i \in 1 .. Len(e) : e[i] \in Nat
  BY LenProperties, ElementOfSeq
<1>2. \A i \in 1 .. 2 * Len(e) : (i + 1) \div 2 \in 1 .. Len(e)
  BY <1>1
<1>3. \A i \in 1 .. 2 * Len(e) : <<e[(i + 1) \div 2], IF i % 2 = 1 THEN 1 ELSE 2>> \in Part
  BY <1>1, <1>2 DEF Part
<1>4. LogOf!Parts(e) \in Seq(Part) /\ Len(LogOf!Parts(e)) = 2 * Len(e)
      /\ \A i \in 1 .. 2 * Len(e) : LogOf!Parts(e)[i] =
           <<e[(i + 1) \div 2], IF i % 2 = 1 THEN 1 ELSE 2>>
  <2> DEFINE m == 2 * Len(e)
             v(i) == <<e[(i + 1) \div 2], IF i % 2 = 1 THEN 1 ELSE 2>>
  <2>1. m \in Nat /\ \A i \in 1 .. m : v(i) \in Part
    BY <1>1, <1>3
  <2>2. LogOf!Parts(e) = [i \in 1 .. m |-> v(i)]
    BY DEF LogOf!Parts
  <2> HIDE DEF m, v
  <2>3. LogOf!Parts(e) \in Seq(Part) /\ Len(LogOf!Parts(e)) = m
        /\ \A i \in 1 .. m : LogOf!Parts(e)[i] = v(i)
    BY <2>1, <2>2
  <2> QED BY <2>3 DEF m, v
<1>5. \A i \in 1 .. Len(e) :
        /\ 2 * i - 1 \in 1 .. 2 * Len(e) /\ ((2 * i - 1) + 1) \div 2 = i /\ (2 * i - 1) % 2 = 1
        /\ 2 * i \in 1 .. 2 * Len(e) /\ (2 * i + 1) \div 2 = i /\ (2 * i) % 2 = 0
  BY <1>1
<1>6. ASSUME NEW i \in 1 .. Len(e)
      PROVE  LogOf!Parts(e)[2 * i - 1] = <<e[i], 1>> /\ LogOf!Parts(e)[2 * i] = <<e[i], 2>>
  <2> DEFINE x == 2 * i - 1
             y == 2 * i
  <2>1. /\ x \in 1 .. 2 * Len(e) /\ (x + 1) \div 2 = i /\ x % 2 = 1
        /\ y \in 1 .. 2 * Len(e) /\ (y + 1) \div 2 = i /\ y % 2 = 0
    BY <1>5
  <2> HIDE DEF x, y
  <2>2. LogOf!Parts(e)[x] = <<e[i], 1>>
    BY <1>4, <2>1
  <2>3. LogOf!Parts(e)[y] = <<e[i], 2>>
    BY <1>4, <2>1
  <2> QED BY <2>2, <2>3 DEF x, y
<1> QED BY <1>4, <1>6

LEMMA PartsGrow ==
  ASSUME NEW e \in Seq(Nat), NEW x \in Nat
  PROVE  LogOf!Parts(Append(e, x)) = LogOf!Parts(e) \o << <<x, 1>>, <<x, 2>> >>
<1> DEFINE f == Append(e, x)
           t == << <<x, 1>>, <<x, 2>> >>
           n == Len(e)
<1>1. f \in Seq(Nat) /\ Len(f) = n + 1 /\ n \in Nat /\ f[n + 1] = x /\ \A i \in 1 .. n : f[i] = e[i]
  BY AppendProperties, LenProperties
<1>2. t \in Seq(Part) /\ Len(t) = 2 /\ t[1] = <<x, 1>> /\ t[2] = <<x, 2>>
  BY DEF Part
<1> HIDE DEF f, t, n
<1>3. /\ LogOf!Parts(f) \in Seq(Part) /\ Len(LogOf!Parts(f)) = 2 * n + 2
      /\ \A i \in 1 .. 2 * n + 2 : LogOf!Parts(f)[i] =
           <<f[(i + 1) \div 2], IF i % 2 = 1 THEN 1 ELSE 2>>
  <2>1. 2 * Len(f) = 2 * n + 2
    BY <1>1
  <2> QED BY <1>1, <2>1, PartsAre
<1>4. /\ LogOf!Parts(e) \in Seq(Part) /\ Len(LogOf!Parts(e)) = 2 * n
      /\ \A i \in 1 .. 2 * n : LogOf!Parts(e)[i] =
           <<e[(i + 1) \div 2], IF i % 2 = 1 THEN 1 ELSE 2>>
  BY PartsAre DEF n
<1>5. /\ LogOf!Parts(e) \o t \in Seq(Part) /\ Len(LogOf!Parts(e) \o t) = 2 * n + 2
      /\ \A i \in 1 .. 2 * n + 2 : (LogOf!Parts(e) \o t)[i] =
           IF i <= 2 * n THEN LogOf!Parts(e)[i] ELSE t[i - 2 * n]
  <2> DEFINE p == LogOf!Parts(e)
  <2>1. p \in Seq(Part) /\ t \in Seq(Part) /\ Len(p) = 2 * n /\ Len(t) = 2
    BY <1>2, <1>4
  <2> HIDE DEF p
  <2>2. /\ p \o t \in Seq(Part) /\ Len(p \o t) = Len(p) + Len(t)
        /\ \A i \in 1 .. Len(p) + Len(t) : (p \o t)[i] = IF i <= Len(p) THEN p[i] ELSE t[i - Len(p)]
    BY <2>1, ConcatProperties
  <2> QED BY <2>1, <2>2 DEF p
<1>6. ASSUME NEW i \in 1 .. 2 * n + 2 PROVE LogOf!Parts(f)[i] = (LogOf!Parts(e) \o t)[i]
  <2>1. CASE i <= 2 * n
    <3>1. (i + 1) \div 2 \in 1 .. n /\ i \in 1 .. 2 * n
      BY <1>1, <2>1
    <3> QED BY <1>1, <1>3, <1>4, <1>5, <2>1, <3>1
  <2>2. CASE i = 2 * n + 1
    <3>1. (i + 1) \div 2 = n + 1 /\ i % 2 = 1 /\ ~(i <= 2 * n) /\ i - 2 * n = 1
      BY <1>1, <2>2
    <3> QED BY <1>1, <1>2, <1>3, <1>5, <3>1
  <2>3. CASE i = 2 * n + 2
    <3>1. (i + 1) \div 2 = n + 1 /\ i % 2 # 1 /\ ~(i <= 2 * n) /\ i - 2 * n = 2
      BY <1>1, <2>3
    <3> QED BY <1>1, <1>2, <1>3, <1>5, <3>1
  <2>4. i <= 2 * n \/ i = 2 * n + 1 \/ i = 2 * n + 2
    <3>1. n \in Nat /\ i \in 1 .. 2 * n + 2
      BY <1>1
    <3> QED BY <3>1
  <2> QED BY <2>1, <2>2, <2>3, <2>4
<1>7. LogOf!Parts(f) = LogOf!Parts(e) \o t
  BY <1>3, <1>5, <1>6, SeqEqual
<1> QED BY <1>7 DEF f, t

LEMMA LogInit == LogOf!Init => LogInv
<1> SUFFICES ASSUME LogOf!Init PROVE LogTyping /\ WriterRight /\ ReaderRight
  BY DEF LogInv
<1> USE DEF LogOf!Init, LogOf!NoWriter, LogOf!NoReader
<1>1. LogTyping
  BY EmptySeq DEF LogTyping
<1>2. WriterRight
  <2>1. LogOf!Parts(<<>>) = <<>>
    <3>1. <<>> \in Seq(Nat) /\ 2 * Len(<<>>) = 0
      BY EmptySeq
    <3>2. LogOf!Parts(<<>>) \in Seq(Part) /\ Len(LogOf!Parts(<<>>)) = 0
      BY <3>1, PartsAre
    <3> QED BY <3>2, EmptySeq
  <2>2. <<>> \o <<>> = <<>>
    BY ConcatEmptySeq, EmptySeq
  <2> QED BY <2>1, <2>2 DEF WriterRight
<1>3. ReaderRight
  <2>1. Len(<<>>) = 0 /\ 1 .. 0 = {}
    BY EmptySeq
  <2> QED BY <2>1 DEF ReaderRight
<1> QED BY <1>1, <1>2, <1>3

(* What goes to the file is put behind what is there.                      *)
LEMMA WrittenIs ==
  ASSUME LogTyping, WriterRight, NEW n \in 0 .. Len(writer.buffer)
  PROVE  /\ LogOf!Place = Len(logData)
         /\ LogOf!Written(n) = logData \o SubSeq(writer.buffer, 1, n)
         /\ SubSeq(writer.buffer, 1, n) \in Seq(Part) /\ Len(SubSeq(writer.buffer, 1, n)) = n
         /\ SubSeq(writer.buffer, n + 1, Len(writer.buffer)) \in Seq(Part)
         /\ SubSeq(writer.buffer, 1, n) \o SubSeq(writer.buffer, n + 1, Len(writer.buffer))
              = writer.buffer
<1> DEFINE b == writer.buffer
           d == logData
<1>1. b \in Seq(Part) /\ d \in Seq(Part) /\ Len(b) \in Nat /\ Len(d) \in Nat
  BY LenProperties DEF LogTyping
<1>2. LogOf!Place = Len(d)
  BY DEF LogOf!Place, WriterRight
<1>3. SubSeq(d, 1, Len(d)) = d /\ SubSeq(d, (Len(d) + n) + 1, Len(d)) = <<>>
  BY <1>1, SubSeqFull, SubSeqEmpty
<1>4. \A i \in 1 .. Len(b) : b[i] \in Part
  BY <1>1, ElementOfSeq
<1> HIDE DEF b, d
<1>5. SubSeq(b, 1, n) \in Seq(Part) /\ Len(SubSeq(b, 1, n)) = n
  <2>1. \A i \in 1 .. n : b[i] \in Part
    BY <1>1, <1>4 DEF b
  <2>2. n \in Int /\ (IF 1 <= n THEN n - 1 + 1 ELSE 0) = n
    BY <1>1 DEF b
  <2> QED BY <2>1, <2>2, SubSeqProperties
<1>6. SubSeq(b, n + 1, Len(b)) \in Seq(Part)
  <2>1. \A i \in n + 1 .. Len(b) : b[i] \in Part
    BY <1>1, <1>4 DEF b
  <2> QED BY <1>1, <2>1, SubSeqProperties DEF b
<1>7. SubSeq(b, 1, n) \o SubSeq(b, n + 1, Len(b)) = b
  <2>1. 1 \in 1 .. Len(b) + 1 /\ n \in 1 - 1 .. Len(b) /\ Len(b) \in n .. Len(b)
    BY <1>1 DEF b
  <2>2. SubSeq(b, 1, n) \o SubSeq(b, n + 1, Len(b)) = SubSeq(b, 1, Len(b))
    BY <1>1, <2>1, ConcatAdjacentSubSeq
  <2> QED BY <1>1, <2>2, SubSeqFull
<1>8. d \o SubSeq(b, 1, n) \in Seq(Part)
  BY <1>1, <1>5, ConcatProperties
<1>9. LogOf!Written(n) = d \o SubSeq(b, 1, n)
  <2>1. LogOf!Written(n) = (SubSeq(d, 1, Len(d)) \o SubSeq(b, 1, n)) \o SubSeq(d, (Len(d) + n) + 1, Len(d))
    BY <1>2 DEF LogOf!Written, b, d
  <2> QED BY <1>3, <1>8, <2>1, ConcatEmptySeq
<1> QED BY <1>2, <1>5, <1>6, <1>7, <1>9 DEF b, d

(* The reader is not disturbed by what is added to the file.               *)
LEMMA ReaderUndisturbed ==
  ASSUME LogTyping, ReaderRight, UNCHANGED <<reader, got>>,
         NEW t \in Seq(Part), logData' = logData \o t
  PROVE  ReaderRight'
<1>1. logData \in Seq(Part) /\ Len(logData) \in Nat /\ Len(t) \in Nat /\ Len(got) \in Nat
      /\ Len(reader.seen) \in Nat
  BY LenProperties DEF LogTyping
<1>2. Len(logData') = Len(logData) + Len(t) /\ \A i \in 1 .. Len(logData) : logData'[i] = logData[i]
  BY <1>1, ConcatProperties
<1>3. \A i \in 1 .. Len(got) : 2 * i - 1 \in 1 .. Len(logData) /\ 2 * i \in 1 .. Len(logData)
  BY <1>1 DEF ReaderRight
<1> QED BY <1>1, <1>2, <1>3 DEF ReaderRight, LogOf!NoReader

(* All of the buffer but its first n parts is kept.                        *)
LEMMA FlushRight ==
  ASSUME LogTyping, WriterRight, ReaderRight, NEW n \in 0 .. Len(writer.buffer),
         logData' = LogOf!Written(n), UNCHANGED <<stored, next, reader, got>>,
         writer' \in [s : BOOLEAN, app : BOOLEAN, bad : {FALSE}, buffer : Seq(Part), at : Int],
         writer'.buffer = SubSeq(writer.buffer, n + 1, Len(writer.buffer)),
         writer'.app \/ writer'.at = Len(logData) + n,
         ~writer'.s => writer'.buffer = <<>>
  PROVE  LogTyping' /\ WriterRight' /\ ReaderRight'
<1> DEFINE t == SubSeq(writer.buffer, 1, n)
<1>1. t \in Seq(Part) /\ Len(t) = n /\ logData' = logData \o t
      /\ t \o writer'.buffer = writer.buffer
  BY WrittenIs
<1>2. logData \in Seq(Part) /\ writer'.buffer \in Seq(Part) /\ Len(logData) \in Nat
  BY LenProperties DEF LogTyping
<1> HIDE DEF t
<1>3. logData' \in Seq(Part) /\ Len(logData') = Len(logData) + n
  <2> DEFINE d == logData
  <2>1. d \in Seq(Part) /\ t \in Seq(Part) /\ logData' = d \o t /\ Len(t) = n
    BY <1>1, <1>2
  <2> HIDE DEF d
  <2>2. d \o t \in Seq(Part) /\ Len(d \o t) = Len(d) + Len(t)
    BY <2>1, ConcatProperties
  <2> QED BY <2>1, <2>2 DEF d
<1>4. LogTyping'
  BY <1>3 DEF LogTyping
<1>5. logData' \o writer'.buffer = logData \o writer.buffer
  <2> DEFINE d == logData
             b == writer'.buffer
  <2>1. d \in Seq(Part) /\ b \in Seq(Part) /\ t \in Seq(Part)
    BY <1>1, <1>2
  <2> HIDE DEF d, b
  <2>2. (d \o t) \o b = d \o (t \o b)
    BY ONLY <2>1, ConcatAssociative
  <2> QED BY <1>1, <2>2 DEF d, b
<1>6. LogOf!Parts(stored)' = LogOf!Parts(stored)
  BY DEF LogOf!Parts
<1>7. WriterRight'
  BY <1>3, <1>5, <1>6 DEF WriterRight
<1> QED BY <1>1, <1>4, <1>7, ReaderUndisturbed

(* A buffer that goes to the file as a whole.                              *)
LEMMA FlushAllRight ==
  ASSUME LogTyping, WriterRight, ReaderRight, logData' = LogOf!Written(LogOf!Fitting),
         ~(LogOf!Fitting < Len(writer.buffer)), UNCHANGED <<stored, next, reader, got>>,
         writer' \in [s : BOOLEAN, app : BOOLEAN, bad : {FALSE}, buffer : {<<>>}, at : Int],
         writer'.app \/ writer'.at = Len(logData')
  PROVE  LogTyping' /\ WriterRight' /\ ReaderRight'
<1>1. Len(writer.buffer) \in Nat /\ Len(logData) \in Nat /\ writer.buffer \in Seq(Part)
      /\ logData \in Seq(Part)
  BY LenProperties DEF LogTyping
<1> DEFINE n == Len(writer.buffer)
<1>2. LogOf!Fitting = n
  <2>1. LogOf!Room \in Int
    <3>1. LogOf!Place = Len(logData)
      <4>1. 0 \in 0 .. Len(writer.buffer)
        BY <1>1
      <4> QED BY <4>1, WrittenIs
    <3> QED BY <1>1, <3>1, ServicesAssumption DEF LogOf!Room
  <2> QED BY <1>1, <2>1 DEF LogOf!Fitting
<1>3. n \in 0 .. Len(writer.buffer) /\ n < n + 1
  BY <1>1
<1>4. SubSeq(writer.buffer, n + 1, Len(writer.buffer)) = <<>>
  BY <1>1, <1>3, SubSeqEmpty
<1>5. logData' = logData \o SubSeq(writer.buffer, 1, n) /\ SubSeq(writer.buffer, 1, n) \in Seq(Part)
      /\ Len(SubSeq(writer.buffer, 1, n)) = n
  BY <1>2, <1>3, WrittenIs
<1>6. Len(logData') = Len(logData) + n
  <2> HIDE DEF n
  <2> QED BY <1>1, <1>5, ConcatProperties
<1>7. writer' \in [s : BOOLEAN, app : BOOLEAN, bad : {FALSE}, buffer : Seq(Part), at : Int]
      /\ writer'.buffer = <<>>
  BY EmptySeq
<1> HIDE DEF n
<1> QED BY <1>2, <1>3, <1>4, <1>6, <1>7, FlushRight DEF n

(* A part, or the end of what there is.                                    *)
LEMMA ReadPartIs ==
  ASSUME LogTyping,
         NEW r \in [s : BOOLEAN, bad : BOOLEAN, seen : Seq(Part), pos : Nat],
         Len(r.seen) <= Len(logData), r.pos <= Len(r.seen),
         \A i \in 1 .. Len(r.seen) : r.seen[i] = logData[i]
  PROVE  LET q == LogOf!ReadPart(r)
         IN  /\ q \in [s : BOOLEAN, bad : BOOLEAN, seen : Seq(Part), pos : Nat]
             /\ q.s = r.s
             /\ Len(q.seen) <= Len(logData) /\ q.pos <= Len(q.seen)
             /\ \A i \in 1 .. Len(q.seen) : q.seen[i] = logData[i]
             /\ r.bad => q.bad
             /\ ~q.bad => q.pos = r.pos + 1
<1> DEFINE seen == LogOf!Refill(r)
           rest == SubSeq(logData, Len(r.seen) + 1, Len(logData))
<1>1. r.seen \in Seq(Part) /\ Len(r.seen) \in Nat /\ logData \in Seq(Part) /\ Len(logData) \in Nat
      /\ r.pos \in Nat
  BY LenProperties DEF LogTyping
<1>2. rest \in Seq(Part) /\ Len(rest) = Len(logData) - Len(r.seen)
      /\ \A i \in 1 .. Len(logData) - Len(r.seen) : rest[i] = logData[Len(r.seen) + i]
  <2>1. \A i \in Len(r.seen) + 1 .. Len(logData) : logData[i] \in Part
    BY <1>1, ElementOfSeq
  <2>2. Len(r.seen) + 1 \in Int /\ Len(logData) \in Int
    BY <1>1
  <2>3. /\ rest \in Seq(Part)
        /\ Len(rest) = IF Len(r.seen) + 1 <= Len(logData)
                       THEN Len(logData) - (Len(r.seen) + 1) + 1 ELSE 0
        /\ \A i \in 1 .. Len(logData) - (Len(r.seen) + 1) + 1 : rest[i] = logData[(Len(r.seen) + 1) + i - 1]
    BY <2>1, <2>2, SubSeqProperties
  <2> HIDE DEF rest
  <2>4. Len(rest) = Len(logData) - Len(r.seen)
    BY <1>1, <2>3
  <2>5. \A i \in 1 .. Len(logData) - Len(r.seen) :
          /\ i \in 1 .. Len(logData) - (Len(r.seen) + 1) + 1
          /\ (Len(r.seen) + 1) + i - 1 = Len(r.seen) + i
    BY <1>1
  <2> QED BY <2>3, <2>4, <2>5
<1>3. seen \in Seq(Part) /\ Len(seen) <= Len(logData) /\ r.pos <= Len(seen)
      /\ \A i \in 1 .. Len(seen) : seen[i] = logData[i]
  <2>1. CASE r.pos < Len(r.seen)
    BY <1>1, <2>1 DEF LogOf!Refill
  <2>2. CASE ~(r.pos < Len(r.seen))
    <3>1. seen = r.seen \o rest
      BY <2>2 DEF LogOf!Refill
    <3> HIDE DEF seen, rest
    <3>2. /\ seen \in Seq(Part) /\ Len(seen) = Len(logData)
          /\ \A i \in 1 .. Len(logData) :
               seen[i] = IF i <= Len(r.seen) THEN r.seen[i] ELSE rest[i - Len(r.seen)]
      <4>1. /\ r.seen \o rest \in Seq(Part) /\ Len(r.seen \o rest) = Len(r.seen) + Len(rest)
            /\ \A i \in 1 .. Len(r.seen) + Len(rest) :
                 (r.seen \o rest)[i] = IF i <= Len(r.seen) THEN r.seen[i] ELSE rest[i - Len(r.seen)]
        BY <1>1, <1>2, ConcatProperties
      <4>2. Len(r.seen) + Len(rest) = Len(logData)
        BY <1>1, <1>2
      <4> QED BY <3>1, <4>1, <4>2
    <3>3. ASSUME NEW i \in 1 .. Len(logData) PROVE seen[i] = logData[i]
      <4>1. CASE i <= Len(r.seen)
        <5>1. i \in 1 .. Len(r.seen)
          BY <1>1, <4>1
        <5> QED BY <3>2, <4>1, <5>1
      <4>2. CASE ~(i <= Len(r.seen))
        <5>1. i - Len(r.seen) \in 1 .. Len(logData) - Len(r.seen)
              /\ Len(r.seen) + (i - Len(r.seen)) = i
          BY <1>1, <4>2
        <5> QED BY <1>2, <3>2, <4>2, <5>1
      <4> QED BY <4>1, <4>2
    <3> QED BY <1>1, <3>2, <3>3
  <2> QED BY <2>1, <2>2
<1> HIDE DEF seen
<1>4. CASE r.bad \/ r.pos >= Len(seen)
  <2>1. LogOf!ReadPart(r) = [r EXCEPT !.bad = TRUE]
    BY <1>4 DEF LogOf!ReadPart, seen
  <2> QED BY <1>1, <2>1
<1>5. CASE ~(r.bad \/ r.pos >= Len(seen))
  <2>1. LogOf!ReadPart(r) = [r EXCEPT !.seen = seen, !.pos = r.pos + 1]
    BY <1>5 DEF LogOf!ReadPart, seen
  <2>2. Len(seen) \in Nat /\ r.pos + 1 <= Len(seen) /\ r.pos + 1 \in Nat
    BY <1>1, <1>3, <1>5, LenProperties
  <2> QED BY <1>1, <1>3, <1>5, <2>1, <2>2
<1> QED BY <1>4, <1>5

(* A writer that begins with nothing buffered.                             *)
LEMMA NewWriter ==
  ASSUME LogTyping, WriterRight, ReaderRight, writer.buffer = <<>>,
         UNCHANGED <<logData, stored, next, reader, got>>, NEW s \in BOOLEAN,
         writer' = [s |-> s, app |-> TRUE, bad |-> FALSE, buffer |-> <<>>, at |-> 0]
  PROVE  LogTyping' /\ WriterRight' /\ ReaderRight'
<1>1. /\ writer' \in [s : BOOLEAN, app : BOOLEAN, bad : BOOLEAN, buffer : Seq(Part), at : Int]
      /\ writer'.app /\ ~writer'.bad /\ writer'.buffer = <<>>
  BY EmptySeq
<1>2. LogTyping'
  BY <1>1 DEF LogTyping
<1>3. WriterRight'
  BY <1>1 DEF WriterRight, LogOf!Parts
<1>4. ReaderRight'
  BY DEF ReaderRight, LogOf!NoReader
<1> QED BY <1>2, <1>3, <1>4

LEMMA LogStep ==
  ASSUME LogInv, [LogOf!Next]_logVars
  PROVE  LogInv'
<1> SUFFICES ASSUME ~upset' PROVE LogTyping' /\ WriterRight' /\ ReaderRight'
  BY DEF LogInv
<1>0. ASSUME ~upset PROVE LogTyping /\ WriterRight /\ ReaderRight
  BY <1>0 DEF LogInv
<1> USE DEF LogOf!NoWriter, LogOf!NoReader
<1>1. CASE LogOf!OpenAppend
  <2>1. ~upset /\ UNCHANGED <<logData, stored, next, reader, got>> /\ ~writer.s
        /\ writer' = [s |-> TRUE, app |-> TRUE, bad |-> FALSE, buffer |-> <<>>, at |-> 0]
    BY <1>1 DEF LogOf!OpenAppend
  <2>2. writer.buffer = <<>>
    BY <1>0, <2>1 DEF WriterRight
  <2> QED BY <1>0, <2>1, <2>2, NewWriter
<1>2. CASE LogOf!OpenTruncate
  <2>1. ~upset /\ ~reader.s /\ UNCHANGED <<next, reader, got>> /\ logData' = <<>> /\ stored' = <<>>
        /\ writer' = [s |-> TRUE, app |-> FALSE, bad |-> FALSE, buffer |-> <<>>, at |-> 0]
    BY <1>2 DEF LogOf!OpenTruncate
  <2>2. Len(<<>>) = 0 /\ <<>> \in Seq(Part) /\ <<>> \in Seq(Nat)
    BY EmptySeq
  <2>3. LogTyping'
    BY <1>0, <2>1, <2>2 DEF LogTyping
  <2>4. WriterRight'
    <3>1. LogOf!Parts(stored)' = LogOf!Parts(<<>>) /\ 2 * Len(<<>>) = 0
      BY <2>1, <2>2 DEF LogOf!Parts
    <3>2. LogOf!Parts(<<>>) \in Seq(Part) /\ Len(LogOf!Parts(<<>>)) = 0
      BY <2>2, <3>1, PartsAre
    <3>3. LogOf!Parts(<<>>) = <<>> /\ <<>> \o <<>> = <<>>
      BY <2>2, <3>2, EmptySeq, ConcatEmptySeq
    <3> QED BY <2>1, <2>2, <3>1, <3>3 DEF WriterRight
  <2>5. ReaderRight'
    <3>1. reader' = LogOf!NoReader /\ got' = <<>> /\ LogOf!NoReader' = LogOf!NoReader
      BY <1>0, <2>1 DEF ReaderRight
    <3>2. 2 * 0 = 0 /\ 1 .. 0 = {}
      OBVIOUS
    <3> QED BY <2>1, <2>2, <3>1, <3>2 DEF ReaderRight
  <2> QED BY <2>3, <2>4, <2>5
<1>3. CASE LogOf!Record
  <2>1. ~upset /\ next' = next + 1 /\ UNCHANGED <<logData, reader, got, upset>>
    BY <1>3 DEF LogOf!Record
  <2>2. ReaderRight'
    BY <1>0, <2>1 DEF ReaderRight
  <2>3. CASE writer.s
    <3> DEFINE t == << <<next, 1>>, <<next, 2>> >>
               b == writer.buffer
    <3>1. writer' = [writer EXCEPT !.buffer = b \o t] /\ stored' = Append(stored, next)
      BY <1>0, <1>3, <2>1, <2>3 DEF LogOf!Record, WriterRight
    <3>2. next \in Nat /\ stored \in Seq(Nat) /\ b \in Seq(Part) /\ logData \in Seq(Part)
      BY <1>0, <2>1 DEF LogTyping
    <3>3. t \in Seq(Part)
      BY <3>2 DEF Part
    <3> HIDE DEF t, b
    <3>4. b \o t \in Seq(Part) /\ stored' \in Seq(Nat) /\ next' \in Nat
      BY <2>1, <3>1, <3>2, <3>3, ConcatProperties, AppendProperties
    <3>5. LogTyping'
      BY <1>0, <2>1, <3>1, <3>4 DEF LogTyping
    <3>6. LogOf!Parts(stored)' = LogOf!Parts(stored) \o t
      <4>1. LogOf!Parts(stored)' = LogOf!Parts(Append(stored, next))
        BY <3>1 DEF LogOf!Parts
      <4> QED BY <3>2, <4>1, PartsGrow DEF t
    <3>7. LogOf!Parts(stored) \o t = logData \o (b \o t)
      <4>1. LogOf!Parts(stored) = logData \o b
        BY <1>0, <2>1 DEF WriterRight, b
      <4> QED BY <3>2, <3>3, <4>1, ConcatAssociative
    <3>8. writer'.buffer = b \o t /\ writer'.bad = writer.bad /\ writer'.app = writer.app
          /\ writer'.at = writer.at /\ writer'.s = writer.s
      BY <1>0, <2>1, <3>1 DEF LogTyping
    <3>9. WriterRight'
      BY <1>0, <2>1, <2>3, <3>6, <3>7, <3>8 DEF WriterRight
    <3> QED BY <2>2, <3>5, <3>9
  <2>4. CASE ~writer.s
    <3>1. UNCHANGED <<writer, stored>>
      BY <1>3, <2>4 DEF LogOf!Record
    <3>2. LogTyping'
      BY <1>0, <2>1, <3>1 DEF LogTyping
    <3>3. WriterRight'
      BY <1>0, <2>1, <3>1 DEF WriterRight, LogOf!Parts
    <3> QED BY <2>2, <3>2, <3>3
  <2> QED BY <2>3, <2>4
<1>4. CASE LogOf!Spill
  <2>1. PICK n \in 1 .. Len(writer.buffer) :
          IF n <= LogOf!Room
          THEN /\ logData' = LogOf!Written(n)
               /\ writer' = [writer EXCEPT !.buffer = SubSeq(@, n + 1, Len(@)), !.at = LogOf!Place + n]
               /\ UNCHANGED upset
          ELSE upset'
    BY <1>4 DEF LogOf!Spill
  <2>2. ~upset /\ logData' = LogOf!Written(n) /\ UNCHANGED <<stored, next, reader, got>>
        /\ writer' = [writer EXCEPT !.buffer = SubSeq(@, n + 1, Len(@)), !.at = LogOf!Place + n]
    BY <1>4, <2>1 DEF LogOf!Spill
  <2>3. Len(writer.buffer) \in Nat /\ Len(logData) \in Nat
    BY <1>0, <2>2, LenProperties DEF LogTyping
  <2>4. n \in 0 .. Len(writer.buffer)
    BY <2>3
  <2>5. LogOf!Place = Len(logData) /\ SubSeq(writer.buffer, n + 1, Len(writer.buffer)) \in Seq(Part)
    BY <1>0, <2>2, <2>4, WrittenIs
  <2>6. /\ writer' \in [s : BOOLEAN, app : BOOLEAN, bad : {FALSE}, buffer : Seq(Part), at : Int]
        /\ writer'.buffer = SubSeq(writer.buffer, n + 1, Len(writer.buffer))
        /\ writer'.at = Len(logData) + n /\ writer'.s = writer.s
    <3> DEFINE b == SubSeq(writer.buffer, n + 1, Len(writer.buffer))
               a == LogOf!Place + n
    <3>1. b \in Seq(Part) /\ a = Len(logData) + n /\ a \in Int
      BY <2>3, <2>5
    <3>2. writer' = [writer EXCEPT !.buffer = b, !.at = a]
      BY <2>2
    <3>3. writer \in [s : BOOLEAN, app : BOOLEAN, bad : {FALSE}, buffer : Seq(Part), at : Int]
      BY <1>0, <2>2 DEF LogTyping, WriterRight
    <3> HIDE DEF a, b
    <3>4. /\ writer' \in [s : BOOLEAN, app : BOOLEAN, bad : {FALSE}, buffer : Seq(Part), at : Int]
          /\ writer'.buffer = b /\ writer'.at = a /\ writer'.s = writer.s
      BY <3>1, <3>2, <3>3
    <3> QED BY <3>1, <3>4 DEF b
  <2>7. writer.s
    <3>1. CASE ~writer.s
      <4>1. writer.buffer = <<>> /\ writer.buffer # <<>>
        BY <1>0, <1>4, <2>2, <3>1 DEF WriterRight, LogOf!Spill
      <4> QED BY <4>1
    <3> QED BY <1>0, <2>2, <3>1 DEF LogTyping
  <2> QED BY <1>0, <2>2, <2>4, <2>6, <2>7, FlushRight
<1>5. CASE LogOf!Close
  <2>1. ~upset /\ ~(LogOf!Fitting < Len(writer.buffer)) /\ logData' = LogOf!Written(LogOf!Fitting)
        /\ UNCHANGED <<stored, next, reader, got>>
        /\ writer' = [s |-> FALSE, app |-> TRUE, bad |-> FALSE, buffer |-> <<>>, at |-> 0]
    BY <1>5 DEF LogOf!Close
  <2> QED BY <1>0, <2>1, FlushAllRight
<1>6. CASE LogOf!RewindWriter
  <2>1. ~upset /\ ~(LogOf!Fitting < Len(writer.buffer)) /\ (~writer.app => logData' = <<>>)
        /\ logData' = LogOf!Written(LogOf!Fitting) /\ UNCHANGED <<stored, next, reader, got>>
        /\ writer' = [writer EXCEPT !.buffer = <<>>, !.bad = LogOf!Fitting < Len(writer.buffer), !.at = 0]
    BY <1>6 DEF LogOf!RewindWriter
  <2>2. writer' = [writer EXCEPT !.buffer = <<>>, !.bad = FALSE, !.at = 0]
    <3>1. (LogOf!Fitting < Len(writer.buffer)) = FALSE
      BY <2>1
    <3> QED BY ONLY <2>1, <3>1
  <2>3. writer' \in [s : BOOLEAN, app : BOOLEAN, bad : {FALSE}, buffer : {<<>>}, at : Int]
        /\ writer'.app = writer.app /\ writer'.at = 0
    <3>1. writer \in [s : BOOLEAN, app : BOOLEAN, bad : BOOLEAN, buffer : Seq(Part), at : Int]
      BY <1>0, <2>1 DEF LogTyping
    <3> DEFINE e == <<>>
    <3>2. e \in {e} /\ writer' = [writer EXCEPT !.buffer = e, !.bad = FALSE, !.at = 0]
      BY <2>2
    <3> HIDE DEF e
    <3>3. writer' = [s |-> writer.s, app |-> writer.app, bad |-> FALSE, buffer |-> e, at |-> 0]
      BY <3>1, <3>2
    <3>4. writer.s \in BOOLEAN /\ writer.app \in BOOLEAN /\ 0 \in Int
      BY <3>1
    <3>5. writer'.app = writer.app /\ writer'.at = 0
      BY <3>3
    <3>6. writer' \in [s : BOOLEAN, app : BOOLEAN, bad : {FALSE}, buffer : {e}, at : Int]
      BY ONLY <3>2, <3>3, <3>4
    <3> QED BY <3>5, <3>6 DEF e
  <2>4. writer'.app \/ writer'.at = Len(logData')
    BY <1>0, <2>1, <2>3, EmptySeq DEF LogTyping
  <2> QED BY <1>0, <2>1, <2>3, <2>4, FlushAllRight
<1>7. CASE LogOf!Crash
  <2>1. ~upset /\ writer.buffer = <<>> /\ UNCHANGED <<logData, stored, next, reader, got>>
        /\ writer' = [s |-> FALSE, app |-> TRUE, bad |-> FALSE, buffer |-> <<>>, at |-> 0]
    BY <1>7 DEF LogOf!Crash
  <2> QED BY <1>0, <2>1, NewWriter
<1>8. CASE LogOf!OpenRead \/ LogOf!CloseRead
  <2>1. ~upset /\ UNCHANGED <<logData, stored, next, writer>> /\ got' = <<>>
        /\ \/ reader' = [s |-> TRUE, bad |-> FALSE, seen |-> <<>>, pos |-> 0]
           \/ reader' = [s |-> FALSE, bad |-> FALSE, seen |-> <<>>, pos |-> 0]
    BY <1>8 DEF LogOf!OpenRead, LogOf!CloseRead
  <2>2. LogTyping'
    <3>1. <<>> \in Seq(Part) /\ got' \in Seq(Part \X Part)
      BY <2>1, EmptySeq
    <3>2. reader' \in [s : BOOLEAN, bad : BOOLEAN, seen : Seq(Part), pos : Nat]
      <4> DEFINE e == <<>>
      <4>1. e \in Seq(Part) /\ 0 \in Nat
        BY <3>1
      <4>2. PICK b \in BOOLEAN : reader' = [s |-> b, bad |-> FALSE, seen |-> e, pos |-> 0]
        BY <2>1
      <4> HIDE DEF e
      <4> QED BY ONLY <4>1, <4>2
    <3> QED BY <1>0, <2>1, <3>1, <3>2 DEF LogTyping
  <2>3. Len(<<>>) = 0 /\ 1 .. 0 = {} /\ 2 * 0 = 0 /\ Len(logData) \in Nat
    BY <1>0, <2>1, EmptySeq, LenProperties DEF LogTyping
  <2>4. ReaderRight'
    BY <2>1, <2>3 DEF ReaderRight
  <2>5. WriterRight'
    BY <1>0, <2>1 DEF WriterRight, LogOf!Parts
  <2> QED BY <2>2, <2>4, <2>5
<1>9. CASE LogOf!Rewind
  <2>1. ~upset /\ UNCHANGED <<logData, stored, next, writer>> /\ reader.s
    BY <1>9 DEF LogOf!Rewind
  <2>2. CASE reader.bad
    <3>1. UNCHANGED <<reader, got>>
      BY <1>9, <2>2 DEF LogOf!Rewind
    <3>2. LogTyping'
      BY <1>0, <2>1, <3>1 DEF LogTyping
    <3>3. WriterRight'
      BY <1>0, <2>1 DEF WriterRight, LogOf!Parts
    <3>4. ReaderRight'
      BY <1>0, <2>1, <3>1 DEF ReaderRight
    <3> QED BY <3>2, <3>3, <3>4
  <2>3. CASE ~reader.bad
    <3>1. reader' = [reader EXCEPT !.seen = <<>>, !.pos = 0] /\ got' = <<>>
      BY <1>9, <2>3 DEF LogOf!Rewind
    <3>2. LogTyping' /\ reader'.s
      BY <1>0, <2>1, <3>1, EmptySeq DEF LogTyping
    <3>6. WriterRight'
      BY <1>0, <2>1 DEF WriterRight, LogOf!Parts
    <3>3. Len(<<>>) = 0 /\ 1 .. 0 = {} /\ 2 * 0 = 0 /\ Len(logData) \in Nat
      BY <1>0, <2>1, EmptySeq, LenProperties DEF LogTyping
    <3>4. reader'.seen = <<>> /\ reader'.pos = 0
      BY <1>0, <2>1, <3>1 DEF LogTyping
    <3>5. ReaderRight'
      BY <2>1, <3>1, <3>2, <3>3, <3>4 DEF ReaderRight
    <3> QED BY <3>2, <3>5, <3>6
  <2> QED BY <2>2, <2>3
<1>10. CASE LogOf!GetNext
  <2> DEFINE q == LogOf!ReadPart(reader)
             r == LogOf!ReadPart(q)
  <2>1. ~upset /\ UNCHANGED <<logData, stored, next, writer>> /\ reader.s /\ reader' = r
        /\ got' = IF r.bad THEN got ELSE Append(got, <<r.seen[r.pos - 1], r.seen[r.pos]>>)
    BY <1>10 DEF LogOf!GetNext
  <2>2. LogTyping /\ WriterRight /\ ReaderRight
    BY <1>0, <2>1
  <2>3. /\ reader \in [s : BOOLEAN, bad : BOOLEAN, seen : Seq(Part), pos : Nat]
        /\ Len(reader.seen) <= Len(logData) /\ reader.pos <= Len(reader.seen)
        /\ \A i \in 1 .. Len(reader.seen) : reader.seen[i] = logData[i]
    BY <2>2 DEF LogTyping, ReaderRight
  <2>4. /\ q \in [s : BOOLEAN, bad : BOOLEAN, seen : Seq(Part), pos : Nat]
        /\ q.s = reader.s
        /\ Len(q.seen) <= Len(logData) /\ q.pos <= Len(q.seen)
        /\ \A i \in 1 .. Len(q.seen) : q.seen[i] = logData[i]
        /\ reader.bad => q.bad
        /\ ~q.bad => q.pos = reader.pos + 1
    BY <2>2, <2>3, ReadPartIs
  <2> HIDE DEF q
  <2>5. /\ r \in [s : BOOLEAN, bad : BOOLEAN, seen : Seq(Part), pos : Nat]
        /\ r.s = q.s
        /\ Len(r.seen) <= Len(logData) /\ r.pos <= Len(r.seen)
        /\ \A i \in 1 .. Len(r.seen) : r.seen[i] = logData[i]
        /\ q.bad => r.bad
        /\ ~r.bad => r.pos = q.pos + 1
    BY <2>2, <2>4, ReadPartIs
  <2> HIDE DEF r
  <2>6. WriterRight'
    BY <2>1, <2>2 DEF WriterRight, LogOf!Parts
  <2>7. CASE r.bad
    <3>1. got' = got /\ reader'.s
      BY <2>1, <2>4, <2>5, <2>7
    <3>2. LogTyping'
      BY <2>1, <2>2, <2>5, <3>1 DEF LogTyping
    <3>3. ReaderRight'
      BY <2>1, <2>2, <2>5, <2>7, <3>1 DEF ReaderRight
    <3> QED BY <2>6, <3>2, <3>3
  <2>8. CASE ~r.bad
    <3> DEFINE g == Len(got)
               x == <<r.seen[r.pos - 1], r.seen[r.pos]>>
    <3>1. got' = Append(got, x)
      BY <2>1, <2>8
    <3>2. ~q.bad /\ ~reader.bad
      BY <2>4, <2>5, <2>8
    <3>3. reader.pos = 2 * g /\ q.pos = reader.pos + 1 /\ r.pos = q.pos + 1
      BY <2>2, <2>4, <2>5, <2>8, <3>2 DEF ReaderRight
    <3>4. g \in Nat /\ Len(logData) \in Nat /\ Len(r.seen) \in Nat /\ got \in Seq(Part \X Part)
          /\ logData \in Seq(Part)
      BY <2>2, <2>5, LenProperties DEF LogTyping
    <3>5. r.pos = 2 * g + 2 /\ r.pos - 1 = 2 * g + 1
      <4> HIDE DEF g
      <4> QED BY <3>3, <3>4
    <3>6. 2 * g + 2 <= Len(logData) /\ 2 * g + 1 \in 1 .. Len(r.seen) /\ 2 * g + 2 \in 1 .. Len(r.seen)
      <4> HIDE DEF g
      <4>1. Len(r.seen) <= Len(logData) /\ 2 * g + 2 <= Len(r.seen)
        BY <2>5, <3>5
      <4> QED BY <3>4, <4>1
    <3>7. x = <<logData[2 * g + 1], logData[2 * g + 2]>>
      BY <2>5, <3>5, <3>6
    <3>8. x \in Part \X Part
      <4>1. 2 * g + 1 \in 1 .. Len(logData) /\ 2 * g + 2 \in 1 .. Len(logData)
        BY <3>4, <3>6
      <4>2. logData[2 * g + 1] \in Part /\ logData[2 * g + 2] \in Part
        BY <3>4, <4>1, ElementOfSeq
      <4> QED BY <3>7, <4>2
    <3> HIDE DEF x
    <3>9. got' \in Seq(Part \X Part) /\ Len(got') = g + 1 /\ got'[g + 1] = x
          /\ \A i \in 1 .. g : got'[i] = got[i]
      BY <3>1, <3>4, <3>8, AppendProperties
    <3>10. LogTyping'
      BY <2>1, <2>2, <2>5, <3>9 DEF LogTyping
    <3>11. ReaderRight'
      <4> HIDE DEF g
      <4>1. reader'.s
        BY <2>1, <2>4, <2>5
      <4>2. /\ Len(reader'.seen) <= Len(logData) /\ reader'.pos <= Len(reader'.seen)
            /\ \A i \in 1 .. Len(reader'.seen) : reader'.seen[i] = logData[i]
        BY <2>1, <2>5
      <4>3. reader'.pos = 2 * Len(got') /\ 2 * Len(got') <= Len(logData)
        <5>1. Len(got') = g + 1 /\ g \in Nat
          BY <3>4, <3>9
        <5>2. 2 * (g + 1) = 2 * g + 2
          BY <5>1
        <5>3. reader'.pos = 2 * g + 2
          BY <2>1, <3>5
        <5> QED BY <3>6, <5>1, <5>2, <5>3
      <4>4. ASSUME NEW i \in 1 .. Len(got') PROVE got'[i] = <<logData[2 * i - 1], logData[2 * i]>>
        <5>1. CASE i \in 1 .. g
          <6>1. got[i] = <<logData[2 * i - 1], logData[2 * i]>>
            BY <2>2, <5>1 DEF ReaderRight, g
          <6> QED BY <3>9, <5>1, <6>1
        <5>2. CASE i = g + 1
          <6>1. 2 * i - 1 = 2 * g + 1 /\ 2 * i = 2 * g + 2
            BY <3>4, <5>2
          <6> QED BY <3>7, <3>9, <5>2, <6>1
        <5> QED BY <3>4, <3>9, <5>1, <5>2
      <4> QED BY <2>1, <4>1, <4>2, <4>3, <4>4 DEF ReaderRight
    <3> QED BY <2>6, <3>10, <3>11
  <2> QED BY <2>7, <2>8
<1>11. CASE UNCHANGED logVars
  <2>1. ~upset /\ UNCHANGED logVars
    BY <1>11 DEF logVars
  <2> QED BY <1>0, <2>1 DEF logVars, LogTyping, WriterRight, ReaderRight, LogOf!Parts
<1> QED BY <1>1, <1>2, <1>3, <1>4, <1>5, <1>6, <1>7, <1>8, <1>9, <1>10, <1>11 DEF LogOf!Next

(* Sequences of which one begins like the other.                           *)
LEMMA SamePrefix ==
  ASSUME NEW S, NEW T, NEW s \in Seq(S), NEW t \in Seq(T), Len(s) <= Len(t),
         \A i \in 1 .. Len(s) : s[i] = t[i]
  PROVE  SubSeq(s, 1, Len(s)) = SubSeq(t, 1, Len(s))
<1>1. Len(s) \in Nat /\ Len(t) \in Nat
  BY LenProperties
<1> DEFINE k == Len(s)
           u == SubSeq(t, 1, k)
<1>2. SubSeq(s, 1, k) = s
  BY SubSeqFull
<1>3. \A i \in 1 .. k : t[i] \in T
  BY <1>1, ElementOfSeq
<1>4. (IF 1 <= k THEN k - 1 + 1 ELSE 0) = k /\ k \in Int
      /\ \A i \in 1 .. k : i \in 1 .. k - 1 + 1 /\ 1 + i - 1 = i
  BY <1>1
<1>5. /\ u \in Seq(T) /\ Len(u) = IF 1 <= k THEN k - 1 + 1 ELSE 0
      /\ \A i \in 1 .. k - 1 + 1 : u[i] = t[1 + i - 1]
  BY <1>3, <1>4, SubSeqProperties
<1> HIDE DEF u
<1>6. Len(u) = Len(s) /\ \A i \in 1 .. Len(s) : s[i] = u[i]
  BY <1>4, <1>5
<1>7. s = u
  BY <1>5, <1>6, SeqEqual
<1> QED BY <1>2, <1>7 DEF u

(* What was read is what was recorded.                                     *)
LEMMA LogHolds == LogInv => LogOf!GotAsRecorded
<1> DEFINE P == LogOf!Parts(stored)
           E == [i \in 1 .. Len(stored) |-> <<<<stored[i], 1>>, <<stored[i], 2>>>>]
<1> SUFFICES ASSUME LogTyping, WriterRight, ReaderRight
             PROVE  /\ LogOf!IsPrefix(got, E) /\ LogOf!IsPrefix(logData, P)
                    /\ ~writer.s => logData = P
  BY DEF LogInv, LogOf!GotAsRecorded
<1> DEFINE b == writer.buffer
           n == Len(stored)
           g == Len(got)
           d == Len(logData)
<1>1. stored \in Seq(Nat) /\ logData \in Seq(Part) /\ b \in Seq(Part) /\ got \in Seq(Part \X Part)
  BY DEF LogTyping
<1>2. n \in Nat /\ g \in Nat /\ d \in Nat /\ Len(b) \in Nat
  BY <1>1, LenProperties
<1>3. /\ P \in Seq(Part) /\ Len(P) = 2 * n
      /\ \A i \in 1 .. n : P[2 * i - 1] = <<stored[i], 1>> /\ P[2 * i] = <<stored[i], 2>>
  BY <1>1, PartsAre
<1>4. P = logData \o b
  BY DEF WriterRight
<1>5. 2 * g <= d /\ \A i \in 1 .. g : got[i] = <<logData[2 * i - 1], logData[2 * i]>>
  BY DEF ReaderRight
<1>6. E \in Seq((Nat \X {1, 2}) \X (Nat \X {1, 2})) /\ Len(E) = n
      /\ \A i \in 1 .. n : E[i] = <<<<stored[i], 1>>, <<stored[i], 2>>>>
  <2> DEFINE v(i) == <<<<stored[i], 1>>, <<stored[i], 2>>>>
  <2>1. \A i \in 1 .. n : v(i) \in (Nat \X {1, 2}) \X (Nat \X {1, 2})
    <3>1. \A i \in 1 .. n : stored[i] \in Nat
      BY <1>1, ElementOfSeq
    <3> QED BY <3>1
  <2>2. E = [i \in 1 .. n |-> v(i)]
    OBVIOUS
  <2> HIDE DEF v, E, n
  <2>3. E \in Seq((Nat \X {1, 2}) \X (Nat \X {1, 2})) /\ Len(E) = n /\ \A i \in 1 .. n : E[i] = v(i)
    BY <1>2, <2>1, <2>2
  <2> QED BY <2>3 DEF v
<1> HIDE DEF P, E, b
<1>7. /\ Len(P) = d + Len(b) /\ d <= Len(P)
      /\ \A i \in 1 .. d : P[i] = logData[i]
  BY <1>1, <1>2, <1>4, ConcatProperties
<1> HIDE DEF n, g, d
<1>8. g <= n
  BY <1>2, <1>3, <1>5, <1>7
<1>9. ASSUME NEW i \in 1 .. g PROVE got[i] = E[i]
  <2>1. 2 * i - 1 \in 1 .. d /\ 2 * i \in 1 .. d /\ i \in 1 .. n
    BY <1>2, <1>5, <1>8
  <2>2. logData[2 * i - 1] = <<stored[i], 1>> /\ logData[2 * i] = <<stored[i], 2>>
    BY <1>3, <1>7, <2>1
  <2> QED BY <1>5, <1>6, <2>1, <2>2
<1>10. LogOf!IsPrefix(got, E)
  BY <1>1, <1>2, <1>6, <1>8, <1>9, SamePrefix DEF g, LogOf!IsPrefix
<1>11. LogOf!IsPrefix(logData, P)
  BY <1>1, <1>2, <1>3, <1>7, SamePrefix DEF d, LogOf!IsPrefix
<1>12. ~writer.s => logData = P
  BY <1>1, <1>4, ConcatEmptySeq DEF WriterRight, b
<1> QED BY <1>10, <1>11, <1>12

(* Whatever is buffered where and whichever way the log is opened, closed  *)
(* and rewound by its writer and its reader, what the reader got are the   *)
(* first entries of those recorded, whole and in order, and a closed log   *)
(* has them all, unless a crash, a full file system or a truncation has    *)
(* come between.                                                           *)
THEOREM LogIsRead == MCSpec => []GotAsRecorded
<1>1. MCInit => LogInv
  BY LogInit DEF MCInit
<1>2. LogInv /\ [MCNext]_allVars => LogInv'
  BY OwnSteps, LogStep
<1>3. LogInv => GotAsRecorded
  BY LogHolds DEF GotAsRecorded
<1> QED BY <1>1, <1>2, <1>3, PTL DEF MCSpec

-----------------------------------------------------------------------------
(* Base64.                                                                 *)

\* The first n of the sequences f, one behind the other, up to each of them.
Joined(f, n, flat) == flat = [i \in 1..n |-> IF i = 1 THEN f[i] ELSE flat[i - 1] \o f[i]]

LEMMA JoinedExists ==
  ASSUME NEW f, NEW n \in Nat
  PROVE  \E flat : Joined(f, n, flat)
<1> DEFINE Missing == {k \in 0..n : ~\E flat : Joined(f, k, flat)}
<1> SUFFICES ASSUME Missing # {} PROVE FALSE
  <2>1. n \in 0..n
    OBVIOUS
  <2> QED BY <2>1
<1>1. PICK k \in Missing : \A i \in Missing : k <= i
  <2>1. Missing \in SUBSET Nat
    OBVIOUS
  <2> HIDE DEF Missing
  <2> QED BY <2>1, LeastOf
<1>2. k # 0
  <2>1. Joined(f, 0, <<>>)
    <3>1. \A g : 1..0 = {} /\ [i \in 1..0 |-> IF i = 1 THEN f[i] ELSE g[i - 1] \o f[i]] = <<>>
      OBVIOUS
    <3> QED BY <3>1 DEF Joined
  <2> QED BY <2>1
<1>3. k \in Nat \ {0} /\ k - 1 \in 0..n /\ k - 1 < k
  BY <1>1, <1>2
<1>4. PICK g : Joined(f, k - 1, g)
  BY <1>1, <1>3
<1> DEFINE h == [i \in 1..k |-> IF i = 1 THEN f[i] ELSE IF i = k THEN g[k - 1] \o f[k] ELSE g[i]]
<1>5. ASSUME NEW i \in 1..k
      PROVE  h[i] = IF i = 1 THEN f[i] ELSE h[i - 1] \o f[i]
  <2>1. i \in 1..(k - 1) => g[i] = IF i = 1 THEN f[i] ELSE g[i - 1] \o f[i]
    BY <1>4 DEF Joined
  <2>2. i # 1 => i - 1 \in 1..k /\ i - 1 # k /\ i - 1 \in 1..(k - 1)
    BY <1>3
  <2>3. i # 1 => h[i - 1] = g[i - 1]
    <3>1. 1 \in 1..(k - 1) => g[1] = f[1]
      BY <1>4 DEF Joined
    <3> QED BY <2>2, <3>1
  <2>4. i # k => i \in 1..(k - 1)
    BY <1>3
  <2> QED BY <2>1, <2>2, <2>3, <2>4
<1>6. Joined(f, k, h)
  BY <1>5 DEF Joined
<1> QED BY <1>1, <1>6

LEMMA JoinedUnique ==
  ASSUME NEW f, NEW n \in Nat, NEW g, NEW h, Joined(f, n, g), Joined(f, n, h)
  PROVE  g = h
<1>1. DOMAIN g = 1..n /\ DOMAIN h = 1..n
  BY DEF Joined
<1> DEFINE Different == {i \in 1..n : g[i] # h[i]}
<1>2. Different = {}
  <2> SUFFICES ASSUME Different # {} PROVE FALSE
    OBVIOUS
  <2>1. PICK k \in Different : \A i \in Different : k <= i
    <3>1. Different \in SUBSET Nat
      OBVIOUS
    <3> HIDE DEF Different
    <3> QED BY <3>1, LeastOf
  <2>2. g[k] = IF k = 1 THEN f[k] ELSE g[k - 1] \o f[k]
    BY DEF Joined
  <2>3. h[k] = IF k = 1 THEN f[k] ELSE h[k - 1] \o f[k]
    BY DEF Joined
  <2>4. k # 1 => k - 1 \in 1..n /\ k - 1 < k
    OBVIOUS
  <2>5. k # 1 => g[k - 1] = h[k - 1]
    BY <2>1, <2>4
  <2> QED BY <2>2, <2>3, <2>5
<1>3. \A i \in 1..n : g[i] = h[i]
  BY <1>2
<1>4. g = [i \in 1..n |-> g[i]] /\ h = [i \in 1..n |-> h[i]]
  BY DEF Joined
<1> QED BY <1>1, <1>3, <1>4

LEMMA FlattenIs ==
  ASSUME NEW f, NEW n \in Nat, f = [g \in 1..n |-> f[g]], NEW flat, Joined(f, n, flat)
  PROVE  TextOf!FlattenSeq(f) = IF n = 0 THEN <<>> ELSE flat[n]
<1>1. Len(f) = n
  OBVIOUS
<1>2. n = 0 => f = <<>>
  OBVIOUS
<1>3. (CHOOSE g : Joined(f, n, g)) = flat
  <2>1. Joined(f, n, CHOOSE g : Joined(f, n, g))
    BY JoinedExists
  <2> QED BY <2>1, JoinedUnique
<1>4. CASE n = 0
  BY <1>1, <1>2, <1>4 DEF TextOf!FlattenSeq
<1>5. CASE n # 0
  <2>1. TextOf!FlattenSeq(f) = (CHOOSE g : Joined(f, n, g))[n]
    BY <1>1, <1>5 DEF TextOf!FlattenSeq, Joined
  <2> QED BY <2>1, <1>3, <1>5
<1> QED BY <1>4, <1>5

\* The last of the sequences follows the others.
LEMMA FlattenLast ==
  ASSUME NEW f, NEW n \in Nat
  PROVE  /\ TextOf!FlattenSeq([g \in 1..0 |-> f[g]]) = <<>>
         /\ (n = 0 => f[n + 1] \in Seq(Int)) =>
            TextOf!FlattenSeq([g \in 1..(n + 1) |-> f[g]]) = TextOf!FlattenSeq([g \in 1..n |-> f[g]]) \o f[n + 1]
<1> DEFINE F(k) == [g \in 1..k |-> f[g]]
<1>1. PICK flat : Joined(F(n + 1), n + 1, flat)
  <2> HIDE DEF F
  <2>1. n + 1 \in Nat
    OBVIOUS
  <2> QED BY <2>1, JoinedExists
<1> DEFINE less == [i \in 1..n |-> flat[i]]
<1>2. Joined(F(n), n, less)
  <2>1. ASSUME NEW i \in 1..n
        PROVE  less[i] = IF i = 1 THEN F(n)[i] ELSE less[i - 1] \o F(n)[i]
    <3>1. i \in 1..(n + 1)
      OBVIOUS
    <3>2. flat[i] = IF i = 1 THEN F(n + 1)[i] ELSE flat[i - 1] \o F(n + 1)[i]
      <4> HIDE DEF F
      <4> QED BY <1>1, <3>1 DEF Joined
    <3>3. F(n + 1)[i] = F(n)[i]
      BY <3>1
    <3>4. i # 1 => i - 1 \in 1..n
      OBVIOUS
    <3> QED BY <3>2, <3>3, <3>4
  <2> HIDE DEF F
  <2> QED BY <2>1 DEF Joined
<1>3. TextOf!FlattenSeq(F(n)) = IF n = 0 THEN <<>> ELSE less[n]
  <2>1. F(n) = [g \in 1..n |-> F(n)[g]]
    OBVIOUS
  <2> HIDE DEF F, less
  <2> QED BY <1>2, <2>1, FlattenIs
<1>4. TextOf!FlattenSeq(F(n + 1)) = flat[n + 1]
  <2>1. F(n + 1) = [g \in 1..(n + 1) |-> F(n + 1)[g]]
    OBVIOUS
  <2>2. n + 1 \in Nat /\ n + 1 # 0
    OBVIOUS
  <2> HIDE DEF F
  <2> QED BY <1>1, <2>1, <2>2, FlattenIs
<1>5. flat[n + 1] = IF n = 0 THEN f[n + 1] ELSE flat[n] \o f[n + 1]
  <2>1. n + 1 \in 1..(n + 1) /\ F(n + 1)[n + 1] = f[n + 1] /\ (n + 1) - 1 = n /\ (n + 1 = 1 <=> n = 0)
    OBVIOUS
  <2>2. flat[n + 1] = IF n + 1 = 1 THEN F(n + 1)[n + 1] ELSE flat[(n + 1) - 1] \o F(n + 1)[n + 1]
    <3> HIDE DEF F
    <3> QED BY <1>1, <2>1 DEF Joined
  <2> QED BY <2>1, <2>2
<1>6. n # 0 => less[n] = flat[n]
  OBVIOUS
<1>7. f[n + 1] \in Seq(Int) => <<>> \o f[n + 1] = f[n + 1]
  OBVIOUS
<1>8. TextOf!FlattenSeq([g \in 1..0 |-> f[g]]) = <<>>
  <2>1. Len([g \in 1..0 |-> f[g]]) = 0 /\ [g \in 1..0 |-> f[g]] = <<>>
    OBVIOUS
  <2> QED BY <2>1 DEF TextOf!FlattenSeq
<1> HIDE DEF F, less
<1>9. (n = 0 => f[n + 1] \in Seq(Int)) => TextOf!FlattenSeq(F(n + 1)) = TextOf!FlattenSeq(F(n)) \o f[n + 1]
  BY <1>3, <1>4, <1>5, <1>6, <1>7
<1> QED BY <1>8, <1>9 DEF F

LEMMA BlockIndex ==
  ASSUME NEW k \in {3, 4}, NEW n \in Nat, NEW x \in Nat \ {0}
  PROVE  /\ (x - 1) \div k \in Nat /\ (x - 1) % k \in 0..(k - 1)
         /\ x <= k * n => (x - 1) \div k + 1 \in 1..n
         /\ x > k * n /\ x <= k * (n + 1) => (x - 1) \div k = n /\ ((x - 1) % k) + 1 = x - k * n
<1>1. CASE k = 3
  BY <1>1
<1>2. CASE k = 4
  BY <1>2
<1> QED BY <1>1, <1>2

LEMMA InSeq ==
  ASSUME NEW S, NEW q \in Seq(S)
  PROVE  /\ Len(q) \in Nat /\ DOMAIN q = 1..Len(q)
         /\ \A j \in 1..Len(q) : q[j] \in S
  BY LenProperties, ElementOfSeq

LEMMA Appended ==
  ASSUME NEW b, NEW e, NEW h, b \in Seq(Int), e \in Seq(Int),
         h = [x \in 1..(Len(b) + Len(e)) |-> h[x]],
         \A x \in 1..Len(b) : h[x] = b[x], \A x \in 1..Len(e) : h[Len(b) + x] = e[x]
  PROVE  b \o e = h
<1>1. /\ Len(b) \in Nat /\ Len(e) \in Nat
      /\ b \o e \in Seq(Int) /\ Len(b \o e) = Len(b) + Len(e)
  OBVIOUS
<1>2. ASSUME NEW x \in 1..(Len(b) + Len(e)) PROVE (b \o e)[x] = h[x]
  <2>1. CASE x <= Len(b)
    <3>1. x \in 1..Len(b) /\ (b \o e)[x] = b[x]
      BY <1>1, <2>1
    <3> QED BY <3>1
  <2>2. CASE x > Len(b)
    <3>1. x - Len(b) \in 1..Len(e) /\ Len(b) + (x - Len(b)) = x
      BY <1>1, <2>2
    <3>2. (b \o e)[x] = e[x - Len(b)]
      BY <1>1, <2>2, <3>1
    <3> QED BY <3>1, <3>2
  <2>3. x <= Len(b) \/ x > Len(b)
    BY <1>1
  <2> QED BY <2>1, <2>2, <2>3
<1> DEFINE c == b \o e
           n == Len(b) + Len(e)
<1>3. c \in Seq(Int) /\ Len(c) = n /\ n \in Nat
  BY <1>1
<1> HIDE DEF c, n
<1>4. c = [x \in 1..n |-> c[x]]
  BY <1>3
<1>5. h = [x \in 1..n |-> h[x]]
  BY DEF n
<1>6. \A x \in 1..n : c[x] = h[x]
  BY <1>2 DEF c, n
<1>7. c = h
  BY <1>4, <1>5, <1>6
<1> QED BY <1>7 DEF c

\* Sequences of the same length k, one behind the other.
LEMMA FlattenBlocks ==
  ASSUME NEW k \in {3, 4}, NEW n \in Nat, NEW f, \A g \in 1..n : f[g] \in Seq(Int) /\ Len(f[g]) = k
  PROVE  TextOf!FlattenSeq([g \in 1..n |-> f[g]])
            = [x \in 1..(k * n) |-> f[(x - 1) \div k + 1][((x - 1) % k) + 1]]
<1> DEFINE F(m) == TextOf!FlattenSeq([g \in 1..m |-> f[g]])
           Block(m) == [x \in 1..(k * m) |-> f[(x - 1) \div k + 1][((x - 1) % k) + 1]]
           Wrong == {m \in 0..n : F(m) # Block(m)}
<1> SUFFICES ASSUME Wrong # {} PROVE FALSE
  <2>1. n \in 0..n
    OBVIOUS
  <2> QED BY <2>1
<1>1. PICK m \in Wrong : \A i \in Wrong : m <= i
  <2>1. Wrong \in SUBSET Nat
    OBVIOUS
  <2> HIDE DEF Wrong
  <2> QED BY <2>1, LeastOf
<1>2. F(0) = Block(0)
  <2>1. F(0) = <<>>
    BY FlattenLast
  <2>2. 1..(k * 0) = {}
    BY <1>1
  <2>3. Block(0) = <<>>
    BY <2>2
  <2> QED BY <2>1, <2>3
<1>3. m \in 0..n /\ m # 0
  BY <1>1, <1>2
<1>4. PICK l \in Nat : m = l + 1
  <2>1. m - 1 \in Nat /\ m = (m - 1) + 1
    BY <1>3
  <2> QED BY <2>1
<1>5. l \in 0..n /\ l < m /\ m \in 1..n
  BY <1>3, <1>4
<1>6. F(l) = Block(l)
  <2>1. l \notin Wrong
    <3> HIDE DEF Wrong
    <3> QED BY <1>1, <1>5
  <2> HIDE DEF F, Block
  <2> QED BY <1>5, <2>1
<1>7. F(l + 1) = F(l) \o f[l + 1]
  <2>1. f[l + 1] \in Seq(Int)
    BY <1>4, <1>5
  <2> HIDE DEF F
  <2> QED BY <2>1, FlattenLast DEF F
<1>8. k * l \in Nat /\ k * (l + 1) = k * l + k
  <2>1. CASE k = 3
    BY <2>1
  <2>2. CASE k = 4
    BY <2>2
  <2> QED BY <2>1, <2>2
<1>9. \A x \in 1..(k * l) : f[(x - 1) \div k + 1] \in Seq(Int)
                            /\ f[(x - 1) \div k + 1][((x - 1) % k) + 1] \in Int
  <2> TAKE x \in 1..(k * l)
  <2>1. (x - 1) \div k + 1 \in 1..l /\ ((x - 1) % k) + 1 \in 1..k
    <3>1. x \in Nat \ {0} /\ x <= k * l
      BY <1>8
    <3>2. (x - 1) \div k + 1 \in 1..l /\ (x - 1) % k \in 0..(k - 1)
      BY <3>1, BlockIndex
    <3> QED BY <3>2
  <2>2. (x - 1) \div k + 1 \in 1..n
    BY <1>5, <2>1
  <2> QED BY <2>1, <2>2
<1>10. PICK kl \in Nat : kl = k * l /\ k * (l + 1) = kl + k
  BY <1>8
<1>11. f[l + 1] \in Seq(Int) /\ Len(f[l + 1]) = k /\ k \in Nat
  BY <1>4, <1>5
<1> DEFINE g(x) == f[(x - 1) \div k + 1][((x - 1) % k) + 1]
<1>12. /\ \A x \in 1..kl : g(x) \in Int
       /\ \A x \in (kl + 1)..(kl + k) : g(x) = f[l + 1][x - kl]
       /\ Block(l) = [x \in 1..kl |-> g(x)] /\ Block(l + 1) = [x \in 1..(kl + k) |-> g(x)]
  <2>1. \A x \in 1..kl : g(x) \in Int
    BY <1>9, <1>10
  <2>2. ASSUME NEW x \in (kl + 1)..(kl + k)
        PROVE  g(x) = f[l + 1][x - kl]
    <3>1. x \in Nat \ {0} /\ x > k * l /\ x <= k * (l + 1)
      <4>1. x \in Nat \ {0} /\ x > kl /\ x <= kl + k
        BY ONLY <1>11, x \in (kl + 1)..(kl + k), kl \in Nat
      <4> QED BY ONLY <1>10, <4>1
    <3>2. (x - 1) \div k = l /\ ((x - 1) % k) + 1 = x - k * l
      BY <3>1, BlockIndex
    <3> QED BY <1>10, <3>2
  <2> QED BY <1>10, <2>1, <2>2
<1>13. [x \in 1..kl |-> g(x)] \o f[l + 1] = [x \in 1..(kl + k) |-> g(x)]
  <2> HIDE DEF g
  <2> DEFINE b == [x \in 1..kl |-> g(x)]
             e == f[l + 1]
             h == [x \in 1..(kl + k) |-> g(x)]
  <2>1. b \in Seq(Int) /\ Len(b) = kl /\ e \in Seq(Int) /\ Len(e) = k
    BY <1>10, <1>11, <1>12
  <2>2. h = [x \in 1..(Len(b) + Len(e)) |-> h[x]]
    BY <2>1
  <2>3. \A x \in 1..Len(b) : h[x] = b[x]
    <3> TAKE x \in 1..Len(b)
    <3>1. x \in 1..kl /\ kl \in Nat /\ k \in Nat
      BY <1>10, <1>11, <2>1
    <3>2. x \in 1..(kl + k)
      BY ONLY <3>1
    <3> QED BY <3>1, <3>2
  <2>4. \A x \in 1..Len(e) : h[Len(b) + x] = e[x]
    <3> TAKE x \in 1..Len(e)
    <3>1. x \in 1..k /\ kl \in Nat /\ k \in Nat
      BY <1>10, <1>11, <2>1
    <3>2. kl + x \in (kl + 1)..(kl + k) /\ kl + x \in 1..(kl + k) /\ (kl + x) - kl = x
      BY ONLY <3>1
    <3> QED BY <1>12, <2>1, <3>2
  <2> HIDE DEF b, e, h
  <2>5. b \o e = h
    <3>1. b \in Seq(Int) /\ e \in Seq(Int)
      BY <2>1
    <3> QED BY ONLY <2>2, <2>3, <2>4, <3>1, Appended
  <2> QED BY <2>5 DEF b, e, h
<1>14. F(m) = Block(m)
  <2> HIDE DEF F, Block, g
  <2> QED BY <1>4, <1>6, <1>7, <1>12, <1>13
<1> QED BY <1>1, <1>14

\* What a character of a text can be: a digit, a pad or neither.
Sextet == 0..63
Sign == 0..65

LEMMA SignIs ==
  /\ \A x : x \in Sign <=> x \in Sextet \/ x = 64 \/ x = 65
  /\ \A x \in Sextet : x # 64 /\ x # 65 /\ x \in Nat
  BY DEF Sign, Sextet

\* A text of d digits, behind which there are at most two pads.
IsText(t, d) ==
  /\ t \in Seq(Sign) /\ Len(t) % 4 = 0
  /\ d \in Nat /\ d <= Len(t) /\ Len(t) - d <= 2 /\ (Len(t) = 0 => d = 0)
  /\ \A i \in 1..d : t[i] \in Sextet
  /\ \A i \in (d + 1)..Len(t) : t[i] = 64

LEMMA TextIs ==
  ASSUME NEW t \in Seq(Sign), TextOf!WellFormed(t)
  PROVE  \E d : IsText(t, d)
<1> DEFINE n == Len(t)
<1>1. n \in Nat /\ DOMAIN t = 1..n /\ \A i \in 1..n : t[i] \in Sign /\ t[i] # 65
  <2>1. n \in Nat /\ DOMAIN t = 1..n /\ \A i \in 1..n : t[i] \in Sign
    BY InSeq
  <2>2. \A i \in DOMAIN t : t[i] # 65
    BY DEF TextOf!WellFormed, TextOf!Bad
  <2> QED BY <2>1, <2>2
<1>2. n % 4 = 0
  BY DEF TextOf!WellFormed
<1>3. \A i \in 1..n : t[i] = 64 => i >= n - 1 /\ \A j \in i..n : t[j] = 64
  BY <1>1 DEF TextOf!WellFormed, TextOf!Pad
<1>4. n = 0 \/ n >= 4
  BY <1>1, <1>2
<1> HIDE DEF n
<1>5. CASE n = 0
  <2>1. IsText(t, 0)
    BY <1>1, <1>2, <1>5 DEF IsText, n
  <2> QED BY <2>1
<1>6. CASE n >= 4 /\ t[n - 1] = 64
  <2>1. \A j \in (n - 1)..n : t[j] = 64
    BY <1>1, <1>3, <1>6, SignIs
  <2>2. \A i \in 1..(n - 2) : t[i] \in Sextet
    BY <1>1, <1>3, SignIs
  <2>3. IsText(t, n - 2)
    BY <1>1, <1>2, <1>6, <2>1, <2>2 DEF IsText, n
  <2> QED BY <2>3
<1>7. CASE n >= 4 /\ t[n - 1] # 64 /\ t[n] = 64
  <2>1. \A i \in 1..(n - 1) : t[i] \in Sextet
    <3> TAKE i \in 1..(n - 1)
    <3>1. i \in 1..n /\ (i >= n - 1 => i = n - 1)
      BY <1>1
    <3>2. t[i] # 64
      BY <1>3, <1>7, <3>1
    <3> QED BY <1>1, <3>1, <3>2, SignIs
  <2>2. IsText(t, n - 1)
    BY <1>1, <1>2, <1>7, <2>1 DEF IsText, n
  <2> QED BY <2>2
<1>8. CASE n >= 4 /\ t[n - 1] # 64 /\ t[n] # 64
  <2>1. \A i \in 1..n : t[i] \in Sextet
    <3> TAKE i \in 1..n
    <3>1. i >= n - 1 => i = n - 1 \/ i = n
      BY <1>1
    <3>2. t[i] # 64
      BY <1>3, <1>8, <3>1
    <3> QED BY <1>1, <3>2, SignIs
  <2>2. IsText(t, n)
    BY <1>1, <1>2, <1>8, <2>1 DEF IsText, n
  <2> QED BY <2>2
<1> QED BY <1>4, <1>5, <1>6, <1>7, <1>8

LEMMA DigitsCounted ==
  ASSUME NEW t, NEW d, IsText(t, d)
  PROVE  Cardinality({i \in DOMAIN t : t[i] # TextOf!Pad}) = d
<1>1. {i \in DOMAIN t : t[i] # TextOf!Pad} = 1..d
  <2>1. d \in Nat /\ Len(t) \in Nat /\ d <= Len(t) /\ DOMAIN t = 1..Len(t)
    BY DEF IsText
  <2>2. ASSUME NEW i \in 1..Len(t) PROVE t[i] # 64 <=> i \in 1..d
    <3>1. i \in 1..d \/ i \in (d + 1)..Len(t)
      BY <2>1
    <3>2. i \in (d + 1)..Len(t) => i \notin 1..d
      BY <2>1
    <3>3. i \in 1..d => t[i] \in Sextet
      BY DEF IsText
    <3>4. i \in (d + 1)..Len(t) => t[i] = 64
      BY DEF IsText
    <3> QED BY <3>1, <3>2, <3>3, <3>4, SignIs
  <2>3. \A i \in 1..d : i \in 1..Len(t)
    BY <2>1
  <2> QED BY <2>1, <2>2, <2>3 DEF TextOf!Pad
<1>2. d \in Nat
  BY DEF IsText
<1>3. Cardinality(1..d) = d
  BY ONLY <1>2, FS_Interval
<1> QED BY <1>1, <1>3

LEMMA TextIsWellFormed ==
  ASSUME NEW t, NEW d, IsText(t, d)
  PROVE  TextOf!WellFormed(t)
<1>1. d \in Nat /\ Len(t) \in Nat /\ d <= Len(t) /\ DOMAIN t = 1..Len(t) /\ Len(t) - d <= 2
  BY DEF IsText
<1>2. ASSUME NEW i \in 1..Len(t)
      PROVE  /\ t[i] # 65
             /\ t[i] = 64 => i >= Len(t) - 1 /\ \A j \in i..Len(t) : t[j] = 64
  <2>1. i \in 1..d \/ i \in (d + 1)..Len(t)
    BY <1>1
  <2>2. i \in (d + 1)..Len(t) => i >= Len(t) - 1 /\ \A j \in i..Len(t) : j \in (d + 1)..Len(t)
    BY <1>1
  <2>3. i \in 1..d => t[i] \in Sextet
    BY DEF IsText
  <2>4. \A j \in (d + 1)..Len(t) : t[j] = 64
    BY DEF IsText
  <2>5. i \in (d + 1)..Len(t) => t[i] = 64
    BY <2>4
  <2>6. t[i] = 64 => i \in (d + 1)..Len(t)
    BY <2>1, <2>3, SignIs
  <2>7. t[i] # 65
    BY <2>1, <2>3, <2>5, SignIs
  <2> QED BY <2>2, <2>4, <2>6, <2>7
<1> QED BY <1>1, <1>2 DEF IsText, TextOf!WellFormed, TextOf!Pad, TextOf!Bad

LEMMA LeadingIs ==
  ASSUME NEW q \in Seq(Sign)
  PROVE  /\ TextOf!Leading(q) \in 0..Len(q)
         /\ \A j \in 1..TextOf!Leading(q) : q[j] \in Sextet
         /\ TextOf!Leading(q) < Len(q) => q[TextOf!Leading(q) + 1] \in {64, 65}
<1> DEFINE others == {j \in DOMAIN q : q[j] \in {64, 65}}
<1>1. Len(q) \in Nat /\ DOMAIN q = 1..Len(q) /\ \A j \in 1..Len(q) : q[j] \in Sign
  BY InSeq
<1>2. CASE others = {}
  <2>1. TextOf!Leading(q) = Len(q)
    BY <1>2 DEF TextOf!Leading, TextOf!Pad, TextOf!Bad
  <2>2. \A j \in 1..Len(q) : q[j] \in Sextet
    <3> TAKE j \in 1..Len(q)
    <3>1. j \notin others
      BY <1>2
    <3>2. q[j] \notin {64, 65}
      BY <1>1, <3>1
    <3> QED BY <1>1, <3>2, SignIs
  <2> QED BY <1>1, <2>1, <2>2
<1>3. CASE others # {}
  <2> DEFINE m == CHOOSE j \in others : \A k \in others : j <= k
  <2>1. m \in others /\ \A k \in others : m <= k
    <3>1. others \in SUBSET Nat
      BY <1>1
    <3> HIDE DEF others
    <3> QED BY <1>3, <3>1, LeastOf
  <2>2. TextOf!Leading(q) = m - 1
    BY <1>3 DEF TextOf!Leading, TextOf!Pad, TextOf!Bad
  <2> HIDE DEF m
  <2>3. m \in 1..Len(q) /\ q[m] \in {64, 65} /\ (m - 1) + 1 = m
    BY <1>1, <2>1
  <2>4. ASSUME NEW j \in 1..(m - 1) PROVE q[j] \in Sextet
    <3>1. j \in 1..Len(q) /\ ~(m <= j)
      BY <1>1, <2>3
    <3>2. j \notin others
      BY <2>1, <3>1
    <3> QED BY <1>1, <3>1, <3>2, SignIs
  <2> QED BY <2>2, <2>3, <2>4
<1> QED BY <1>2, <1>3

LEMMA LeadingOne ==
  ASSUME NEW q \in Seq(Sign), NEW n \in 0..Len(q), \A j \in 1..n : q[j] \in Sextet,
         n < Len(q) => q[n + 1] \in {64, 65}
  PROVE  TextOf!Leading(q) = n
<1> DEFINE l == TextOf!Leading(q)
<1>1. l \in 0..Len(q) /\ (\A j \in 1..l : q[j] \in Sextet) /\ (l < Len(q) => q[l + 1] \in {64, 65})
  BY LeadingIs
<1> HIDE DEF l
<1>2. Len(q) \in Nat
  OBVIOUS
<1>3. ~(l < n)
  <2> SUFFICES ASSUME l < n PROVE FALSE
    OBVIOUS
  <2>1. l + 1 \in 1..n /\ l < Len(q)
    BY <1>1, <1>2
  <2>2. q[l + 1] \in {64, 65} /\ q[l + 1] \in Sextet
    BY <1>1, <2>1
  <2> QED BY <2>2, SignIs
<1>4. ~(n < l)
  <2> SUFFICES ASSUME n < l PROVE FALSE
    OBVIOUS
  <2>1. n + 1 \in 1..l /\ n < Len(q)
    BY <1>1, <1>2
  <2>2. q[n + 1] \in {64, 65} /\ q[n + 1] \in Sextet
    BY <1>1, <2>1
  <2> QED BY <2>2, SignIs
<1> QED BY <1>1, <1>2, <1>3, <1>4 DEF l

\* What a text of d digits stands for, byte by byte.
DigitAt(t, d, k) == IF k <= d THEN t[k] ELSE 0
ValueAt(t, d, g) ==
  DigitAt(t, d, 4 * g + 1) * 262144 + DigitAt(t, d, 4 * g + 2) * 4096
  + DigitAt(t, d, 4 * g + 3) * 64 + DigitAt(t, d, 4 * g + 4)
ByteOf(v, j) == (v \div TextOf!Eights[j]) % 256
OutAt(t, d, i) == ByteOf(ValueAt(t, d, (i - 1) \div 3), ((i - 1) % 3) + 1)
Out(t, d) == [i \in 1..((6 * d) \div 8) |-> OutAt(t, d, i)]

\* How many digits the group g has, from 0.
Held(d, g) == IF 4 * g + 4 <= d THEN 4 ELSE d - 4 * g

LEMMA HeldIs ==
  ASSUME NEW t, NEW d, IsText(t, d), NEW g \in Nat, 4 * g < Len(t)
  PROVE  /\ Held(d, g) \in 2..4 /\ 4 * g + 4 <= Len(t)
         /\ Held(d, g) # 4 => 4 * g + 4 = Len(t)
         /\ \A j \in 1..4 : 4 * g + j <= d <=> j <= Held(d, g)
<1>1. d \in Nat /\ Len(t) \in Nat /\ d <= Len(t) /\ Len(t) - d <= 2 /\ Len(t) % 4 = 0
  BY DEF IsText
<1>2. 4 * g + 4 <= Len(t)
  BY <1>1
<1>3. 4 * g + 4 = Len(t) \/ 4 * g + 8 <= Len(t)
  BY <1>1, <1>2
<1> QED BY <1>1, <1>2, <1>3 DEF Held

LEMMA ByteOfIs ==
  ASSUME NEW v \in Nat, NEW j \in 1..3
  PROVE  ByteOf(v, j) \in 0..255
<1>1. TextOf!Eights[j] \in {65536, 256, 1}
  BY DEF TextOf!Eights
<1>2. \A e \in {65536, 256, 1} : (v \div e) % 256 \in 0..255
  OBVIOUS
<1> QED BY <1>1, <1>2 DEF ByteOf

LEMMA ValueAtIs ==
  ASSUME NEW t, NEW d, IsText(t, d), NEW g \in Nat
  PROVE  /\ \A k \in Nat \ {0} : DigitAt(t, d, k) \in Sextet
         /\ ValueAt(t, d, g) \in Nat
<1>1. \A k \in Nat \ {0} : DigitAt(t, d, k) \in Sextet
  <2> TAKE k \in Nat \ {0}
  <2>1. d \in Nat /\ \A i \in 1..d : t[i] \in Sextet
    BY DEF IsText
  <2>2. k <= d => k \in 1..d
    BY <2>1
  <2>3. 0 \in Sextet
    BY DEF Sextet
  <2> QED BY <2>1, <2>2, <2>3 DEF DigitAt
<1>2. \A j \in 1..4 : 4 * g + j \in Nat \ {0}
  OBVIOUS
<1>3. \A j \in 1..4 : DigitAt(t, d, 4 * g + j) \in Nat
  BY <1>1, <1>2, SignIs
<1>4. /\ DigitAt(t, d, 4 * g + 1) \in Nat /\ DigitAt(t, d, 4 * g + 2) \in Nat
      /\ DigitAt(t, d, 4 * g + 3) \in Nat /\ DigitAt(t, d, 4 * g + 4) \in Nat
  BY <1>3
<1>5. ValueAt(t, d, g) \in Nat
  BY <1>4 DEF ValueAt
<1> QED BY <1>1, <1>5

\* Four characters of a text.
Quad(t, g) == SubSeq(t, 4 * g - 3, 4 * g)

\* Four characters q that hold the digits of group g of a text, n of them its own.
QuadOf(q, t, d, g, n) ==
  /\ q = SubSeq(t, 4 * g + 1, 4 * g + 4)
  /\ q \in Seq(Sign) /\ Len(q) = 4
  /\ TextOf!Leading(q) = n
  /\ \A j \in 1..4 : q[j] # 65 /\ (q[j] = 64 <=> j > n)
  /\ TextOf!ValueOf(q, n) = ValueAt(t, d, g)

LEMMA QuadIs ==
  ASSUME NEW t, NEW d, IsText(t, d), NEW g \in Nat, 4 * g < Len(t)
  PROVE  QuadOf(Quad(t, g + 1), t, d, g, Held(d, g))
<1> DEFINE q == Quad(t, g + 1)
           n == Held(d, g)
<1>0. q = SubSeq(t, 4 * g + 1, 4 * g + 4)
  <2>1. 4 * (g + 1) - 3 = 4 * g + 1 /\ 4 * (g + 1) = 4 * g + 4
    OBVIOUS
  <2> QED BY <2>1 DEF Quad
<1> HIDE DEF q
<1>1. d \in Nat /\ Len(t) \in Nat /\ t \in Seq(Sign) /\ d <= Len(t)
  BY DEF IsText
<1>2. /\ n \in 2..4 /\ 4 * g + 4 <= Len(t)
      /\ \A j \in 1..4 : 4 * g + j <= d <=> j <= n
  BY HeldIs
<1> HIDE DEF n
<1>3. q \in Seq(Sign) /\ Len(q) = 4 /\ \A j \in 1..4 : q[j] = t[4 * g + j]
  <2>1. 4 * g + 1 \in 1..Len(t) /\ 4 * g + 4 \in 1..Len(t) /\ (4 * g + 4) - (4 * g + 1) + 1 = 4
    BY <1>1, <1>2
  <2>2. \A j \in 1..4 : (4 * g + 1) + j - 1 = 4 * g + j
    OBVIOUS
  <2>3. q \in Seq(Sign) /\ Len(q) = 4
    BY <1>0, <1>1, <2>1, SubSeqProperties
  <2>4. \A j \in 1..4 : q[j] = t[(4 * g + 1) + j - 1]
    BY <1>0, <1>1, <2>1, <2>3, SubSeqProperties
  <2> QED BY <2>2, <2>3, <2>4
<1>4. ASSUME NEW j \in 1..4
      PROVE  /\ j <= n => q[j] \in Sextet
             /\ j > n => q[j] = 64
             /\ DigitAt(t, d, 4 * g + j) = IF j <= n THEN q[j] ELSE 0
  <2>1. 4 * g + j <= d => 4 * g + j \in 1..d
    BY <1>1
  <2>2. ~(4 * g + j <= d) => 4 * g + j \in (d + 1)..Len(t)
    BY <1>1, <1>2
  <2>3. j <= n \/ j > n
    BY <1>2
  <2>4. j > n => ~(4 * g + j <= d)
    BY <1>2
  <2>5. \A i \in 1..d : t[i] \in Sextet
    BY DEF IsText
  <2>6. \A i \in (d + 1)..Len(t) : t[i] = 64
    BY DEF IsText
  <2>7. q[j] = t[4 * g + j]
    BY <1>3
  <2>8. 4 * g + j <= d <=> j <= n
    BY <1>2
  <2> QED BY <2>1, <2>2, <2>4, <2>5, <2>6, <2>7, <2>8 DEF DigitAt
<1>5. TextOf!Leading(q) = n
  <2>0. Len(q) = 4 /\ n \in 2..4
    BY <1>2, <1>3
  <2>1. n \in 0..Len(q) /\ \A j \in 1..n : j \in 1..4 /\ j <= n
    BY ONLY <2>0
  <2>2. \A j \in 1..n : q[j] \in Sextet
    BY <1>4, <2>1
  <2>3. n < Len(q) => q[n + 1] = 64
    <3>1. n < Len(q) => n + 1 \in 1..4 /\ n + 1 > n
      BY ONLY <2>0
    <3> QED BY <1>4, <3>1
  <2>4. n < Len(q) => q[n + 1] \in {64, 65}
    BY <2>3
  <2> QED BY <1>3, <2>1, <2>2, <2>4, LeadingOne
<1>6. \A j \in 1..4 : q[j] # 65 /\ (q[j] = 64 <=> j > n)
  <2> TAKE j \in 1..4
  <2>1. j <= n <=> ~(j > n)
    BY <1>2
  <2>2. q[j] = 64 => q[j] # 65
    OBVIOUS
  <2> QED BY <1>4, <2>1, <2>2, SignIs
<1>7. TextOf!ValueOf(q, n) = ValueAt(t, d, g)
  <2>1. 1 \in 1..4 /\ 2 \in 1..4 /\ 3 \in 1..4 /\ 4 \in 1..4
    OBVIOUS
  <2>2. /\ DigitAt(t, d, 4 * g + 1) = IF 1 <= n THEN q[1] ELSE 0
        /\ DigitAt(t, d, 4 * g + 2) = IF 2 <= n THEN q[2] ELSE 0
        /\ DigitAt(t, d, 4 * g + 3) = IF 3 <= n THEN q[3] ELSE 0
        /\ DigitAt(t, d, 4 * g + 4) = IF 4 <= n THEN q[4] ELSE 0
    BY ONLY <1>4, <2>1
  <2> QED BY <2>2 DEF TextOf!ValueOf, ValueAt
<1>8. QuadOf(q, t, d, g, n)
  BY <1>0, <1>3, <1>5, <1>6, <1>7 DEF QuadOf
<1> QED BY <1>8 DEF n, q

LEMMA Singles ==
  ASSUME NEW x \in Int, NEW y \in Int, NEW z \in Int
  PROVE  /\ <<>> \o <<x>> = <<x>> /\ <<x>> \o <<y>> = <<x, y>> /\ <<x, y>> \o <<z>> = <<x, y, z>>
         /\ <<x>> \o <<>> = <<x>> /\ <<x, y>> \o <<>> = <<x, y>>
<1>1. <<>> \in Seq(Int) /\ <<x>> \in Seq(Int) /\ <<y>> \in Seq(Int) /\ <<z>> \in Seq(Int) /\ <<x, y>> \in Seq(Int)
  OBVIOUS
<1>2. <<>> \o <<x>> = <<x>> /\ <<x>> \o <<>> = <<x>> /\ <<x, y>> \o <<>> = <<x, y>>
  BY <1>1
<1>3. <<x>> \o <<y>> = <<x, y>>
  <2> DEFINE h == <<x, y>>
             u == <<x>>
             w == <<y>>
  <2>1. h = [i \in 1..2 |-> h[i]] /\ Len(u) = 1 /\ Len(w) = 1 /\ u \in Seq(Int) /\ w \in Seq(Int)
    BY <1>1
  <2>2. h[1] = u[1] /\ h[2] = w[1]
    OBVIOUS
  <2> HIDE DEF h, u, w
  <2>3. h = [i \in 1..(Len(u) + Len(w)) |-> h[i]]
    BY <2>1
  <2>4. \A i \in 1..Len(u) : h[i] = u[i]
    BY <2>1, <2>2
  <2>5. \A i \in 1..Len(w) : h[Len(u) + i] = w[i]
    BY <2>1, <2>2
  <2>6. u \o w = h
    BY ONLY <2>1, <2>3, <2>4, <2>5, Appended
  <2> QED BY <2>6 DEF h, u, w
<1>4. <<x, y>> \o <<z>> = <<x, y, z>>
  <2> DEFINE h == <<x, y, z>>
  <2>1. h = [i \in 1..3 |-> h[i]] /\ Len(<<x, y>>) + Len(<<z>>) = 3 /\ Len(<<x, y>>) = 2 /\ Len(<<z>>) = 1
    OBVIOUS
  <2>2. h[1] = <<x, y>>[1] /\ h[2] = <<x, y>>[2] /\ h[2 + 1] = <<z>>[1]
    OBVIOUS
  <2>3. (\A i \in 1..2 : h[i] = <<x, y>>[i]) /\ \A i \in 1..1 : h[2 + i] = <<z>>[i]
    BY <2>2
  <2> HIDE DEF h
  <2>4. <<x, y>> \o <<z>> = h
    BY <1>1, <2>1, <2>3, Appended
  <2> QED BY <2>4 DEF h
<1> QED BY <1>2, <1>3, <1>4

\* The bytes of four characters, of which the first n are digits.
NoPads(q, b) == TextOf!FlattenSeq([j \in 1..3 |-> IF q[j + 1] = TextOf!Pad THEN <<>> ELSE <<b[j]>>])
FirstOf(b, n) == [j \in 1..(n - 1) |-> b[j]]

LEMMA OutOf ==
  ASSUME NEW q, NEW n \in 2..4, \A j \in 1..4 : q[j] = 64 <=> j > n,
         NEW b, \A j \in 1..3 : b[j] \in Int
  PROVE  NoPads(q, b) = FirstOf(b, n)
<1> DEFINE f == [j \in 1..3 |-> IF q[j + 1] = TextOf!Pad THEN <<>> ELSE <<b[j]>>]
           F(k) == TextOf!FlattenSeq([j \in 1..k |-> f[j]])
<1>1. f[1] = <<b[1]>> /\ f[2] = (IF n = 2 THEN <<>> ELSE <<b[2]>>) /\ f[3] = (IF n = 4 THEN <<b[3]>> ELSE <<>>)
  <2>1. ASSUME NEW j \in 1..3 PROVE f[j] = IF j + 1 > n THEN <<>> ELSE <<b[j]>>
    <3>1. j + 1 \in 1..4
      OBVIOUS
    <3> QED BY <3>1 DEF TextOf!Pad
  <2>2. 1 \in 1..3 /\ 2 \in 1..3 /\ 3 \in 1..3
    OBVIOUS
  <2> HIDE DEF f
  <2> QED BY <2>1, <2>2
<1>2. b[1] \in Int /\ b[2] \in Int /\ b[3] \in Int
  OBVIOUS
<1>3. f[1] \in Seq(Int) /\ f[2] \in Seq(Int) /\ f[3] \in Seq(Int)
  <2> HIDE DEF f
  <2> QED BY <1>1, <1>2
<1>4. F(0) = <<>> /\ F(1) = F(0) \o f[1] /\ F(2) = F(1) \o f[2] /\ F(3) = F(2) \o f[3]
  <2> HIDE DEF f
  <2>1. f[0 + 1] \in Seq(Int) /\ 0 + 1 = 1 /\ 1 + 1 = 2 /\ 2 + 1 = 3 /\ 0 \in Nat /\ 1 \in Nat /\ 2 \in Nat
    BY <1>3
  <2>2. F(0) = <<>> /\ F(0 + 1) = F(0) \o f[0 + 1]
    BY <2>1, FlattenLast
  <2>3. F(1 + 1) = F(1) \o f[1 + 1]
    BY <2>1, FlattenLast
  <2>4. F(2 + 1) = F(2) \o f[2 + 1]
    BY <2>1, FlattenLast
  <2> HIDE DEF F
  <2> QED BY <2>1, <2>2, <2>3, <2>4
<1>5. f = [j \in 1..3 |-> f[j]]
  OBVIOUS
<1>6. TextOf!FlattenSeq(f) = F(3)
  <2> HIDE DEF f
  <2> QED BY <1>5
<1> HIDE DEF f, F
<1>10. /\ <<>> \o <<b[1]>> = <<b[1]>> /\ <<b[1]>> \o <<b[2]>> = <<b[1], b[2]>>
       /\ <<b[1], b[2]>> \o <<b[3]>> = <<b[1], b[2], b[3]>>
       /\ <<b[1]>> \o <<>> = <<b[1]>> /\ <<b[1], b[2]>> \o <<>> = <<b[1], b[2]>>
  BY ONLY <1>2, Singles
<1>7. CASE n = 2
  <2>1. F(3) = <<b[1]>>
    BY <1>1, <1>2, <1>4, <1>7
  <2>2. [j \in 1..(n - 1) |-> b[j]] = <<b[1]>>
    BY <1>7
  <2> QED BY <1>6, <2>1, <2>2 DEF f, NoPads, FirstOf
<1>8. CASE n = 3
  <2>3. f[1] = <<b[1]>> /\ f[2] = <<b[2]>> /\ f[3] = <<>>
    BY <1>1, <1>8
  <2>4. F(1) = <<b[1]>>
    BY ONLY <1>10, <1>4, <2>3
  <2>5. F(2) = <<b[1], b[2]>>
    BY ONLY <1>10, <1>4, <2>3, <2>4
  <2>1. F(3) = <<b[1], b[2]>>
    BY ONLY <1>10, <1>4, <2>3, <2>5
  <2>2. [j \in 1..(n - 1) |-> b[j]] = <<b[1], b[2]>>
    BY <1>8
  <2> QED BY <1>6, <2>1, <2>2 DEF f, NoPads, FirstOf
<1>9. CASE n = 4
  <2>3. f[1] = <<b[1]>> /\ f[2] = <<b[2]>> /\ f[3] = <<b[3]>>
    BY <1>1, <1>9
  <2>4. F(1) = <<b[1]>>
    BY ONLY <1>10, <1>4, <2>3
  <2>5. F(2) = <<b[1], b[2]>>
    BY ONLY <1>10, <1>4, <2>3, <2>4
  <2>1. F(3) = <<b[1], b[2], b[3]>>
    BY ONLY <1>10, <1>4, <2>3, <2>5
  <2>2. [j \in 1..(n - 1) |-> b[j]] = <<b[1], b[2], b[3]>>
    BY <1>9
  <2> QED BY <1>6, <2>1, <2>2 DEF f, NoPads, FirstOf
<1> QED BY <1>7, <1>8, <1>9

\* The bytes that a string decodes four characters into.
QuadBytes(q) == NoPads(q, TextOf!Bytes(TextOf!ValueOf(q, TextOf!Leading(q)), 3))
Spoilt(t, g) == TextOf!Leading(Quad(t, g)) < 4 /\ Quad(t, g)[TextOf!Leading(Quad(t, g)) + 1] = TextOf!Bad

LEMMA DecodeStringDef ==
  ASSUME NEW t
  PROVE  TextOf!DecodeString(t) =
            IF Len(t) % 4 # 0 \/ \E g \in 1..(Len(t) \div 4) : Spoilt(t, g) THEN <<>>
            ELSE TextOf!FlattenSeq([g \in 1..(Len(t) \div 4) |-> QuadBytes(Quad(t, g))])
  BY DEF TextOf!DecodeString, Quad, QuadBytes, Spoilt, NoPads

LEMMA OutIs ==
  ASSUME NEW t, NEW d, IsText(t, d)
  PROVE  /\ Out(t, d) \in Seq(0..255) /\ Out(t, d) \in Seq(Int)
         /\ Len(Out(t, d)) = (6 * d) \div 8
<1>1. d \in Nat /\ (6 * d) \div 8 \in Nat
  BY DEF IsText
<1>2. ASSUME NEW i \in 1..((6 * d) \div 8) PROVE OutAt(t, d, i) \in 0..255
  <2>1. (i - 1) \div 3 \in Nat /\ ((i - 1) % 3) + 1 \in 1..3
    BY <1>1
  <2>2. ValueAt(t, d, (i - 1) \div 3) \in Nat
    BY <2>1, ValueAtIs
  <2> QED BY <2>1, <2>2, ByteOfIs DEF OutAt
<1>3. \A x \in 0..255 : x \in Int
  OBVIOUS
<1> DEFINE n == (6 * d) \div 8
<1> HIDE DEF n
<1>4. n \in Nat /\ \A i \in 1..n : OutAt(t, d, i) \in 0..255 /\ OutAt(t, d, i) \in Int
  BY <1>1, <1>2, <1>3 DEF n
<1>5. Out(t, d) = [i \in 1..n |-> OutAt(t, d, i)]
  BY DEF Out, n
<1>6. \A S : (\A i \in 1..n : OutAt(t, d, i) \in S) => [i \in 1..n |-> OutAt(t, d, i)] \in Seq(S)
  BY <1>4
<1>7. Len([i \in 1..n |-> OutAt(t, d, i)]) = n
  BY <1>4
<1>8. Out(t, d) \in Seq(0..255) /\ Out(t, d) \in Seq(Int)
  BY ONLY <1>4, <1>5, <1>6
<1>9. Len(Out(t, d)) = n
  BY ONLY <1>5, <1>7
<1> QED BY <1>8, <1>9 DEF n

LEMMA QuadBytesIs ==
  ASSUME NEW t, NEW d, IsText(t, d), NEW g \in Nat, 4 * g < Len(t)
  PROVE  /\ QuadBytes(Quad(t, g + 1)) = [j \in 1..(Held(d, g) - 1) |-> ByteOf(ValueAt(t, d, g), j)]
         /\ ~Spoilt(t, g + 1)
<1> DEFINE q == Quad(t, g + 1)
           v == ValueAt(t, d, g)
           n == Held(d, g)
           b == TextOf!Bytes(v, 3)
<1>2. n \in 2..4
  BY HeldIs
<1>3. /\ TextOf!Leading(q) = n
      /\ \A j \in 1..4 : q[j] # 65 /\ (q[j] = 64 <=> j > n)
      /\ TextOf!ValueOf(q, n) = v
  BY QuadIs DEF QuadOf
<1>4. \A j \in 1..3 : b[j] = ByteOf(v, j)
  BY DEF TextOf!Bytes, ByteOf
<1>5. v \in Nat
  BY ValueAtIs
<1>6. \A j \in 1..3 : b[j] \in Int
  <2>1. \A j \in 1..3 : ByteOf(v, j) \in 0..255
    BY <1>5, ByteOfIs
  <2>2. \A x \in 0..255 : x \in Int
    OBVIOUS
  <2> QED BY ONLY <1>4, <2>1, <2>2
<1>7. ~Spoilt(t, g + 1)
  <2>1. n < 4 => n + 1 \in 1..4
    BY <1>2
  <2> QED BY <1>3, <2>1 DEF Spoilt, TextOf!Bad
<1>8. QuadBytes(q) = FirstOf(b, n)
  <2> HIDE DEF q, v, n
  <2>1. QuadBytes(q) = NoPads(q, b)
    BY <1>3 DEF QuadBytes
  <2> HIDE DEF b
  <2>2. \A j \in 1..4 : q[j] = 64 <=> j > n
    BY <1>3
  <2>3. NoPads(q, b) = FirstOf(b, n)
    BY ONLY <1>2, <1>6, <2>2, OutOf
  <2> QED BY ONLY <2>1, <2>3
<1>9. FirstOf(b, n) = [j \in 1..(n - 1) |-> ByteOf(v, j)]
  <2> HIDE DEF v, n, b
  <2>1. \A j \in 1..(n - 1) : j \in 1..3
    BY <1>2
  <2> QED BY <1>4, <2>1 DEF FirstOf
<1> QED BY <1>7, <1>8, <1>9

\* The bytes of the groups from g on: those of the group and those behind it.
LEMMA OutTail ==
  ASSUME NEW t, NEW d, IsText(t, d), NEW g \in Nat, 4 * g < Len(t)
  PROVE  /\ 3 * g + (Held(d, g) - 1) <= (6 * d) \div 8
         /\ Held(d, g) # 4 => 3 * g + (Held(d, g) - 1) = (6 * d) \div 8
         /\ 4 * g + 4 = Len(t) => 3 * g + (Held(d, g) - 1) = (6 * d) \div 8
         /\ \A j \in 1..3 : OutAt(t, d, 3 * g + j) = ByteOf(ValueAt(t, d, g), j)
<1>1. d \in Nat /\ Len(t) \in Nat /\ d <= Len(t)
  BY DEF IsText
<1>2. Held(d, g) \in 2..4 /\ 4 * g + 4 <= Len(t) /\ (Held(d, g) # 4 => 4 * g + 4 = Len(t))
  BY HeldIs
<1>3. Held(d, g) = IF 4 * g + 4 <= d THEN 4 ELSE d - 4 * g
  BY DEF Held
<1>4. ASSUME NEW j \in 1..3 PROVE OutAt(t, d, 3 * g + j) = ByteOf(ValueAt(t, d, g), j)
  <2>1. ((3 * g + j) - 1) \div 3 = g /\ (((3 * g + j) - 1) % 3) + 1 = j
    OBVIOUS
  <2> QED BY <2>1 DEF OutAt
<1>5. CASE 4 * g + 4 <= d
  BY <1>1, <1>2, <1>3, <1>4, <1>5
<1>6. CASE ~(4 * g + 4 <= d)
  <2>1. d = 4 * g + 2 \/ d = 4 * g + 3
    BY ONLY <1>1, <1>2, <1>3, <1>6, g \in Nat
  <2>2. Held(d, g) = d - 4 * g
    BY ONLY <1>3, <1>6
  <2>3. d - 4 * g - 1 = (6 * d) \div 8 - 3 * g
    <3>1. CASE d = 4 * g + 2
      BY ONLY <3>1, g \in Nat
    <3>2. CASE d = 4 * g + 3
      BY ONLY <3>2, g \in Nat
    <3> QED BY ONLY <2>1, <3>1, <3>2
  <2> DEFINE l == (6 * d) \div 8
             n == Held(d, g)
  <2>4. d \in Nat /\ l \in Nat /\ g \in Nat /\ n = d - 4 * g /\ d - 4 * g - 1 = l - 3 * g
    BY ONLY <1>1, <2>2, <2>3, g \in Nat
  <2> HIDE DEF l, n
  <2>5. 3 * g + (n - 1) = l
    BY ONLY <2>4
  <2>6. 3 * g + (n - 1) <= l
    BY ONLY <2>4, <2>5
  <2> QED BY ONLY <1>4, <2>5, <2>6 DEF l, n
<1> QED BY <1>5, <1>6

LEMMA DecodeStringIs ==
  ASSUME NEW t, NEW d, IsText(t, d)
  PROVE  TextOf!DecodeString(t) = Out(t, d)
<1>1. d \in Nat /\ Len(t) \in Nat /\ d <= Len(t) /\ Len(t) % 4 = 0 /\ (Len(t) = 0 => d = 0)
  BY DEF IsText
<1> DEFINE m == Len(t) \div 4
           f == [g \in 1..m |-> QuadBytes(Quad(t, g))]
<1>2. m \in Nat /\ Len(t) = 4 * m
  BY <1>1
<1> HIDE DEF m
<1>3. ASSUME NEW g \in 1..m
      PROVE  /\ f[g] = [j \in 1..(Held(d, g - 1) - 1) |-> ByteOf(ValueAt(t, d, g - 1), j)]
             /\ ~Spoilt(t, g)
             /\ Held(d, g - 1) \in 2..4 /\ ValueAt(t, d, g - 1) \in Nat
             /\ g < m => Held(d, g - 1) = 4
  <2>1. g - 1 \in Nat /\ (g - 1) + 1 = g /\ 4 * (g - 1) < Len(t)
    BY <1>2
  <2>2. /\ QuadBytes(Quad(t, (g - 1) + 1)) = [j \in 1..(Held(d, g - 1) - 1) |-> ByteOf(ValueAt(t, d, g - 1), j)]
        /\ ~Spoilt(t, (g - 1) + 1)
    BY ONLY IsText(t, d), <2>1, QuadBytesIs
  <2>3. Held(d, g - 1) \in 2..4 /\ (Held(d, g - 1) # 4 => 4 * (g - 1) + 4 = Len(t))
    BY ONLY IsText(t, d), <2>1, HeldIs
  <2>4. g < m => 4 * (g - 1) + 4 # Len(t)
    BY <1>2
  <2>5. ValueAt(t, d, g - 1) \in Nat
    BY <2>1, ValueAtIs
  <2> QED BY <2>1, <2>2, <2>3, <2>4, <2>5
<1>4. TextOf!DecodeString(t) = TextOf!FlattenSeq(f)
  BY <1>1, <1>3, DecodeStringDef DEF m
<1>5. CASE m = 0
  <2>1. f = <<>> /\ Len(f) = 0 /\ [g \in 1..0 |-> f[g]] = f
    BY <1>5
  <2>2. TextOf!FlattenSeq([g \in 1..0 |-> f[g]]) = <<>>
    <3>1. 0 \in Nat
      OBVIOUS
    <3> HIDE DEF f
    <3> QED BY <3>1, FlattenLast
  <2>3. Out(t, d) = <<>>
    <3>1. d = 0 /\ (6 * d) \div 8 = 0
      BY <1>1, <1>2, <1>5
    <3> QED BY <3>1 DEF Out
  <2> HIDE DEF f
  <2> QED BY <1>4, <2>1, <2>2, <2>3
<1>6. CASE m # 0
  <2>1. PICK l \in Nat : m = l + 1
    <3>1. m - 1 \in Nat /\ m = (m - 1) + 1
      BY <1>2, <1>6
    <3> QED BY <3>1
  <2>2. ASSUME NEW g \in 1..m PROVE f[g] \in Seq(Int) /\ Len(f[g]) = Held(d, g - 1) - 1
    <3> DEFINE n == Held(d, g - 1) - 1
               b(j) == ByteOf(ValueAt(t, d, g - 1), j)
    <3>1. n \in 1..3
      BY <1>3
    <3>2. \A j \in 1..3 : b(j) \in 0..255
      BY <1>3, ByteOfIs
    <3>3. \A j \in 1..n : b(j) \in Int
      <4>1. \A j \in 1..n : j \in 1..3
        BY <3>1
      <4>2. \A x \in 0..255 : x \in Int
        OBVIOUS
      <4> HIDE DEF b, n
      <4> QED BY <3>2, <4>1, <4>2
    <3>4. f[g] = [j \in 1..n |-> b(j)]
      BY <1>3
    <3> HIDE DEF f, n, b
    <3>5. [j \in 1..n |-> b(j)] \in Seq(Int) /\ Len([j \in 1..n |-> b(j)]) = n
      BY <3>1, <3>3
    <3> QED BY <3>4, <3>5 DEF n
  <2>3. \A g \in 1..l : g \in 1..m /\ g < m
    BY <2>1
  <2>4. m \in 1..m /\ m - 1 = l /\ l + 1 = m
    BY <2>1
  <2> DEFINE front == [g \in 1..l |-> f[g]]
             e == f[l + 1]
             F(k) == TextOf!FlattenSeq([g \in 1..k |-> f[g]])
             b == F(l)
             h == Out(t, d)
  <2>5. b = [x \in 1..(3 * l) |-> f[(x - 1) \div 3 + 1][((x - 1) % 3) + 1]]
    <3>1. ASSUME NEW g \in 1..l PROVE f[g] \in Seq(Int) /\ Len(f[g]) = 3
      <4> HIDE DEF f
      <4>1. g \in 1..m /\ g < m
        BY <2>3
      <4>2. Held(d, g - 1) = 4
        BY <1>3, <4>1
      <4>3. f[g] \in Seq(Int) /\ Len(f[g]) = Held(d, g - 1) - 1
        BY ONLY <2>2, <4>1
      <4> QED BY ONLY <4>2, <4>3
    <3>2. 3 \in {3, 4} /\ l \in Nat
      OBVIOUS
    <3> HIDE DEF f
    <3> QED BY <3>1, <3>2, FlattenBlocks
  <2>6. TextOf!FlattenSeq(f) = b \o e
    <3>1. f = [g \in 1..(l + 1) |-> f[g]]
      BY <2>1
    <3>2. f[l + 1] \in Seq(Int)
      BY <2>2, <2>4
    <3>3. F(l + 1) = F(l) \o f[l + 1]
      <4> HIDE DEF f
      <4> QED BY <3>2, FlattenLast
    <3> HIDE DEF f
    <3> QED BY <3>1, <3>3
  <2>7. ASSUME NEW x \in 1..(3 * l)
        PROVE  b[x] = OutAt(t, d, x) /\ b[x] \in Int
    <3> DEFINE g == (x - 1) \div 3
               j == ((x - 1) % 3) + 1
    <3>1. g + 1 \in 1..l /\ j \in 1..3 /\ g \in Nat /\ (g + 1) - 1 = g
      OBVIOUS
    <3>2. b[x] = f[g + 1][j]
      <4> HIDE DEF f, F
      <4> QED BY <2>5
    <3>3. OutAt(t, d, x) = ByteOf(ValueAt(t, d, g), j)
      BY DEF OutAt
    <3> HIDE DEF g, j
    <3>4. g + 1 \in 1..m /\ g + 1 < m
      BY <2>3, <3>1
    <3>5. f[g + 1] = [i \in 1..(Held(d, g) - 1) |-> ByteOf(ValueAt(t, d, g), i)] /\ Held(d, g) = 4
          /\ ValueAt(t, d, g) \in Nat
      <4> HIDE DEF f
      <4> QED BY <1>3, <3>1, <3>4
    <3>6. f[g + 1][j] = ByteOf(ValueAt(t, d, g), j)
      <4> HIDE DEF f
      <4> QED BY <3>1, <3>5
    <3>7. ByteOf(ValueAt(t, d, g), j) \in 0..255
      BY <3>1, <3>5, ByteOfIs
    <3>8. \A y \in 0..255 : y \in Int
      OBVIOUS
    <3> HIDE DEF f, F
    <3> QED BY <3>2, <3>3, <3>6, <3>7, <3>8
  <2>8. b \in Seq(Int) /\ Len(b) = 3 * l
    <3>1. b = [x \in 1..(3 * l) |-> b[x]] /\ \A x \in 1..(3 * l) : b[x] \in Int
      <4> HIDE DEF f, F
      <4> QED BY <2>5, <2>7
    <3> HIDE DEF b
    <3>2. 3 * l \in Nat
      OBVIOUS
    <3> QED BY <3>1, <3>2
  <2>9. e \in Seq(Int) /\ Len(e) = Held(d, l) - 1 /\ Held(d, l) \in 2..4
        /\ e = [j \in 1..(Held(d, l) - 1) |-> ByteOf(ValueAt(t, d, l), j)]
    <3> HIDE DEF f
    <3> QED BY <1>3, <2>2, <2>4
  <2>10. 4 * l < Len(t) /\ 4 * l + 4 = Len(t)
    BY <1>2, <2>1
  <2>11. /\ 3 * l + (Held(d, l) - 1) = (6 * d) \div 8
         /\ \A j \in 1..3 : OutAt(t, d, 3 * l + j) = ByteOf(ValueAt(t, d, l), j)
    BY <2>10, OutTail
  <2>12. h = [x \in 1..(3 * l + (Held(d, l) - 1)) |-> OutAt(t, d, x)]
    BY <2>11 DEF Out
  <2>13. b \o e = h
    <3> DEFINE n == Held(d, l) - 1
    <3>1. n \in 1..3 /\ Len(b) = 3 * l /\ Len(e) = n /\ l \in Nat /\ e = [j \in 1..n |-> ByteOf(ValueAt(t, d, l), j)]
      <4> HIDE DEF b, e, f
      <4> QED BY <2>8, <2>9
    <3> HIDE DEF n, b, e, h
    <3>2. h = [x \in 1..(3 * l + n) |-> OutAt(t, d, x)]
      BY <2>12 DEF n
    <3>3. \A x \in 1..(3 * l) : x \in 1..(3 * l + n)
      BY <3>1
    <3>4. \A j \in 1..n : j \in 1..3 /\ 3 * l + j \in 1..(3 * l + n)
      BY <3>1
    <3>5. \A x \in 1..Len(b) : h[x] = b[x]
      BY <2>7, <3>1, <3>2, <3>3
    <3>6. \A j \in 1..Len(e) : h[Len(b) + j] = e[j]
      BY <2>11, <3>1, <3>2, <3>4
    <3>7. h = [x \in 1..(Len(b) + Len(e)) |-> h[x]]
      BY <3>1, <3>2
    <3> QED BY <2>8, <2>9, <3>5, <3>6, <3>7, Appended
  <2> HIDE DEF f, b, e, h
  <2> QED BY <1>4, <2>6, <2>13 DEF h
<1> QED BY <1>5, <1>6

\* The bits of three bytes are those of four digits.
FourDigits(a, b, c, e) == a * 262144 + b * 4096 + c * 64 + e

LEMMA BitsOfBytes ==
  ASSUME NEW a \in Sextet, NEW b \in Sextet, NEW c \in Sextet, NEW e \in Sextet
  PROVE  /\ ByteOf(FourDigits(a, b, c, e), 1) = 4 * a + b \div 16
         /\ ByteOf(FourDigits(a, b, c, e), 2) = 16 * (b % 16) + c \div 4
         /\ ByteOf(FourDigits(a, b, c, e), 3) = 64 * (c % 4) + e
<1> DEFINE v == FourDigits(a, b, c, e)
<1> a \in 0..63 /\ b \in 0..63 /\ c \in 0..63 /\ e \in 0..63
  BY DEF Sextet
<1>0. v = a * 262144 + b * 4096 + c * 64 + e
  BY DEF FourDigits
<1> HIDE DEF v
<1>1. TextOf!Eights[1] = 65536 /\ TextOf!Eights[2] = 256 /\ TextOf!Eights[3] = 1
  BY DEF TextOf!Eights
<1>2. PICK p \in 0..3, r \in 0..15 : b = 16 * p + r
  <2>1. b \div 16 \in 0..3 /\ b % 16 \in 0..15 /\ b = 16 * (b \div 16) + (b % 16)
    OBVIOUS
  <2> QED BY <2>1
<1>3. PICK x \in 0..15, y \in 0..3 : c = 4 * x + y
  <2>1. c \div 4 \in 0..15 /\ c % 4 \in 0..3 /\ c = 4 * (c \div 4) + (c % 4)
    OBVIOUS
  <2> QED BY <2>1
<1>4. b \div 16 = p /\ b % 16 = r /\ c \div 4 = x /\ c % 4 = y
  BY <1>2, <1>3
<1>5. v = (4 * a + p) * 65536 + (16 * r + x) * 256 + (64 * y + e)
  BY <1>0, <1>2, <1>3
<1>6. v \div 65536 = 4 * a + p /\ v \div 256 = (4 * a + p) * 256 + (16 * r + x)
  BY <1>2, <1>3, <1>5
<1>7. ByteOf(v, 1) = 4 * a + p
  BY <1>1, <1>2, <1>6 DEF ByteOf
<1>8. ByteOf(v, 2) = 16 * r + x
  BY <1>1, <1>2, <1>3, <1>6 DEF ByteOf
<1>9. ByteOf(v, 3) = 64 * y + e
  <2>1. v \div 1 = v
    BY <1>5
  <2>2. v % 256 = 64 * y + e
    BY <1>2, <1>3, <1>5
  <2> QED BY <1>1, <2>1, <2>2 DEF ByteOf
<1> QED BY <1>4, <1>7, <1>8, <1>9 DEF v

\* Bit r of a byte or of a digit, the highest first.
BitOf(x, w) == (x \div TextOf!Powers[w]) % 2

LEMMA PowersAre ==
  /\ TextOf!Powers[1] = 1 /\ TextOf!Powers[2] = 2 /\ TextOf!Powers[3] = 4 /\ TextOf!Powers[4] = 8
  /\ TextOf!Powers[5] = 16 /\ TextOf!Powers[6] = 32 /\ TextOf!Powers[7] = 64 /\ TextOf!Powers[8] = 128
  BY DEF TextOf!Powers

\* The bits of the three bytes of a group are those of its four digits.
FirstBits(u, a, b) ==
  /\ \A r \in 0..5 : BitOf(u, 8 - r) = BitOf(a, 6 - r)
  /\ \A r \in 6..7 : BitOf(u, 8 - r) = BitOf(b, 6 - (r - 6))
SecondBits(u, b, c) ==
  /\ \A r \in 0..3 : BitOf(u, 8 - r) = BitOf(b, 6 - (r + 2))
  /\ \A r \in 4..7 : BitOf(u, 8 - r) = BitOf(c, 6 - (r - 4))
ThirdBits(u, c, e) ==
  /\ \A r \in 0..1 : BitOf(u, 8 - r) = BitOf(c, 6 - (r + 4))
  /\ \A r \in 2..7 : BitOf(u, 8 - r) = BitOf(e, 6 - (r - 2))

LEMMA BitsOfFirst ==
  ASSUME NEW a \in 0..63, NEW b \in 0..63, NEW u, u = 4 * a + b \div 16
  PROVE  FirstBits(u, a, b)
<1>1. PICK p \in 0..3, x \in 0..15 : b = 16 * p + x
  <2>1. b \div 16 \in 0..3 /\ b % 16 \in 0..15 /\ b = 16 * (b \div 16) + (b % 16)
    OBVIOUS
  <2> QED BY <2>1
<1>2. u = 4 * a + p
  BY <1>1
<1>3. BitOf(u, 8) = BitOf(a, 6) /\ BitOf(u, 7) = BitOf(a, 5) /\ BitOf(u, 6) = BitOf(a, 4)
  BY <1>2, PowersAre DEF BitOf
<1>4. BitOf(u, 5) = BitOf(a, 3) /\ BitOf(u, 4) = BitOf(a, 2) /\ BitOf(u, 3) = BitOf(a, 1)
  BY <1>2, PowersAre DEF BitOf
<1>5. BitOf(u, 2) = BitOf(b, 6) /\ BitOf(u, 1) = BitOf(b, 5)
  BY <1>1, <1>2, PowersAre DEF BitOf
<1>6. \A r \in 0..5 : BitOf(u, 8 - r) = BitOf(a, 6 - r)
  <2> TAKE r \in 0..5
  <2>1. r = 0 \/ r = 1 \/ r = 2 \/ r = 3 \/ r = 4 \/ r = 5
    OBVIOUS
  <2> QED BY <1>3, <1>4, <2>1
<1>7. \A r \in 6..7 : BitOf(u, 8 - r) = BitOf(b, 6 - (r - 6))
  <2> TAKE r \in 6..7
  <2>1. r = 6 \/ r = 7
    OBVIOUS
  <2> QED BY <1>5, <2>1
<1> QED BY <1>6, <1>7 DEF FirstBits

LEMMA BitsOfSecond ==
  ASSUME NEW b \in 0..63, NEW c \in 0..63, NEW u, u = 16 * (b % 16) + c \div 4
  PROVE  SecondBits(u, b, c)
<1>1. PICK p \in 0..3, x \in 0..15 : b = 16 * p + x
  <2>1. b \div 16 \in 0..3 /\ b % 16 \in 0..15 /\ b = 16 * (b \div 16) + (b % 16)
    OBVIOUS
  <2> QED BY <2>1
<1>2. PICK y \in 0..15, z \in 0..3 : c = 4 * y + z
  <2>1. c \div 4 \in 0..15 /\ c % 4 \in 0..3 /\ c = 4 * (c \div 4) + (c % 4)
    OBVIOUS
  <2> QED BY <2>1
<1>3. u = 16 * x + y
  BY <1>1, <1>2
<1>4. BitOf(u, 8) = BitOf(b, 4) /\ BitOf(u, 7) = BitOf(b, 3) /\ BitOf(u, 6) = BitOf(b, 2) /\ BitOf(u, 5) = BitOf(b, 1)
  <2>1. BitOf(u, 8) = BitOf(b, 4)
    BY <1>1, <1>2, <1>3, PowersAre DEF BitOf
  <2>2. BitOf(u, 7) = BitOf(b, 3)
    BY <1>1, <1>2, <1>3, PowersAre DEF BitOf
  <2>3. BitOf(u, 6) = BitOf(b, 2)
    BY <1>1, <1>2, <1>3, PowersAre DEF BitOf
  <2>4. BitOf(u, 5) = BitOf(b, 1)
    BY <1>1, <1>2, <1>3, PowersAre DEF BitOf
  <2> QED BY <2>1, <2>2, <2>3, <2>4
<1>5. BitOf(u, 4) = BitOf(c, 6) /\ BitOf(u, 3) = BitOf(c, 5) /\ BitOf(u, 2) = BitOf(c, 4) /\ BitOf(u, 1) = BitOf(c, 3)
  <2>1. BitOf(u, 4) = BitOf(c, 6)
    BY <1>1, <1>2, <1>3, PowersAre DEF BitOf
  <2>2. BitOf(u, 3) = BitOf(c, 5)
    BY <1>1, <1>2, <1>3, PowersAre DEF BitOf
  <2>3. BitOf(u, 2) = BitOf(c, 4)
    BY <1>1, <1>2, <1>3, PowersAre DEF BitOf
  <2>4. BitOf(u, 1) = BitOf(c, 3)
    BY <1>1, <1>2, <1>3, PowersAre DEF BitOf
  <2> QED BY <2>1, <2>2, <2>3, <2>4
<1>6. \A r \in 0..3 : BitOf(u, 8 - r) = BitOf(b, 6 - (r + 2))
  <2> TAKE r \in 0..3
  <2>1. r = 0 \/ r = 1 \/ r = 2 \/ r = 3
    OBVIOUS
  <2> QED BY <1>4, <2>1
<1>7. \A r \in 4..7 : BitOf(u, 8 - r) = BitOf(c, 6 - (r - 4))
  <2> TAKE r \in 4..7
  <2>1. r = 4 \/ r = 5 \/ r = 6 \/ r = 7
    OBVIOUS
  <2> QED BY <1>5, <2>1
<1> QED BY <1>6, <1>7 DEF SecondBits

LEMMA BitsOfThird ==
  ASSUME NEW c \in 0..63, NEW e \in 0..63, NEW u, u = 64 * (c % 4) + e
  PROVE  ThirdBits(u, c, e)
<1>1. PICK x \in 0..15, z \in 0..3 : c = 4 * x + z
  <2>1. c \div 4 \in 0..15 /\ c % 4 \in 0..3 /\ c = 4 * (c \div 4) + (c % 4)
    OBVIOUS
  <2> QED BY <2>1
<1>2. u = 64 * z + e
  BY <1>1
<1>3. BitOf(u, 8) = BitOf(c, 2) /\ BitOf(u, 7) = BitOf(c, 1)
  BY <1>1, <1>2, PowersAre DEF BitOf
<1>4. BitOf(u, 6) = BitOf(e, 6) /\ BitOf(u, 5) = BitOf(e, 5) /\ BitOf(u, 4) = BitOf(e, 4)
  BY <1>1, <1>2, PowersAre DEF BitOf
<1>5. BitOf(u, 3) = BitOf(e, 3) /\ BitOf(u, 2) = BitOf(e, 2) /\ BitOf(u, 1) = BitOf(e, 1)
  BY <1>1, <1>2, PowersAre DEF BitOf
<1>6. \A r \in 0..1 : BitOf(u, 8 - r) = BitOf(c, 6 - (r + 4))
  <2> TAKE r \in 0..1
  <2>1. r = 0 \/ r = 1
    OBVIOUS
  <2> QED BY <1>3, <2>1
<1>7. \A r \in 2..7 : BitOf(u, 8 - r) = BitOf(e, 6 - (r - 2))
  <2> TAKE r \in 2..7
  <2>1. r = 2 \/ r = 3 \/ r = 4 \/ r = 5 \/ r = 6 \/ r = 7
    OBVIOUS
  <2> QED BY <1>4, <1>5, <2>1
<1> QED BY <1>6, <1>7 DEF ThirdBits

LEMMA BitIndex ==
  ASSUME NEW i \in Nat
  PROVE  \E g \in Nat, k \in 0..2, r \in 0..7 :
            i = 24 * g + 8 * k + r /\ i \div 8 = 3 * g + k /\ i % 8 = r
<1> DEFINE g == i \div 24
           k == (i % 24) \div 8
           r == i % 8
<1>1. g \in Nat /\ k \in 0..2 /\ r \in 0..7
  OBVIOUS
<1>2. i = 24 * g + 8 * k + r
  OBVIOUS
<1>3. i \div 8 = 3 * g + k
  OBVIOUS
<1> QED BY <1>1, <1>2, <1>3

LEMMA SameCardinality ==
  ASSUME NEW S
  PROVE  TextOf!Cardinality(S) = Cardinality(S)
  BY DEF TextOf!Cardinality, Cardinality

\* The bytes that a text is decoded into have the bits of its digits.
LEMMA OutStandsFor ==
  ASSUME NEW t, NEW d, IsText(t, d)
  PROVE  TextOf!StandsFor(t, Out(t, d))
<1> DEFINE s == Out(t, d)
           l == (6 * d) \div 8
<1>1. d \in Nat /\ Len(t) \in Nat /\ l \in Nat /\ d <= Len(t)
  BY DEF IsText
<1>2. s \in Seq(0..255) /\ Len(s) = l
  BY OutIs
<1>3. TextOf!Cardinality({i \in DOMAIN t : t[i] # TextOf!Pad}) = d
  BY DigitsCounted, SameCardinality
<1>4. ASSUME NEW i \in 0..(8 * l - 1)
      PROVE  TextOf!ByteBit(s, i) = TextOf!DigitBit(t, i)
  <2>1. i \in Nat /\ i \div 8 + 1 \in 1..l /\ i \div 6 + 1 \in 1..d /\ i \div 6 \in Nat
    <3>1. i < 8 * l /\ 8 * l <= 6 * d /\ i \in Nat
      BY <1>1
    <3>2. i \div 8 + 1 \in 1..l
      BY <1>1, <3>1
    <3>3. i \div 6 + 1 \in 1..d
      BY <1>1, <3>1
    <3> QED BY <3>1, <3>2, <3>3
  <2>2. PICK g \in Nat, k \in 0..2, r \in 0..7 :
            i = 24 * g + 8 * k + r /\ i \div 8 = 3 * g + k /\ i % 8 = r
    BY <2>1, BitIndex
  <2> DEFINE D(j) == DigitAt(t, d, 4 * g + j)
             v == ValueAt(t, d, g)
  <2>3. D(1) \in 0..63 /\ D(2) \in 0..63 /\ D(3) \in 0..63 /\ D(4) \in 0..63
    <3>1. \A j \in 1..4 : 4 * g + j \in Nat \ {0}
      OBVIOUS
    <3>2. \A j \in 1..4 : D(j) \in Sextet
      BY <3>1, ValueAtIs
    <3> HIDE DEF D
    <3> QED BY <3>2 DEF Sextet
  <2>4. v = FourDigits(D(1), D(2), D(3), D(4))
    BY DEF ValueAt, FourDigits
  <2>5. TextOf!ByteBit(s, i) = BitOf(ByteOf(v, k + 1), 8 - r)
    <3>1. s[i \div 8 + 1] = OutAt(t, d, i \div 8 + 1)
      BY <2>1 DEF Out
    <3>2. i \div 8 + 1 = 3 * g + (k + 1) /\ k + 1 \in 1..3
      BY <2>2
    <3>3. OutAt(t, d, 3 * g + (k + 1)) = ByteOf(v, k + 1)
      <4>1. ((3 * g + (k + 1)) - 1) \div 3 = g /\ (((3 * g + (k + 1)) - 1) % 3) + 1 = k + 1
        OBVIOUS
      <4> QED BY <4>1 DEF OutAt
    <3> HIDE DEF s, v
    <3> QED BY <2>2, <3>1, <3>2, <3>3 DEF TextOf!ByteBit, BitOf
  <2>6. TextOf!DigitBit(t, i) = BitOf(DigitAt(t, d, i \div 6 + 1), 6 - (i % 6))
    <3>1. DigitAt(t, d, i \div 6 + 1) = t[i \div 6 + 1]
      BY <2>1 DEF DigitAt
    <3> QED BY <3>1 DEF TextOf!DigitBit, BitOf
  <2> HIDE DEF D, v
  <2>7. /\ ByteOf(v, 1) = 4 * D(1) + D(2) \div 16
        /\ ByteOf(v, 2) = 16 * (D(2) % 16) + D(3) \div 4
        /\ ByteOf(v, 3) = 64 * (D(3) % 4) + D(4)
    <3>1. D(1) \in Sextet /\ D(2) \in Sextet /\ D(3) \in Sextet /\ D(4) \in Sextet
      BY <2>3 DEF Sextet
    <3> QED BY ONLY <2>4, <3>1, BitsOfBytes
  <2>8. CASE k = 0
    <3>1. \/ r \in 0..5 /\ i \div 6 + 1 = 4 * g + 1 /\ i % 6 = r
          \/ r \in 6..7 /\ i \div 6 + 1 = 4 * g + 2 /\ i % 6 = r - 6
      BY <2>2, <2>8
    <3>2. /\ \A x \in 0..5 : BitOf(ByteOf(v, 1), 8 - x) = BitOf(D(1), 6 - x)
          /\ \A x \in 6..7 : BitOf(ByteOf(v, 1), 8 - x) = BitOf(D(2), 6 - (x - 6))
      <4>1. FirstBits(ByteOf(v, 1), D(1), D(2))
        BY ONLY <2>3, <2>7, BitsOfFirst
      <4> QED BY ONLY <4>1 DEF FirstBits
    <3>3. k + 1 = 1
      BY <2>8
    <3> QED BY <2>5, <2>6, <3>1, <3>2, <3>3 DEF D
  <2>9. CASE k = 1
    <3>1. \/ r \in 0..3 /\ i \div 6 + 1 = 4 * g + 2 /\ i % 6 = r + 2
          \/ r \in 4..7 /\ i \div 6 + 1 = 4 * g + 3 /\ i % 6 = r - 4
      BY <2>2, <2>9
    <3>2. /\ \A x \in 0..3 : BitOf(ByteOf(v, 2), 8 - x) = BitOf(D(2), 6 - (x + 2))
          /\ \A x \in 4..7 : BitOf(ByteOf(v, 2), 8 - x) = BitOf(D(3), 6 - (x - 4))
      <4>1. SecondBits(ByteOf(v, 2), D(2), D(3))
        BY ONLY <2>3, <2>7, BitsOfSecond
      <4> QED BY ONLY <4>1 DEF SecondBits
    <3>3. k + 1 = 2
      BY <2>9
    <3> QED BY <2>5, <2>6, <3>1, <3>2, <3>3 DEF D
  <2>10. CASE k = 2
    <3>1. \/ r \in 0..1 /\ i \div 6 + 1 = 4 * g + 3 /\ i % 6 = r + 4
          \/ r \in 2..7 /\ i \div 6 + 1 = 4 * g + 4 /\ i % 6 = r - 2
      BY <2>2, <2>10
    <3>2. /\ \A x \in 0..1 : BitOf(ByteOf(v, 3), 8 - x) = BitOf(D(3), 6 - (x + 4))
          /\ \A x \in 2..7 : BitOf(ByteOf(v, 3), 8 - x) = BitOf(D(4), 6 - (x - 2))
      <4>1. ThirdBits(ByteOf(v, 3), D(3), D(4))
        BY ONLY <2>3, <2>7, BitsOfThird
      <4> QED BY ONLY <4>1 DEF ThirdBits
    <3>3. k + 1 = 3
      BY <2>10
    <3> QED BY <2>5, <2>6, <3>1, <3>2, <3>3 DEF D
  <2>11. k = 0 \/ k = 1 \/ k = 2
    OBVIOUS
  <2> QED BY <2>8, <2>9, <2>10, <2>11
<1> QED
  <2> HIDE DEF s
  <2>1. \A i \in 0..(8 * Len(s) - 1) : TextOf!ByteBit(s, i) = TextOf!DigitBit(t, i)
    BY ONLY <1>2, <1>4
  <2>2. TextOf!StandsFor(t, s)
    <3>1. Len(s) = (6 * TextOf!Cardinality({i \in DOMAIN t : t[i] # TextOf!Pad})) \div 8
      BY ONLY <1>2, <1>3
    <3>2. s \in Seq(0..255)
      BY ONLY <1>2
    <3> QED BY ONLY <2>1, <3>1, <3>2, Zenon DEF TextOf!StandsFor
  <2> QED BY ONLY <2>2 DEF s

DigitOf(v, j) == (v \div TextOf!Sixes[j]) % 64
ThreeBytes(x, y, z) == x * 65536 + y * 256 + z
Byte == 0..255

\* The digits of three bytes make them up again.
LEMMA DigitsOfBytes ==
  ASSUME NEW x \in Byte, NEW y \in Byte, NEW z \in Byte, NEW v, v = ThreeBytes(x, y, z)
  PROVE  /\ \A j \in 1..4 : DigitOf(v, j) \in Sextet
         /\ FourDigits(DigitOf(v, 1), DigitOf(v, 2), DigitOf(v, 3), DigitOf(v, 4)) = v
         /\ z = 0 => DigitOf(v, 4) = 0
         /\ y = 0 /\ z = 0 => DigitOf(v, 3) = 0
         /\ ByteOf(v, 1) = x /\ ByteOf(v, 2) = y /\ ByteOf(v, 3) = z
<1> x \in 0..255 /\ y \in 0..255 /\ z \in 0..255
  BY DEF Byte
<1>1. v = x * 65536 + y * 256 + z
  BY DEF ThreeBytes
<1>2. PICK a \in 0..63, p \in 0..3 : x = 4 * a + p
  <2>1. x \div 4 \in 0..63 /\ x % 4 \in 0..3 /\ x = 4 * (x \div 4) + (x % 4)
    OBVIOUS
  <2> QED BY <2>1
<1>3. PICK b \in 0..15, q \in 0..15 : y = 16 * b + q
  <2>1. y \div 16 \in 0..15 /\ y % 16 \in 0..15 /\ y = 16 * (y \div 16) + (y % 16)
    OBVIOUS
  <2> QED BY <2>1
<1>4. PICK c \in 0..3, e \in 0..63 : z = 64 * c + e
  <2>1. z \div 64 \in 0..3 /\ z % 64 \in 0..63 /\ z = 64 * (z \div 64) + (z % 64)
    OBVIOUS
  <2> QED BY <2>1
<1>5. v = a * 262144 + (16 * p + b) * 4096 + (4 * q + c) * 64 + e
  BY <1>1, <1>2, <1>3, <1>4
<1>6. TextOf!Sixes[1] = 262144 /\ TextOf!Sixes[2] = 4096 /\ TextOf!Sixes[3] = 64 /\ TextOf!Sixes[4] = 1
  BY DEF TextOf!Sixes
<1>7. 16 * p + b \in 0..63 /\ 4 * q + c \in 0..63
  BY <1>2, <1>3, <1>4
<1>8. DigitOf(v, 1) = a
  <2>1. v \div 262144 = a
    BY <1>2, <1>4, <1>5, <1>7
  <2> QED BY <1>2, <1>6, <2>1 DEF DigitOf
<1>9. DigitOf(v, 2) = 16 * p + b
  <2>1. v \div 4096 = a * 64 + (16 * p + b)
    BY <1>2, <1>4, <1>5, <1>7
  <2> QED BY <1>2, <1>6, <1>7, <2>1 DEF DigitOf
<1>10. DigitOf(v, 3) = 4 * q + c
  <2>1. v \div 64 = (a * 64 + (16 * p + b)) * 64 + (4 * q + c)
    BY <1>2, <1>4, <1>5, <1>7
  <2> QED BY <1>2, <1>6, <1>7, <2>1 DEF DigitOf
<1>11. DigitOf(v, 4) = e
  <2>1. v \div 1 = v
    BY <1>1
  <2>2. v % 64 = e
    BY <1>2, <1>4, <1>5, <1>7
  <2> QED BY <1>6, <2>1, <2>2 DEF DigitOf
<1>12. \A j \in 1..4 : DigitOf(v, j) \in Sextet
  <2> TAKE j \in 1..4
  <2>1. j = 1 \/ j = 2 \/ j = 3 \/ j = 4
    OBVIOUS
  <2>2. a \in Sextet /\ 16 * p + b \in Sextet /\ 4 * q + c \in Sextet /\ e \in Sextet
    BY <1>2, <1>4, <1>7 DEF Sextet
  <2> QED BY <1>8, <1>9, <1>10, <1>11, <2>1, <2>2
<1>13. FourDigits(DigitOf(v, 1), DigitOf(v, 2), DigitOf(v, 3), DigitOf(v, 4)) = v
  BY <1>5, <1>8, <1>9, <1>10, <1>11 DEF FourDigits
<1>14. /\ z = 0 => c = 0 /\ e = 0
       /\ y = 0 => q = 0
  BY <1>3, <1>4
<1>15. z = 0 => DigitOf(v, 4) = 0
  BY <1>11, <1>14
<1>16. y = 0 /\ z = 0 => DigitOf(v, 3) = 0
  BY <1>10, <1>14
<1>17. TextOf!Eights[1] = 65536 /\ TextOf!Eights[2] = 256 /\ TextOf!Eights[3] = 1
  BY DEF TextOf!Eights
<1>18. ByteOf(v, 1) = x
  <2>1. v \div 65536 = x
    BY <1>1
  <2> QED BY <1>17, <2>1 DEF ByteOf
<1>19. ByteOf(v, 2) = y
  <2>1. v \div 256 = x * 256 + y
    BY <1>1
  <2> QED BY <1>17, <2>1 DEF ByteOf
<1>20. ByteOf(v, 3) = z
  <2>1. v \div 1 = v /\ v % 256 = z
    BY <1>1
  <2> QED BY <1>17, <2>1 DEF ByteOf
<1> QED BY <1>12, <1>13, <1>15, <1>16, <1>18, <1>19, <1>20

\* Three bytes of a string, what lies behind it being 0.
LEMMA GroupIs ==
  ASSUME NEW s \in Seq(Byte), NEW i \in Nat
  PROVE  /\ TextOf!ByteAt(s, i) \in Byte /\ TextOf!ByteAt(s, i + 1) \in Byte /\ TextOf!ByteAt(s, i + 2) \in Byte
         /\ TextOf!Group(s, i) = ThreeBytes(TextOf!ByteAt(s, i), TextOf!ByteAt(s, i + 1), TextOf!ByteAt(s, i + 2))
<1>1. ASSUME NEW j \in Nat PROVE TextOf!ByteAt(s, j) \in Byte
  <2>1. Len(s) \in Nat /\ \A k \in 1..Len(s) : s[k] \in Byte
    BY InSeq
  <2>2. j < Len(s) => j + 1 \in 1..Len(s)
    BY <2>1
  <2>3. 0 \in Byte
    BY DEF Byte
  <2> QED BY <2>1, <2>2, <2>3 DEF TextOf!ByteAt
<1>2. i + 1 \in Nat /\ i + 2 \in Nat
  OBVIOUS
<1> QED BY <1>1, <1>2 DEF TextOf!Group, ThreeBytes

\* The digits of the whole groups, and of the one or two bytes that are left.
Whole(s) == TextOf!FlattenSeq([g \in 1..(Len(s) \div 3) |-> TextOf!Digits(TextOf!Group(s, 3 * (g - 1)), 4)])
LeftDigits(s) == ((Len(s) % 3) * 8 + 5) \div 6
LastOf(s) == IF Len(s) % 3 = 0 THEN <<>>
           ELSE TextOf!Digits(TextOf!Group(s, 3 * (Len(s) \div 3)), LeftDigits(s)) \o TextOf!Pads(4 - LeftDigits(s))

\* The first n digits of the group of a string at i are a list of n.
DigitsAre(s, i, n) ==
  /\ TextOf!Digits(TextOf!Group(s, i), n) \in Seq(Int)
  /\ Len(TextOf!Digits(TextOf!Group(s, i), n)) = n
  /\ \A j \in 1..n : TextOf!Digits(TextOf!Group(s, i), n)[j] = DigitOf(TextOf!Group(s, i), j)
  /\ \A j \in 1..4 : DigitOf(TextOf!Group(s, i), j) \in Sextet

LEMMA DigitsIs ==
  ASSUME NEW s \in Seq(Byte), NEW i \in Nat, NEW n \in 0..4
  PROVE  DigitsAre(s, i, n)
<1> DEFINE v == TextOf!Group(s, i)
<1>1. \A j \in 1..4 : DigitOf(v, j) \in Sextet
  <2> HIDE DEF v
  <2>1. PICK x \in Byte, y \in Byte, z \in Byte : v = ThreeBytes(x, y, z)
    BY GroupIs DEF v
  <2> QED BY <2>1, DigitsOfBytes
<1> HIDE DEF v
<1>2. TextOf!Digits(v, n) = [j \in 1..n |-> DigitOf(v, j)]
  BY DEF TextOf!Digits, DigitOf
<1>3. \A j \in 1..n : DigitOf(v, j) \in Int
  <2>1. \A j \in 1..n : j \in 1..4
    OBVIOUS
  <2> QED BY <1>1, <2>1, SignIs
<1>4. [j \in 1..n |-> DigitOf(v, j)] \in Seq(Int) /\ Len([j \in 1..n |-> DigitOf(v, j)]) = n
  BY <1>3
<1> QED BY <1>1, <1>2, <1>4 DEF v, DigitsAre

LEMMA LastIs ==
  ASSUME NEW s \in Seq(Byte), Len(s) % 3 # 0
  PROVE  /\ LeftDigits(s) = (Len(s) % 3) + 1
         /\ LastOf(s) \in Seq(Int) /\ Len(LastOf(s)) = 4
         /\ \A j \in 1..4 : LastOf(s)[j] = IF j <= LeftDigits(s) THEN DigitOf(TextOf!Group(s, 3 * (Len(s) \div 3)), j) ELSE 64
<1> DEFINE n == LeftDigits(s)
           i == 3 * (Len(s) \div 3)
           a == TextOf!Digits(TextOf!Group(s, i), n)
           p == TextOf!Pads(4 - n)
<1>1. Len(s) \in Nat
  OBVIOUS
<1>2. n = (Len(s) % 3) + 1 /\ n \in 2..3 /\ i \in Nat
  BY <1>1 DEF LeftDigits
<1> HIDE DEF n, i
<1>3. n \in 0..4 /\ 4 - n \in Nat /\ n + (4 - n) = 4
  BY <1>2
<1>4. a \in Seq(Int) /\ Len(a) = n /\ \A j \in 1..n : a[j] = DigitOf(TextOf!Group(s, i), j)
  <2>1. DigitsAre(s, i, n)
    BY ONLY s \in Seq(Byte), <1>2, <1>3, DigitsIs
  <2> QED BY ONLY <2>1 DEF DigitsAre, a
<1>5. p = [j \in 1..(4 - n) |-> 64]
  BY DEF TextOf!Pads, TextOf!Pad
<1>6. p \in Seq(Int) /\ Len(p) = 4 - n
  BY <1>3, <1>5
<1>7. LastOf(s) = a \o p
  BY DEF LastOf, n, i
<1> HIDE DEF a, p
<1>8. a \o p \in Seq(Int) /\ Len(a \o p) = 4
  BY <1>3, <1>4, <1>6
<1>9. ASSUME NEW j \in 1..4
      PROVE  (a \o p)[j] = IF j <= n THEN DigitOf(TextOf!Group(s, i), j) ELSE 64
  <2>1. CASE j <= n
    <3>1. j \in 1..n
      BY <1>2, <2>1
    <3>2. (a \o p)[j] = a[j]
      BY <1>4, <1>6, <3>1
    <3> QED BY <1>4, <2>1, <3>1, <3>2
  <2>2. CASE ~(j <= n)
    <3>1. j - n \in 1..(4 - n)
      BY <1>2, <2>2
    <3>2. (a \o p)[j] = p[j - n]
      BY <1>2, <1>4, <1>6, <2>2, <3>1
    <3> QED BY <1>5, <2>2, <3>1, <3>2
  <2> QED BY <2>1, <2>2
<1>10. LastOf(s) \in Seq(Int) /\ Len(LastOf(s)) = 4
  BY ONLY <1>7, <1>8
<1>11. \A j \in 1..4 : LastOf(s)[j] = IF j <= n THEN DigitOf(TextOf!Group(s, i), j) ELSE 64
  <2> DEFINE c == a \o p
  <2>1. \A j \in 1..4 : c[j] = IF j <= n THEN DigitOf(TextOf!Group(s, i), j) ELSE 64
    BY <1>9, Zenon
  <2>2. LastOf(s) = c
    BY <1>7
  <2> HIDE DEF c
  <2> QED BY ONLY <2>1, <2>2
<1>12. n = (Len(s) % 3) + 1
  BY <1>2
<1> QED BY ONLY <1>10, <1>11, <1>12 DEF n, i

LEMMA ThreeAtATime ==
  ASSUME NEW l \in Nat
  PROVE  /\ l \div 3 \in Nat /\ l - 3 * (l \div 3) = l % 3 /\ l % 3 \in 0..2
         /\ \A g \in 1..(l \div 3) : ~(l - 3 * (g - 1) < 3)
  OBVIOUS

\* A string and a stream are encoded alike.
LEMMA EncodedAlike ==
  ASSUME NEW s \in Seq(Byte)
  PROVE  /\ TextOf!EncodeString(s) = Whole(s) \o LastOf(s)
         /\ TextOf!EncodeStream(s) = Whole(s) \o LastOf(s)
<1>1. TextOf!EncodeString(s) = Whole(s) \o LastOf(s)
  BY DEF TextOf!EncodeString, Whole, LastOf, LeftDigits
<1> DEFINE w == Len(s) \div 3
           I(g) == IF Len(s) - 3 * g < 3 THEN Len(s) - 3 * g ELSE 3
           J(g) == (I(g) * 8 + 5) \div 6
           C(g) == TextOf!Digits(TextOf!Group(s, 3 * g), J(g)) \o (IF I(g) \in 1..2 THEN TextOf!Pads(4 - J(g)) ELSE <<>>)
           f == [g \in 1..(w + 1) |-> C(g - 1)]
<1>2. Len(s) \in Nat /\ w \in Nat
  OBVIOUS
<1>3. TextOf!EncodeStream(s) = TextOf!FlattenSeq(f)
  BY DEF TextOf!EncodeStream
<1>12. /\ \A g \in 1..w : I(g - 1) = 3 /\ J(g - 1) = 4
       /\ I(w) = Len(s) % 3 /\ J(w) = LeftDigits(s) /\ Len(s) % 3 \in 0..2
  <2>1. /\ Len(s) - 3 * w = Len(s) % 3 /\ Len(s) % 3 \in 0..2
        /\ \A g \in 1..w : ~(Len(s) - 3 * (g - 1) < 3)
    BY <1>2, ThreeAtATime
  <2> HIDE DEF w
  <2>2. \A g \in 1..w : I(g - 1) = 3
    BY ONLY <2>1
  <2>3. (3 * 8 + 5) \div 6 = 4
    OBVIOUS
  <2>4. I(w) = Len(s) % 3
    BY ONLY <2>1
  <2> HIDE DEF I
  <2>5. \A g \in 1..w : J(g - 1) = 4
    BY ONLY <2>2, <2>3
  <2>6. J(w) = LeftDigits(s)
    BY ONLY <2>4 DEF LeftDigits
  <2> QED BY <2>1, <2>2, <2>4, <2>5, <2>6
<1> HIDE DEF w, I, J
<1>13. \A g \in 1..(w + 1) : f[g] = C(g - 1)
  OBVIOUS
<1>4. ASSUME NEW g \in 1..w
      PROVE  f[g] = TextOf!Digits(TextOf!Group(s, 3 * (g - 1)), 4)
  <2>1. g \in 1..(w + 1) /\ 3 * (g - 1) \in Nat /\ 4 \in 0..4
    BY <1>2
  <2>2. TextOf!Digits(TextOf!Group(s, 3 * (g - 1)), 4) \in Seq(Int)
    BY <2>1, DigitsIs DEF DigitsAre
  <2>3. TextOf!Digits(TextOf!Group(s, 3 * (g - 1)), 4) \o <<>> = TextOf!Digits(TextOf!Group(s, 3 * (g - 1)), 4)
    BY <2>2
  <2>4. f[g] = C(g - 1)
    BY <1>13, <2>1
  <2>5. I(g - 1) = 3 /\ J(g - 1) = 4 /\ ~(3 \in 1..2)
    BY <1>12
  <2> HIDE DEF f
  <2> QED BY <2>3, <2>4, <2>5
<1>5. f[w + 1] = LastOf(s)
  <2>1. f[w + 1] = C(w)
    <3>1. w + 1 \in 1..(w + 1) /\ (w + 1) - 1 = w
      BY <1>2
    <3> HIDE DEF f, C
    <3> QED BY <1>13, <3>1
  <2>2. 3 * w = 3 * (Len(s) \div 3)
    BY DEF w
  <2> HIDE DEF f
  <2>3. CASE Len(s) % 3 = 0
    <3>1. LeftDigits(s) = 0 /\ ~(0 \in 1..2)
      BY <2>3 DEF LeftDigits
    <3>2. TextOf!Digits(TextOf!Group(s, 3 * w), 0) = <<>>
      BY DEF TextOf!Digits
    <3>3. <<>> \o <<>> = <<>>
      OBVIOUS
    <3>4. C(w) = <<>>
      BY <1>12, <2>3, <3>1, <3>2, <3>3
    <3> QED BY <2>1, <2>3, <3>4 DEF LastOf
  <2>4. CASE Len(s) % 3 # 0
    <3>1. Len(s) % 3 \in 1..2
      BY <1>12, <2>4
    <3> QED BY <1>12, <2>1, <2>2, <2>4, <3>1 DEF LastOf
  <2> QED BY <2>3, <2>4
<1>6. LastOf(s) \in Seq(Int)
  <2>1. <<>> \in Seq(Int)
    OBVIOUS
  <2> QED BY <2>1, LastIs DEF LastOf
<1>7. TextOf!FlattenSeq([g \in 1..(w + 1) |-> f[g]]) = TextOf!FlattenSeq([g \in 1..w |-> f[g]]) \o f[w + 1]
  <2>1. f[w + 1] \in Seq(Int)
    BY <1>5, <1>6
  <2> HIDE DEF f, w
  <2> QED BY <1>2, <2>1, FlattenLast
<1>8. f = [g \in 1..(w + 1) |-> f[g]]
  OBVIOUS
<1>9. [g \in 1..w |-> f[g]] = [g \in 1..w |-> TextOf!Digits(TextOf!Group(s, 3 * (g - 1)), 4)]
  <2> HIDE DEF f
  <2> QED BY <1>4
<1>10. TextOf!FlattenSeq([g \in 1..w |-> f[g]]) = Whole(s)
  <2> HIDE DEF f
  <2> QED BY <1>9 DEF Whole, w
<1> HIDE DEF f, w
<1>11. TextOf!FlattenSeq(f) = Whole(s) \o LastOf(s)
  BY <1>5, <1>7, <1>8, <1>10
<1> QED BY <1>1, <1>3, <1>11

\* The digits that a string has as a text, and those of its group g, from 0.
DigitsIn(s) == 4 * (Len(s) \div 3) + (IF Len(s) % 3 = 0 THEN 0 ELSE (Len(s) % 3) + 1)

LEMMA WholeIs ==
  ASSUME NEW s \in Seq(Byte)
  PROVE  /\ Whole(s) \in Seq(Int) /\ Len(Whole(s)) = 4 * (Len(s) \div 3)
         /\ \A g \in 0..((Len(s) \div 3) - 1), j \in 1..4 :
               Whole(s)[4 * g + j] = DigitOf(TextOf!Group(s, 3 * g), j)
<1> DEFINE w == Len(s) \div 3
           f == [g \in 1..w |-> TextOf!Digits(TextOf!Group(s, 3 * (g - 1)), 4)]
<1>1. w \in Nat
  <2>1. Len(s) \in Nat
    OBVIOUS
  <2> QED BY <2>1
<1> HIDE DEF w
<1>2. ASSUME NEW g \in 1..w
      PROVE  /\ f[g] \in Seq(Int) /\ Len(f[g]) = 4
             /\ \A j \in 1..4 : f[g][j] = DigitOf(TextOf!Group(s, 3 * (g - 1)), j)
                                  /\ DigitOf(TextOf!Group(s, 3 * (g - 1)), j) \in Int
  <2>1. 3 * (g - 1) \in Nat /\ 4 \in 0..4
    BY <1>1
  <2>2. f[g] = TextOf!Digits(TextOf!Group(s, 3 * (g - 1)), 4)
    OBVIOUS
  <2> HIDE DEF f
  <2>3. \A j \in 1..4 : DigitOf(TextOf!Group(s, 3 * (g - 1)), j) \in Sextet
    BY <2>1, DigitsIs DEF DigitsAre
  <2>4. /\ f[g] \in Seq(Int) /\ Len(f[g]) = 4
        /\ \A j \in 1..4 : f[g][j] = DigitOf(TextOf!Group(s, 3 * (g - 1)), j)
    BY <2>1, <2>2, DigitsIs DEF DigitsAre
  <2> QED BY <2>3, <2>4, SignIs
<1>3. Whole(s) = TextOf!FlattenSeq([g \in 1..w |-> f[g]])
  <2>1. Whole(s) = TextOf!FlattenSeq(f)
    BY DEF Whole, w
  <2>2. f = [g \in 1..w |-> f[g]]
    OBVIOUS
  <2> HIDE DEF f
  <2> QED BY <2>1, <2>2
<1> HIDE DEF f
<1>4. Whole(s) = [x \in 1..(4 * w) |-> f[(x - 1) \div 4 + 1][((x - 1) % 4) + 1]]
  <2>1. 4 \in {3, 4} /\ \A g \in 1..w : f[g] \in Seq(Int) /\ Len(f[g]) = 4
    BY <1>2
  <2> QED BY <1>1, <1>3, <2>1, FlattenBlocks
<1>5. ASSUME NEW x \in 1..(4 * w) PROVE f[(x - 1) \div 4 + 1][((x - 1) % 4) + 1] \in Int
  <2>1. (x - 1) \div 4 + 1 \in 1..w /\ ((x - 1) % 4) + 1 \in 1..4
    BY <1>1
  <2> QED BY <1>2, <2>1
<1>6. [x \in 1..(4 * w) |-> f[(x - 1) \div 4 + 1][((x - 1) % 4) + 1]] \in Seq(Int)
      /\ Len([x \in 1..(4 * w) |-> f[(x - 1) \div 4 + 1][((x - 1) % 4) + 1]]) = 4 * w
  <2> DEFINE e(x) == f[(x - 1) \div 4 + 1][((x - 1) % 4) + 1]
  <2>1. \A x \in 1..(4 * w) : e(x) \in Int
    BY <1>5
  <2> HIDE DEF e
  <2>2. 4 * w \in Nat
    BY <1>1
  <2>3. [x \in 1..(4 * w) |-> e(x)] \in Seq(Int) /\ Len([x \in 1..(4 * w) |-> e(x)]) = 4 * w
    BY <2>1, <2>2
  <2> QED BY <2>3 DEF e
<1>7. ASSUME NEW g \in 0..(w - 1), NEW j \in 1..4
      PROVE  Whole(s)[4 * g + j] = DigitOf(TextOf!Group(s, 3 * g), j)
  <2>1. /\ 4 * g + j \in 1..(4 * w) /\ ((4 * g + j) - 1) \div 4 = g /\ (((4 * g + j) - 1) % 4) + 1 = j
        /\ g + 1 \in 1..w /\ (g + 1) - 1 = g
    BY <1>1
  <2>2. Whole(s)[4 * g + j] = f[g + 1][j]
    BY <1>4, <2>1
  <2> QED BY <1>2, <2>1, <2>2
<1> QED BY <1>4, <1>6, <1>7 DEF w

LEMMA EncodedIs ==
  ASSUME NEW s \in Seq(Byte), NEW t, t = Whole(s) \o LastOf(s)
  PROVE  /\ IsText(t, DigitsIn(s))
         /\ \A g \in Nat, j \in 1..4 :
               4 * g + j <= DigitsIn(s) => t[4 * g + j] = DigitOf(TextOf!Group(s, 3 * g), j)
<1> DEFINE w == Len(s) \div 3
           l == Len(s) % 3
           d == DigitsIn(s)
           n == IF l = 0 THEN 0 ELSE 4
           a == Whole(s)
           e == LastOf(s)
           V(g) == TextOf!Group(s, 3 * g)
<1>1. /\ w \in Nat /\ l \in 0..2
      /\ l = 0 => d = 4 * w /\ n = 0
      /\ l # 0 => d = 4 * w + l + 1 /\ n = 4
  <2>1. Len(s) \in Nat
    OBVIOUS
  <2>2. w \in Nat /\ l \in 0..2
    BY <2>1
  <2>3. d = 4 * w + (IF l = 0 THEN 0 ELSE l + 1)
    BY DEF DigitsIn
  <2> HIDE DEF w, l, d
  <2> QED BY <2>2, <2>3
<1>2. /\ a \in Seq(Int) /\ Len(a) = 4 * w
      /\ \A g \in 0..(w - 1), j \in 1..4 : a[4 * g + j] = DigitOf(V(g), j)
  BY WholeIs
<1>3. /\ e \in Seq(Int) /\ Len(e) = n
      /\ l # 0 => \A j \in 1..4 : e[j] = IF j <= l + 1 THEN DigitOf(V(w), j) ELSE 64
  <2>1. CASE l = 0
    <3>1. e = <<>> /\ n = 0
      BY <2>1 DEF LastOf
    <3> QED BY <2>1, <3>1
  <2>2. CASE l # 0
    <3>1. LeftDigits(s) = l + 1 /\ e \in Seq(Int) /\ Len(e) = 4 /\ n = 4
      BY <2>2, LastIs
    <3>2. \A j \in 1..4 : e[j] = IF j <= LeftDigits(s) THEN DigitOf(V(w), j) ELSE 64
      BY <2>2, LastIs
    <3> HIDE DEF e, n, l, V, w
    <3> QED BY <3>1, <3>2
  <2> QED BY <2>1, <2>2
<1>4. \A g \in Nat, j \in 1..4 : DigitOf(V(g), j) \in Sextet
  <2> TAKE g \in Nat, j \in 1..4
  <2>1. 3 * g \in Nat /\ 4 \in 0..4
    OBVIOUS
  <2> QED BY <2>1, DigitsIs DEF DigitsAre
<1> HIDE DEF w, l, d, n, a, e, V
<1>5. t \in Seq(Int) /\ Len(t) = 4 * w + n
  <2>1. t = a \o e
    BY DEF a, e
  <2>2. a \in Seq(Int) /\ e \in Seq(Int) /\ Len(a) = 4 * w /\ Len(e) = n
    BY ONLY <1>2, <1>3
  <2>3. a \o e \in Seq(Int) /\ Len(a \o e) = Len(a) + Len(e)
    BY ONLY <2>2, ConcatProperties
  <2> QED BY ONLY <2>1, <2>2, <2>3
<1>13. d \in Nat /\ Len(t) \in Nat /\ n \in Nat
  BY ONLY <1>1, <1>5
<1>6. /\ \A x \in 1..(4 * w) : t[x] = a[x]
      /\ \A x \in 1..n : t[4 * w + x] = e[x]
  <2>1. t = a \o e
    BY DEF a, e
  <2>2. \A x \in 1..(4 * w) : t[x] = a[x]
    BY <1>1, <1>2, <1>3, <2>1
  <2>3. \A x \in 1..n : t[4 * w + x] = e[x]
    <3> TAKE x \in 1..n
    <3>1. 4 * w + x \in 1..(4 * w + n) /\ ~(4 * w + x <= 4 * w) /\ (4 * w + x) - 4 * w = x
      BY <1>1
    <3>2. 4 * w + x \in 1..(Len(a) + Len(e)) /\ a \in Seq(Int) /\ e \in Seq(Int)
      BY ONLY <1>2, <1>3, <3>1
    <3> DEFINE y == 4 * w + x
    <3> HIDE DEF y
    <3>3. (a \o e)[y] = IF y <= Len(a) THEN a[y] ELSE e[y - Len(a)]
      BY ONLY <3>2, ConcatProperties DEF y
    <3>4. ~(y <= Len(a)) /\ y - Len(a) = x
      BY ONLY <1>2, <3>1 DEF y
    <3> QED BY ONLY <2>1, <3>3, <3>4 DEF y
  <2> QED BY <2>2, <2>3
<1>7. ASSUME NEW g \in Nat, NEW j \in 1..4, 4 * g + j <= d
      PROVE  t[4 * g + j] = DigitOf(V(g), j)
  <2>1. CASE g < w
    <3>1. g \in 0..(w - 1) /\ 4 * g + j \in 1..(4 * w)
      BY <1>1, <2>1
    <3> QED BY <1>2, <1>6, <3>1
  <2>2. CASE ~(g < w)
    <3>1. g = w /\ l # 0 /\ j <= l + 1 /\ n = 4
      BY <1>1, <1>7, <2>2 DEF n
    <3>2. t[4 * w + j] = e[j]
      BY <1>6, <3>1
    <3> QED BY <1>3, <3>1, <3>2
  <2> QED BY <2>1, <2>2
<1>8. ASSUME NEW x \in 1..d PROVE t[x] \in Sextet
  <2>1. PICK g \in Nat, j \in 1..4 : x = 4 * g + j
    <3>1. (x - 1) \div 4 \in Nat /\ ((x - 1) % 4) + 1 \in 1..4 /\ x = 4 * ((x - 1) \div 4) + (((x - 1) % 4) + 1)
      <4>1. x - 1 \in Nat
        BY <1>13
      <4>2. \A y \in Nat : y \div 4 \in Nat /\ (y % 4) + 1 \in 1..4 /\ y = 4 * (y \div 4) + (y % 4)
        OBVIOUS
      <4> QED BY ONLY <4>1, <4>2, <1>13
    <3> QED BY <3>1
  <2>2. 4 * g + j <= d
    BY ONLY <1>1, <1>13, <2>1, x \in 1..d
  <2> QED BY <1>4, <1>7, <2>1, <2>2
<1>9. ASSUME NEW x \in (d + 1)..Len(t) PROVE t[x] = 64
  <2>1. l # 0 /\ n = 4 /\ x - 4 * w \in 1..4 /\ ~(x - 4 * w <= l + 1) /\ 4 * w + (x - 4 * w) = x
    BY ONLY <1>1, <1>5, <1>13, x \in (d + 1)..Len(t)
  <2>2. x - 4 * w \in 1..n /\ t[4 * w + (x - 4 * w)] = t[x]
    BY ONLY <2>1
  <2>3. e[x - 4 * w] = 64
    BY ONLY <1>3, <2>1
  <2> QED BY ONLY <1>6, <2>2, <2>3
<1>10. d \in Nat /\ d <= Len(t) /\ Len(t) - d <= 2 /\ (Len(t) = 0 => d = 0) /\ Len(t) % 4 = 0
  <2>1. CASE l = 0
    BY ONLY <1>1, <1>5, <2>1
  <2>2. CASE l # 0
    BY ONLY <1>1, <1>5, <2>2
  <2> QED BY <2>1, <2>2
<1>11. t \in Seq(Sign)
  <2>1. ASSUME NEW x \in 1..Len(t) PROVE t[x] \in Sign
    <3>1. x \in 1..d \/ x \in (d + 1)..Len(t)
      BY <1>10
    <3> QED BY <1>8, <1>9, <3>1, SignIs
  <2>2. Len(t) \in Nat /\ t = [x \in 1..Len(t) |-> t[x]]
    BY ONLY <1>5
  <2> DEFINE k == Len(t)
  <2> HIDE DEF k
  <2>4. k \in Nat /\ \A x \in 1..k : t[x] \in Sign
    BY <2>1, <2>2 DEF k
  <2>5. [x \in 1..k |-> t[x]] \in Seq(Sign)
    BY ONLY <2>4
  <2>3. [x \in 1..Len(t) |-> t[x]] \in Seq(Sign)
    BY <2>5 DEF k
  <2> QED BY ONLY <2>1, <2>2, <2>3
<1>12. IsText(t, d)
  BY <1>8, <1>9, <1>10, <1>11 DEF IsText
<1> QED BY <1>7, <1>12 DEF d, V

LEMMA Thirds ==
  ASSUME NEW n \in Nat
  PROVE  \E w \in Nat, l \in 0..2 : w = n \div 3 /\ l = n % 3 /\ n = 3 * w + l
<1>1. n \div 3 \in Nat /\ n % 3 \in 0..2 /\ n = 3 * (n \div 3) + (n % 3)
  OBVIOUS
<1> QED BY <1>1

LEMMA Quarters ==
  ASSUME NEW n \in Nat
  PROVE  \E w \in Nat, l \in 0..3 : w = n \div 4 /\ l = n % 4 /\ n = 4 * w + l
<1>1. n \div 4 \in Nat /\ n % 4 \in 0..3 /\ n = 4 * (n \div 4) + (n % 4)
  OBVIOUS
<1> QED BY <1>1

DigitsFor(n) == 4 * (n \div 3) + (IF n % 3 = 0 THEN 0 ELSE (n % 3) + 1)

LEMMA DigitsForBytes ==
  ASSUME NEW n \in Nat
  PROVE  /\ DigitsFor(n) \in Nat /\ (6 * DigitsFor(n)) \div 8 = n
         /\ \A g \in Nat : 3 * g < n =>
               /\ 4 * g + 2 <= DigitsFor(n)
               /\ ~(4 * g + 3 <= DigitsFor(n)) =>
                     ~(3 * g + 1 < n) /\ ~(3 * g + 2 < n) /\ ~(4 * g + 4 <= DigitsFor(n))
               /\ ~(4 * g + 4 <= DigitsFor(n)) => ~(3 * g + 2 < n)
<1> DEFINE d == DigitsFor(n)
<1>1. PICK w \in Nat, l \in 0..2 : w = n \div 3 /\ l = n % 3 /\ n = 3 * w + l
  BY Thirds
<1>2. d = 4 * w + (IF l = 0 THEN 0 ELSE l + 1)
  BY <1>1 DEF DigitsFor
<1> HIDE DEF d
<1>3. CASE l = 0
  BY <1>1, <1>2, <1>3 DEF d
<1>4. CASE l = 1
  BY <1>1, <1>2, <1>4 DEF d
<1>5. CASE l = 2
  BY <1>1, <1>2, <1>5 DEF d
<1> QED BY <1>3, <1>4, <1>5

\* What a string is encoded into stands for that string.
LEMMA OutOfEncoded ==
  ASSUME NEW s \in Seq(Byte), NEW t, t = Whole(s) \o LastOf(s)
  PROVE  Out(t, DigitsIn(s)) = s
<1> DEFINE d == DigitsIn(s)
           V(g) == TextOf!Group(s, 3 * g)
           B(i) == TextOf!ByteAt(s, i)
           D(x) == DigitAt(t, d, x)
<1>1. IsText(t, d) /\ \A g \in Nat, j \in 1..4 : 4 * g + j <= d => t[4 * g + j] = DigitOf(V(g), j)
  BY EncodedIs
<1>2. /\ Len(s) \in Nat /\ d \in Nat /\ (6 * d) \div 8 = Len(s)
      /\ \A g \in Nat : 3 * g < Len(s) =>
            /\ 4 * g + 2 <= d
            /\ ~(4 * g + 3 <= d) => ~(3 * g + 1 < Len(s)) /\ ~(3 * g + 2 < Len(s)) /\ ~(4 * g + 4 <= d)
            /\ ~(4 * g + 4 <= d) => ~(3 * g + 2 < Len(s))
  <2>1. Len(s) \in Nat
    OBVIOUS
  <2>2. d = DigitsFor(Len(s))
    BY DEF DigitsIn, DigitsFor
  <2> HIDE DEF d
  <2> QED BY <2>1, <2>2, DigitsForBytes
<1>3. ASSUME NEW g \in Nat, 3 * g < Len(s)
      PROVE  /\ ValueAt(t, d, g) = ThreeBytes(B(3 * g), B(3 * g + 1), B(3 * g + 2))
             /\ B(3 * g) \in Byte /\ B(3 * g + 1) \in Byte /\ B(3 * g + 2) \in Byte
  <2> DEFINE x == B(3 * g)
             y == B(3 * g + 1)
             z == B(3 * g + 2)
             v == ThreeBytes(x, y, z)
  <2>1. x \in Byte /\ y \in Byte /\ z \in Byte /\ V(g) = v
    <3>1. 3 * g \in Nat
      OBVIOUS
    <3> QED BY <3>1, GroupIs
  <2>2. /\ 4 * g + 2 <= d
        /\ ~(4 * g + 3 <= d) => ~(3 * g + 1 < Len(s)) /\ ~(3 * g + 2 < Len(s)) /\ ~(4 * g + 4 <= d)
        /\ ~(4 * g + 4 <= d) => ~(3 * g + 2 < Len(s))
    BY <1>2, <1>3
  <2>3. /\ ~(3 * g + 1 < Len(s)) => y = 0
        /\ ~(3 * g + 2 < Len(s)) => z = 0
    BY DEF TextOf!ByteAt
  <2>4. \A j \in 1..4 : D(4 * g + j) = IF 4 * g + j <= d THEN DigitOf(V(g), j) ELSE 0
    <3> HIDE DEF d, V
    <3> QED BY <1>1 DEF DigitAt
  <2> HIDE DEF d, V, B, D, x, y, z, v
  <2>5. /\ \A j \in 1..4 : DigitOf(v, j) \in Sextet
        /\ FourDigits(DigitOf(v, 1), DigitOf(v, 2), DigitOf(v, 3), DigitOf(v, 4)) = v
        /\ z = 0 => DigitOf(v, 4) = 0
        /\ y = 0 /\ z = 0 => DigitOf(v, 3) = 0
    BY ONLY <2>1, DigitsOfBytes DEF v
  <2>6. D(4 * g + 1) = DigitOf(v, 1) /\ D(4 * g + 2) = DigitOf(v, 2)
    <3>1. 4 * g + 1 <= d /\ 4 * g + 2 <= d
      BY ONLY <1>2, <2>2, g \in Nat
    <3>2. 1 \in 1..4 /\ 2 \in 1..4
      OBVIOUS
    <3> QED BY <2>1, <2>4, <3>1, <3>2
  <2>7. D(4 * g + 3) = DigitOf(v, 3)
    <3>1. 3 \in 1..4
      OBVIOUS
    <3>2. D(4 * g + 3) = IF 4 * g + 3 <= d THEN DigitOf(V(g), 3) ELSE 0
      BY <2>4, <3>1
    <3> QED BY <2>1, <2>2, <2>3, <2>5, <3>2
  <2>8. D(4 * g + 4) = DigitOf(v, 4)
    <3>1. 4 \in 1..4
      OBVIOUS
    <3>2. D(4 * g + 4) = IF 4 * g + 4 <= d THEN DigitOf(V(g), 4) ELSE 0
      BY <2>4, <3>1
    <3> QED BY <2>1, <2>2, <2>3, <2>5, <3>2
  <2>9. ValueAt(t, d, g) = FourDigits(D(4 * g + 1), D(4 * g + 2), D(4 * g + 3), D(4 * g + 4))
    BY DEF ValueAt, FourDigits, D
  <2>10. ValueAt(t, d, g) = v
    BY ONLY <2>5, <2>6, <2>7, <2>8, <2>9
  <2> QED BY <2>1, <2>10 DEF v, x, y, z
<1>4. ASSUME NEW i \in 1..Len(s) PROVE OutAt(t, d, i) = s[i]
  <2>1. PICK g \in Nat, j \in 1..3 : i = 3 * g + j /\ (i - 1) \div 3 = g /\ ((i - 1) % 3) + 1 = j
    <3>1. i - 1 \in Nat
      BY <1>2
    <3>2. PICK w \in Nat, l \in 0..2 : w = (i - 1) \div 3 /\ l = (i - 1) % 3 /\ i - 1 = 3 * w + l
      BY ONLY <3>1, Thirds
    <3>3. l + 1 \in 1..3 /\ i = 3 * w + (l + 1)
      BY <3>2, <1>2
    <3> QED BY <3>2, <3>3
  <2>2. OutAt(t, d, i) = ByteOf(ValueAt(t, d, g), j)
    BY <2>1 DEF OutAt
  <2>3. 3 * g < Len(s)
    BY <1>2, <2>1
  <2> DEFINE x == B(3 * g)
             y == B(3 * g + 1)
             z == B(3 * g + 2)
             v == ThreeBytes(x, y, z)
  <2>4. ValueAt(t, d, g) = v /\ x \in Byte /\ y \in Byte /\ z \in Byte
    <3> HIDE DEF d, B
    <3> QED BY <1>3, <2>3
  <2>5. s[i] = B(i - 1)
    BY <1>2 DEF TextOf!ByteAt
  <2>6. (j = 1 => i - 1 = 3 * g) /\ (j = 2 => i - 1 = 3 * g + 1) /\ (j = 3 => i - 1 = 3 * g + 2)
    BY <2>1
  <2> HIDE DEF d, B, x, y, z, v
  <2>7. ByteOf(v, 1) = x /\ ByteOf(v, 2) = y /\ ByteOf(v, 3) = z
    BY ONLY <2>4, DigitsOfBytes DEF v
  <2>8. CASE j = 1
    BY <2>2, <2>4, <2>5, <2>6, <2>7, <2>8 DEF x
  <2>9. CASE j = 2
    BY <2>2, <2>4, <2>5, <2>6, <2>7, <2>9 DEF y
  <2>10. CASE j = 3
    BY <2>2, <2>4, <2>5, <2>6, <2>7, <2>10 DEF z
  <2> QED BY <2>8, <2>9, <2>10
<1>5. Out(t, d) = [i \in 1..Len(s) |-> OutAt(t, d, i)]
  BY <1>2 DEF Out
<1>6. s = [i \in 1..Len(s) |-> s[i]]
  OBVIOUS
<1> HIDE DEF d
<1>7. Out(t, d) = s
  BY <1>4, <1>5, <1>6
<1> QED BY <1>7 DEF d

\* Up to four characters behind the first i, and what becomes of those from
\* there on when f says what becomes of the ones behind them.
Chunk(t, i) == SubSeq(t, i + 1, IF Len(t) < i + 4 THEN Len(t) ELSE i + 4)
Given(t, i) ==
  TextOf!Bytes(TextOf!ValueOf(Chunk(t, i), TextOf!Leading(Chunk(t, i))), (TextOf!Leading(Chunk(t, i)) * 6 + 2) \div 8)
Then(t, f, i, k) == [ok |-> f[k].ok, out |-> Given(t, i) \o f[k].out]
StreamStep(t, f, i) ==
  IF i = Len(t) THEN [ok |-> TRUE, out |-> <<>>]
  ELSE IF TextOf!Leading(Chunk(t, i)) = 4 THEN Then(t, f, i, i + 4)
  ELSE IF \/ TextOf!Leading(Chunk(t, i)) = Len(Chunk(t, i))
          \/ Chunk(t, i)[TextOf!Leading(Chunk(t, i)) + 1] = TextOf!Bad
       THEN [ok |-> FALSE, out |-> <<>>]
       ELSE Then(t, f, i, i + TextOf!Leading(Chunk(t, i)) + 1)
StepsFrom(t, f, a) == f = [i \in a..Len(t) |-> StreamStep(t, f, i)]
Stream(t) == CHOOSE f : StepsFrom(t, f, 0)

LEMMA DecodeStreamDef ==
  ASSUME NEW t
  PROVE  TextOf!DecodeStream(t) = Stream(t)[0]
  BY DEF TextOf!DecodeStream, Stream, StepsFrom, StreamStep, Then, Given, Chunk

LEMMA ChunkIs ==
  ASSUME NEW t \in Seq(Sign), NEW i \in 0..Len(t), i # Len(t)
  PROVE  /\ Chunk(t, i) \in Seq(Sign)
         /\ Len(Chunk(t, i)) = IF Len(t) < i + 4 THEN Len(t) - i ELSE 4
         /\ \A j \in 1..Len(Chunk(t, i)) : Chunk(t, i)[j] = t[i + j]
<1> DEFINE n == IF Len(t) < i + 4 THEN Len(t) ELSE i + 4
           q == Chunk(t, i)
<1>1. Len(t) \in Nat
  OBVIOUS
<1>2. i + 1 \in 1..Len(t) /\ n \in 1..Len(t) /\ n - (i + 1) + 1 = (IF Len(t) < i + 4 THEN Len(t) - i ELSE 4)
      /\ n - (i + 1) + 1 \in Nat
  BY <1>1
<1>3. q = SubSeq(t, i + 1, n)
  BY DEF Chunk
<1> HIDE DEF n, q
<1>4. q \in Seq(Sign) /\ Len(q) = n - (i + 1) + 1
  <2>1. i + 1 <= n + 1
    BY <1>2
  <2> QED BY <1>2, <1>3, <2>1, SubSeqProperties
<1>5. \A j \in 1..Len(q) : q[j] = t[i + j]
  <2> TAKE j \in 1..Len(q)
  <2>1. i + 1 <= n + 1
    BY <1>2
  <2>2. q[j] = t[(i + 1) + j - 1]
    BY <1>2, <1>3, <1>4, <2>1, SubSeqProperties
  <2>3. (i + 1) + j - 1 = i + j
    BY <1>2, <1>4
  <2> QED BY <2>2, <2>3
<1> QED BY <1>2, <1>4, <1>5 DEF q

\* A step looks behind itself only.
LEMMA StepLooksBehind ==
  ASSUME NEW t \in Seq(Sign), NEW i \in 0..Len(t), NEW f, NEW h,
         \A k \in (i + 1)..Len(t) : f[k] = h[k]
  PROVE  StreamStep(t, f, i) = StreamStep(t, h, i)
<1>1. CASE i = Len(t)
  BY <1>1 DEF StreamStep
<1>2. CASE i # Len(t)
  <2> DEFINE q == Chunk(t, i)
             n == TextOf!Leading(q)
  <2>1. /\ q \in Seq(Sign) /\ Len(q) = (IF Len(t) < i + 4 THEN Len(t) - i ELSE 4)
    BY <1>2, ChunkIs
  <2>2. n \in 0..Len(q)
    BY <2>1, LeadingIs
  <2>3. Len(t) \in Nat /\ Len(q) \in Nat
    BY <2>1
  <2> HIDE DEF q, n
  <2>4. n = 4 => i + 4 \in (i + 1)..Len(t)
    BY <1>2, <2>1, <2>2, <2>3
  <2>5. n # 4 /\ n # Len(q) => i + n + 1 \in (i + 1)..Len(t)
    BY <1>2, <2>1, <2>2, <2>3
  <2>6. n = 4 => f[i + 4] = h[i + 4]
    BY <2>4
  <2>7. n # 4 /\ n # Len(q) => f[i + n + 1] = h[i + n + 1]
    BY <2>5
  <2> QED BY <1>2, <2>6, <2>7 DEF StreamStep, Then, n, q
<1> QED BY <1>1, <1>2

LEMMA StreamExists ==
  ASSUME NEW t \in Seq(Sign)
  PROVE  \E f : StepsFrom(t, f, 0)
<1> DEFINE l == Len(t)
           Missing == {m \in 0..l : ~\E f : StepsFrom(t, f, l - m)}
<1>1. l \in Nat
  OBVIOUS
<1> SUFFICES ASSUME Missing # {} PROVE FALSE
  <2>1. l \in 0..l /\ l - l = 0
    BY <1>1
  <2> QED BY <2>1
<1>2. PICK m \in Missing : \A k \in Missing : m <= k
  <2>1. Missing \in SUBSET Nat
    BY <1>1
  <2> HIDE DEF Missing
  <2> QED BY <2>1, LeastOf
<1> DEFINE a == l - m
<1>3. m \in 0..l /\ a \in 0..l
  BY <1>1, <1>2
<1>4. PICK g : m # 0 => StepsFrom(t, g, a + 1)
  <2>1. CASE m # 0
    <3>1. m - 1 \in 0..l /\ ~(m <= m - 1) /\ l - (m - 1) = a + 1
      BY <1>3, <2>1
    <3>2. m - 1 \notin Missing
      BY <1>2, <3>1
    <3> QED BY <3>1, <3>2
  <2> QED BY <2>1
<1> DEFINE h == [i \in a..l |-> IF i = a THEN StreamStep(t, g, a) ELSE g[i]]
<1>5. ASSUME NEW i \in a..l PROVE h[i] = StreamStep(t, h, i)
  <2>1. i \in 0..l /\ l = Len(t)
    BY <1>3
  <2>2. \A k \in (i + 1)..l : g[k] = h[k]
    BY <1>3
  <2>3. StreamStep(t, g, i) = StreamStep(t, h, i)
    <3> HIDE DEF h, a
    <3> QED BY <2>1, <2>2, StepLooksBehind
  <2>4. CASE i = a
    <3>1. h[i] = StreamStep(t, g, i)
      BY <2>4
    <3> QED BY <2>3, <3>1
  <2>5. CASE i # a
    <3>1. h[i] = g[i] /\ i \in (a + 1)..l /\ m # 0
      BY <1>3, <2>5
    <3>2. g[i] = StreamStep(t, g, i)
      <4> HIDE DEF h, a
      <4> QED BY <1>4, <3>1 DEF StepsFrom
    <3> QED BY <2>3, <3>1, <3>2
  <2> QED BY <2>4, <2>5
<1>6. StepsFrom(t, h, a)
  <2>1. h = [i \in a..l |-> h[i]]
    OBVIOUS
  <2> HIDE DEF h, a
  <2> QED BY <1>5, <2>1 DEF StepsFrom
<1> QED BY <1>2, <1>6

LEMMA StreamIs ==
  ASSUME NEW t \in Seq(Sign), NEW i \in 0..Len(t)
  PROVE  Stream(t)[i] = StreamStep(t, Stream(t), i)
<1>1. StepsFrom(t, Stream(t), 0)
  BY StreamExists DEF Stream
<1> DEFINE f == Stream(t)
<1> HIDE DEF f
<1>2. f = [k \in 0..Len(t) |-> StreamStep(t, f, k)]
  BY <1>1 DEF StepsFrom, f
<1>3. f[i] = StreamStep(t, f, i)
  BY <1>2
<1> QED BY <1>3 DEF f

\* The bytes of a text behind the first a.
OutFrom(t, d, a) == [j \in 1..((6 * d) \div 8 - a) |-> OutAt(t, d, a + j)]

LEMMA GivenIs ==
  ASSUME NEW t, NEW d, IsText(t, d), NEW g \in Nat, 4 * g < Len(t)
  PROVE  /\ Chunk(t, 4 * g) = Quad(t, g + 1)
         /\ Given(t, 4 * g) \in Seq(Int) /\ Len(Given(t, 4 * g)) = Held(d, g) - 1
         /\ \A j \in 1..(Held(d, g) - 1) : Given(t, 4 * g)[j] = OutAt(t, d, 3 * g + j)
<1> DEFINE n == Held(d, g)
           v == ValueAt(t, d, g)
<1>1. n \in 2..4 /\ 4 * g + 4 <= Len(t) /\ Len(t) \in Nat
  <2>1. t \in Seq(Sign)
    BY DEF IsText
  <2>2. n \in 2..4 /\ 4 * g + 4 <= Len(t)
    BY HeldIs
  <2>3. Len(t) \in Nat
    BY ONLY <2>1
  <2> QED BY <2>2, <2>3
<1>11. QuadOf(Quad(t, g + 1), t, d, g, n)
  BY QuadIs
<1>2. Chunk(t, 4 * g) = Quad(t, g + 1)
  <2>1. Quad(t, g + 1) = SubSeq(t, 4 * g + 1, 4 * g + 4)
    BY ONLY <1>11 DEF QuadOf
  <2>2. ~(Len(t) < 4 * g + 4)
    BY <1>1
  <2> QED BY ONLY <2>1, <2>2 DEF Chunk
<1>3. TextOf!Leading(Chunk(t, 4 * g)) = n /\ TextOf!ValueOf(Chunk(t, 4 * g), n) = v
  <2> HIDE DEF n, v
  <2> QED BY ONLY <1>2, <1>11 DEF QuadOf, v
<1>4. v \in Nat
  BY ValueAtIs
<1>5. \A j \in 1..3 : OutAt(t, d, 3 * g + j) = ByteOf(v, j)
  BY OutTail
<1> HIDE DEF n, v
<1>6. (n * 6 + 2) \div 8 = n - 1 /\ n - 1 \in 1..3
  BY <1>1
<1>7. Given(t, 4 * g) = [j \in 1..(n - 1) |-> ByteOf(v, j)]
  BY <1>3, <1>6 DEF Given, TextOf!Bytes, ByteOf
<1>8. \A j \in 1..(n - 1) : j \in 1..3 /\ ByteOf(v, j) \in Int
  <2>1. \A j \in 1..(n - 1) : j \in 1..3
    BY <1>6
  <2>2. \A j \in 1..3 : ByteOf(v, j) \in 0..255
    BY <1>4, ByteOfIs
  <2>3. \A x \in 0..255 : x \in Int
    OBVIOUS
  <2> QED BY <2>1, <2>2, <2>3
<1>9. [j \in 1..(n - 1) |-> ByteOf(v, j)] \in Seq(Int) /\ Len([j \in 1..(n - 1) |-> ByteOf(v, j)]) = n - 1
  BY <1>6, <1>8
<1>10. \A j \in 1..(n - 1) : Given(t, 4 * g)[j] = OutAt(t, d, 3 * g + j)
  BY <1>5, <1>7, <1>8
<1> QED BY <1>2, <1>7, <1>9, <1>10 DEF n

LEMMA OutFromIs ==
  ASSUME NEW t, NEW d, IsText(t, d), NEW a \in Nat
  PROVE  /\ OutFrom(t, d, a) \in Seq(Int)
         /\ (6 * d) \div 8 >= a => Len(OutFrom(t, d, a)) = (6 * d) \div 8 - a
         /\ (6 * d) \div 8 <= a => OutFrom(t, d, a) = <<>>
<1> DEFINE n == (6 * d) \div 8
<1>1. n \in Nat
  BY DEF IsText
<1>2. ASSUME NEW j \in 1..(n - a) PROVE OutAt(t, d, a + j) \in Int
  <2>1. a + j \in 1..n
    BY <1>1
  <2>2. Out(t, d) \in Seq(Int) /\ Len(Out(t, d)) = n
    BY OutIs
  <2>3. Out(t, d)[a + j] \in Int
    <3> HIDE DEF n
    <3> QED BY <2>1, <2>2, ElementOfSeq
  <2>4. Out(t, d)[a + j] = OutAt(t, d, a + j)
    BY <2>1 DEF Out
  <2> QED BY <2>3, <2>4
<1>3. OutFrom(t, d, a) = [j \in 1..(n - a) |-> OutAt(t, d, a + j)]
  BY DEF OutFrom
<1> HIDE DEF n
<1>4. CASE n > a
  <2>1. n - a \in Nat /\ n >= a /\ ~(n <= a)
    BY <1>1, <1>4
  <2>2. [j \in 1..(n - a) |-> OutAt(t, d, a + j)] \in Seq(Int) /\ Len([j \in 1..(n - a) |-> OutAt(t, d, a + j)]) = n - a
    BY <1>2, <2>1
  <2> QED BY <1>3, <2>1, <2>2 DEF n
<1>5. CASE n <= a
  <2>1. 1..(n - a) = {}
    BY <1>1, <1>5
  <2>2. OutFrom(t, d, a) = <<>>
    BY <1>3, <2>1
  <2>3. n >= a => n - a = 0
    BY <1>1, <1>5
  <2>4. <<>> \in Seq(Int) /\ Len(<<>>) = 0
    OBVIOUS
  <2> QED BY <2>2, <2>3, <2>4 DEF n
<1> QED BY <1>1, <1>4, <1>5

\* What a stream makes of the groups of a text from each on.
LEMMA StreamFromGroup ==
  ASSUME NEW t, NEW d, IsText(t, d), NEW g \in Nat, 4 * g < Len(t), NEW f, f = Stream(t),
         4 * g + 4 < Len(t) => f[4 * g + 4] = [ok |-> TRUE, out |-> OutFrom(t, d, 3 * g + 3)]
  PROVE  f[4 * g] = [ok |-> TRUE, out |-> OutFrom(t, d, 3 * g)]
<1> DEFINE n == Held(d, g)
           q == Chunk(t, 4 * g)
           b == Given(t, 4 * g)
           l == (6 * d) \div 8
<1>1. /\ n \in 2..4 /\ 4 * g + 4 <= Len(t) /\ Len(t) \in Nat /\ t \in Seq(Sign)
      /\ n # 4 => 4 * g + 4 = Len(t)
  <2>1. t \in Seq(Sign)
    BY DEF IsText
  <2>2. n \in 2..4 /\ 4 * g + 4 <= Len(t) /\ (n # 4 => 4 * g + 4 = Len(t))
    BY HeldIs
  <2>3. Len(t) \in Nat
    BY ONLY <2>1
  <2> QED BY <2>1, <2>2, <2>3
<1>2. /\ q = Quad(t, g + 1)
      /\ b \in Seq(Int) /\ Len(b) = n - 1 /\ \A j \in 1..(n - 1) : b[j] = OutAt(t, d, 3 * g + j)
  BY GivenIs
<1>3. Len(q) = 4 /\ TextOf!Leading(q) = n /\ \A j \in 1..4 : q[j] # 65
  <2>1. QuadOf(Quad(t, g + 1), t, d, g, n)
    BY QuadIs
  <2> QED BY ONLY <1>2, <2>1 DEF QuadOf
<1>4. /\ l \in Nat /\ 3 * g + (n - 1) <= l /\ (n # 4 => 3 * g + (n - 1) = l)
      /\ 4 * g + 4 = Len(t) => 3 * g + (n - 1) = l
  <2>1. d \in Nat
    BY DEF IsText
  <2>2. l \in Nat
    BY <2>1
  <2> HIDE DEF l
  <2>3. /\ 3 * g + (n - 1) <= l /\ (n # 4 => 3 * g + (n - 1) = l)
        /\ 4 * g + 4 = Len(t) => 3 * g + (n - 1) = l
    BY OutTail DEF l
  <2> QED BY <2>2, <2>3
<1>5. 4 * g \in 0..Len(t) /\ 4 * g # Len(t) /\ Len(t) \in 0..Len(t)
  BY <1>1
<1>6. f[4 * g] = StreamStep(t, f, 4 * g) /\ f[Len(t)] = [ok |-> TRUE, out |-> <<>>]
  <2>1. f[4 * g] = StreamStep(t, f, 4 * g)
    BY <1>1, <1>5, StreamIs
  <2>2. f[Len(t)] = StreamStep(t, f, Len(t))
    BY <1>1, <1>5, StreamIs
  <2> QED BY <2>1, <2>2 DEF StreamStep
<1>7. f[4 * g + 4] = [ok |-> TRUE, out |-> OutFrom(t, d, 3 * g + 3)]
  <2>1. CASE 4 * g + 4 = Len(t)
    <3>1. l <= 3 * g + 3 /\ 3 * g + 3 \in Nat
      BY <1>1, <1>4, <2>1
    <3>2. OutFrom(t, d, 3 * g + 3) = <<>>
      BY <3>1, OutFromIs
    <3> QED BY <1>6, <2>1, <3>2
  <2>2. CASE 4 * g + 4 # Len(t)
    <3>1. 4 * g + 4 < Len(t)
      BY <1>1, <2>2
    <3> QED BY <3>1
  <2> QED BY <2>1, <2>2
<1> HIDE DEF n, q, b, l
<1>8. n # 4 => OutFrom(t, d, 3 * g) = b
  <2> SUFFICES ASSUME n # 4 PROVE OutFrom(t, d, 3 * g) = b
    OBVIOUS
  <2>1. l - 3 * g = n - 1
    BY <1>1, <1>4
  <2>2. OutFrom(t, d, 3 * g) = [j \in 1..(n - 1) |-> OutAt(t, d, 3 * g + j)]
    BY <2>1 DEF OutFrom, l
  <2>3. b = [j \in 1..(n - 1) |-> b[j]]
    BY <1>2
  <2> QED BY <1>2, <2>2, <2>3
<1>9. CASE n = 4
  <2>1. f[4 * g] = Then(t, f, 4 * g, 4 * g + 4)
    BY <1>3, <1>5, <1>6, <1>9 DEF StreamStep, q
  <2>2. f[4 * g] = [ok |-> TRUE, out |-> b \o OutFrom(t, d, 3 * g + 3)]
    BY <1>7, <2>1 DEF Then, b
  <2> DEFINE e == OutFrom(t, d, 3 * g + 3)
             h == OutFrom(t, d, 3 * g)
  <2>3. 3 * g + 3 \in Nat /\ 3 * g \in Nat /\ l >= 3 * g + 3 /\ l - 3 * g = 3 + (l - (3 * g + 3)) /\ l - (3 * g + 3) \in Nat
    BY <1>4, <1>9
  <2>4. e \in Seq(Int) /\ Len(e) = l - (3 * g + 3)
    BY <2>3, OutFromIs DEF l
  <2>5. e = [j \in 1..(l - (3 * g + 3)) |-> OutAt(t, d, (3 * g + 3) + j)]
    BY DEF OutFrom, l
  <2>6. h = [j \in 1..(l - 3 * g) |-> OutAt(t, d, 3 * g + j)]
    BY DEF OutFrom, l
  <2> DEFINE k == l - (3 * g + 3)
  <2>7. k \in Nat /\ Len(e) = k /\ Len(b) = 3
    BY <1>2, <1>9, <2>3, <2>4
  <2>8. /\ e = [j \in 1..k |-> OutAt(t, d, (3 * g + 3) + j)]
        /\ h = [j \in 1..(3 + k) |-> OutAt(t, d, 3 * g + j)]
    BY <2>3, <2>5, <2>6
  <2> HIDE DEF e, h, k
  <2>9. h = [j \in 1..(Len(b) + Len(e)) |-> h[j]]
    BY <2>7, <2>8
  <2>10. \A j \in 1..Len(b) : h[j] = b[j]
    <3> TAKE j \in 1..Len(b)
    <3>1. j \in 1..3 /\ j \in 1..(3 + k) /\ j \in 1..(n - 1)
      BY <1>9, <2>7
    <3> QED BY <1>2, <2>8, <3>1
  <2>11. \A j \in 1..Len(e) : h[Len(b) + j] = e[j]
    <3> TAKE j \in 1..Len(e)
    <3>1. j \in 1..k /\ 3 + j \in 1..(3 + k) /\ 3 * g + (3 + j) = (3 * g + 3) + j
      BY <2>7
    <3>2. h[3 + j] = OutAt(t, d, 3 * g + (3 + j))
      BY <2>8, <3>1
    <3>3. e[j] = OutAt(t, d, (3 * g + 3) + j)
      BY <2>8, <3>1
    <3> QED BY <2>7, <3>1, <3>2, <3>3
  <2>12. b \o e = h
    BY ONLY <1>2, <2>4, <2>9, <2>10, <2>11, Appended
  <2>13. f[4 * g] = [ok |-> TRUE, out |-> b \o e]
    BY <2>2 DEF e
  <2>14. f[4 * g] = [ok |-> TRUE, out |-> h]
    BY ONLY <2>12, <2>13
  <2> QED BY <2>14 DEF h
<1>10. CASE n = 3
  <2>1. n # Len(q) /\ n # 4 /\ q[n + 1] # 65 /\ 4 * g + n + 1 = 4 * g + 4
    BY <1>3, <1>10
  <2>2. f[4 * g] = Then(t, f, 4 * g, 4 * g + 4)
    BY <1>3, <1>5, <1>6, <2>1 DEF StreamStep, q, TextOf!Bad
  <2>3. f[4 * g + 4] = [ok |-> TRUE, out |-> <<>>]
    BY <1>1, <1>6, <1>10
  <2>4. b \o <<>> = b
    BY <1>2
  <2>5. Then(t, f, 4 * g, 4 * g + 4) = [ok |-> f[4 * g + 4].ok, out |-> b \o f[4 * g + 4].out]
    BY DEF Then, b
  <2>6. f[4 * g] = [ok |-> TRUE, out |-> b]
    BY ONLY <2>2, <2>3, <2>4, <2>5
  <2> QED BY ONLY <1>8, <2>1, <2>6
<1>11. CASE n = 2
  <2>1. n # Len(q) /\ n # 4 /\ q[n + 1] # 65 /\ 4 * g + n + 1 = 4 * g + 3
    BY <1>3, <1>11
  <2>2. f[4 * g] = Then(t, f, 4 * g, 4 * g + 3)
    BY <1>3, <1>5, <1>6, <2>1 DEF StreamStep, q, TextOf!Bad
  <2> DEFINE i == 4 * g + 3
             r == Chunk(t, i)
  <2>3. i \in 0..Len(t) /\ i # Len(t) /\ Len(t) < i + 4 /\ Len(t) - i = 1 /\ i + 1 = Len(t) /\ i + 1 = 4 * g + 4
    BY <1>1, <1>11
  <2>4. r \in Seq(Sign) /\ Len(r) = 1 /\ r[1] = t[4 * g + 4]
    <3>1. /\ r \in Seq(Sign) /\ Len(r) = (IF Len(t) < i + 4 THEN Len(t) - i ELSE 4)
          /\ \A j \in 1..Len(r) : r[j] = t[i + j]
      BY <1>1, <2>3, ChunkIs
    <3> HIDE DEF r, i
    <3> QED BY <2>3, <3>1
  <2>5. t[4 * g + 4] = 64
    <3>1. d \in Nat /\ 4 * g + 4 > d
      <4>1. d \in Nat
        BY DEF IsText
      <4> QED BY <1>11, <4>1 DEF n, Held
    <3>2. 4 * g + 4 \in (d + 1)..Len(t)
      BY <1>1, <3>1
    <3> QED BY <3>2 DEF IsText
  <2> HIDE DEF r
  <2>6. TextOf!Leading(r) = 0
    <3>1. 0 \in 0..Len(r) /\ (\A j \in 1..0 : r[j] \in Sextet) /\ r[0 + 1] \in {64, 65}
      BY <2>4, <2>5
    <3> QED BY <2>4, <3>1, LeadingOne
  <2>7. f[i] = StreamStep(t, f, i)
    BY <1>1, <2>3, StreamIs
  <2>8. Given(t, i) = <<>>
    <3>1. (0 * 6 + 2) \div 8 = 0
      OBVIOUS
    <3>2. Given(t, i) = TextOf!Bytes(TextOf!ValueOf(r, 0), 0)
      BY <2>6, <3>1 DEF Given, r
    <3>3. \A v : TextOf!Bytes(v, 0) = <<>>
      BY DEF TextOf!Bytes
    <3> QED BY <3>2, <3>3
  <2>9. f[i] = Then(t, f, i, Len(t))
    <3>1. 0 # Len(r) /\ 0 # 4 /\ r[0 + 1] # 65 /\ i + 0 + 1 = Len(t)
      <4>1. r[0 + 1] = 64 /\ 0 # Len(r)
        BY ONLY <2>4, <2>5
      <4>2. i + 0 + 1 = Len(t)
        BY ONLY <2>3
      <4> QED BY ONLY <4>1, <4>2
    <3> HIDE DEF i
    <3> QED BY <2>3, <2>6, <2>7, <3>1 DEF StreamStep, r, TextOf!Bad
  <2>10. <<>> \o <<>> = <<>>
    OBVIOUS
  <2>11. f[i] = [ok |-> TRUE, out |-> <<>>]
    <3> HIDE DEF i
    <3> QED BY <1>6, <2>8, <2>9, <2>10 DEF Then
  <2>12. b \o <<>> = b
    BY <1>2
  <2>13. Then(t, f, 4 * g, i) = [ok |-> f[i].ok, out |-> b \o f[i].out]
    BY DEF Then, b
  <2>14. f[4 * g] = [ok |-> TRUE, out |-> b]
    BY ONLY <2>2, <2>11, <2>12, <2>13
  <2> QED BY ONLY <1>8, <2>1, <2>14
<1>12. n = 2 \/ n = 3 \/ n = 4
  BY <1>1
<1> QED BY <1>9, <1>10, <1>11, <1>12

LEMMA DecodeStreamIs ==
  ASSUME NEW t, NEW d, IsText(t, d)
  PROVE  TextOf!DecodeStream(t) = [ok |-> TRUE, out |-> Out(t, d)]
<1> DEFINE f == Stream(t)
           Right(g) == f[4 * g] = [ok |-> TRUE, out |-> OutFrom(t, d, 3 * g)]
<1>1. Len(t) \in Nat /\ Len(t) % 4 = 0 /\ t \in Seq(Sign) /\ d \in Nat /\ d <= Len(t)
  BY DEF IsText
<1>2. PICK m \in Nat : Len(t) = 4 * m
  <2>1. Len(t) \div 4 \in Nat /\ Len(t) = 4 * (Len(t) \div 4)
    BY <1>1
  <2> QED BY <2>1
<1> DEFINE Wrong == {k \in 0..m : ~Right(m - k)}
<1>3. Wrong = {}
  <2> SUFFICES ASSUME Wrong # {} PROVE FALSE
    OBVIOUS
  <2>1. PICK k \in Wrong : \A x \in Wrong : k <= x
    <3>1. Wrong \in SUBSET Nat
      OBVIOUS
    <3> HIDE DEF Wrong
    <3> QED BY <3>1, LeastOf
  <2> DEFINE g == m - k
  <2>2. k \in 0..m /\ ~Right(g)
    BY <2>1
  <2> HIDE DEF Wrong
  <2>3. CASE k = 0
    <3>1. g = m /\ 4 * g = Len(t)
      BY <1>2, <2>3
    <3>2. f[Len(t)] = [ok |-> TRUE, out |-> <<>>]
      <4>1. Len(t) \in 0..Len(t)
        BY <1>1
      <4>2. f[Len(t)] = StreamStep(t, f, Len(t))
        BY <1>1, <4>1, StreamIs
      <4> QED BY <4>2 DEF StreamStep
    <3>3. 3 * m \in Nat /\ (6 * d) \div 8 <= 3 * m
      BY <1>1, <1>2
    <3>4. OutFrom(t, d, 3 * m) = <<>>
      BY <3>3, OutFromIs
    <3> HIDE DEF f
    <3> QED BY <2>2, <3>1, <3>2, <3>4
  <2>4. CASE k # 0
    <3>1. g \in Nat /\ 4 * g < Len(t) /\ k - 1 \in 0..m /\ ~(k <= k - 1) /\ m - (k - 1) = g + 1
      BY <1>2, <2>2, <2>4
    <3>2. Right(g + 1)
      <4>1. k - 1 \notin Wrong
        BY <2>1, <3>1
      <4> HIDE DEF f, g
      <4> QED BY <3>1, <4>1 DEF Wrong
    <3>3. f[4 * g + 4] = [ok |-> TRUE, out |-> OutFrom(t, d, 3 * g + 3)]
      <4>1. 4 * (g + 1) = 4 * g + 4 /\ 3 * (g + 1) = 3 * g + 3
        BY <3>1
      <4> HIDE DEF f, g
      <4> QED BY <3>2, <4>1
    <3>4. Right(g)
      <4> HIDE DEF g
      <4> QED BY <3>1, <3>3, StreamFromGroup
    <3> QED BY <2>2, <3>4
  <2> QED BY <2>3, <2>4
<1>4. Right(0)
  <2>1. m \in 0..m /\ m - m = 0
    BY <1>2
  <2> HIDE DEF f
  <2> QED BY <1>3, <2>1
<1>5. OutFrom(t, d, 0) = Out(t, d)
  <2> DEFINE n == (6 * d) \div 8
  <2>1. n - 0 = n
    BY <1>1
  <2>2. \A j \in 1..n : 0 + j = j
    OBVIOUS
  <2> HIDE DEF n
  <2>3. [j \in 1..(n - 0) |-> OutAt(t, d, 0 + j)] = [j \in 1..n |-> OutAt(t, d, j)]
    BY <2>1, <2>2
  <2> QED BY <2>3 DEF OutFrom, Out, n
<1>6. 4 * 0 = 0 /\ 3 * 0 = 0
  OBVIOUS
<1> HIDE DEF f
<1>7. f[0] = [ok |-> TRUE, out |-> Out(t, d)]
  BY <1>4, <1>5, <1>6
<1> QED BY <1>7, DecodeStreamDef DEF f

\* The first bad character of a text without pads is in the group r of it, from 0.
FirstBad(t, p) == p \in 1..Len(t) /\ t[p] = 65 /\ \A i \in 1..(p - 1) : t[i] \in Sextet

LEMMA FirstBadExists ==
  ASSUME NEW t \in Seq(Sign), \E i \in DOMAIN t : t[i] = TextOf!Bad,
         ~\E i \in DOMAIN t : t[i] = TextOf!Pad
  PROVE  \E p : FirstBad(t, p)
<1> DEFINE S == {i \in 1..Len(t) : t[i] = 65}
<1>1. Len(t) \in Nat /\ DOMAIN t = 1..Len(t) /\ \A i \in 1..Len(t) : t[i] \in Sign
  BY InSeq
<1>2. S # {}
  BY <1>1 DEF TextOf!Bad
<1>3. PICK p \in S : \A i \in S : p <= i
  <2>1. S \in SUBSET Nat
    BY <1>1
  <2> HIDE DEF S
  <2> QED BY <1>2, <2>1, LeastOf
<1>4. ASSUME NEW i \in 1..(p - 1) PROVE t[i] \in Sextet
  <2>1. i \in 1..Len(t) /\ ~(p <= i)
    BY <1>1, <1>3
  <2>2. t[i] # 65
    BY <1>3, <2>1
  <2>3. t[i] # 64
    BY <1>1, <2>1 DEF TextOf!Pad
  <2> QED BY <1>1, <2>1, <2>2, <2>3, SignIs
<1> QED BY <1>3, <1>4 DEF FirstBad

LEMMA BadGroup ==
  ASSUME NEW t \in Seq(Sign), NEW p, FirstBad(t, p), NEW g \in Nat, 4 * g < p
  PROVE  /\ 4 * g \in 0..Len(t) /\ 4 * g # Len(t)
         /\ p > 4 * g + 4 => TextOf!Leading(Chunk(t, 4 * g)) = 4 /\ 4 * g + 4 < p
         /\ p <= 4 * g + 4 =>
               /\ TextOf!Leading(Chunk(t, 4 * g)) < 4
               /\ Chunk(t, 4 * g)[TextOf!Leading(Chunk(t, 4 * g)) + 1] = 65
               /\ TextOf!Leading(Chunk(t, 4 * g)) < Len(Chunk(t, 4 * g))
<1> DEFINE q == Chunk(t, 4 * g)
           n == TextOf!Leading(q)
<1>1. p \in 1..Len(t) /\ Len(t) \in Nat /\ t[p] = 65 /\ \A i \in 1..(p - 1) : t[i] \in Sextet
  BY DEF FirstBad
<1>2. 4 * g \in 0..Len(t) /\ 4 * g # Len(t)
  BY <1>1
<1>3. /\ q \in Seq(Sign) /\ Len(q) = (IF Len(t) < 4 * g + 4 THEN Len(t) - 4 * g ELSE 4)
      /\ \A j \in 1..Len(q) : q[j] = t[4 * g + j]
  BY <1>2, ChunkIs
<1> HIDE DEF q
<1>4. CASE p > 4 * g + 4
  <2>1. Len(q) = 4
    BY <1>1, <1>3, <1>4
  <2>2. ASSUME NEW j \in 1..4 PROVE q[j] \in Sextet
    <3>1. 4 * g + j \in 1..(p - 1)
      BY <1>1, <1>4
    <3> QED BY <1>1, <1>3, <2>1, <3>1
  <2>3. 4 \in 0..Len(q) /\ ~(4 < Len(q)) /\ \A j \in 1..4 : q[j] \in Sextet
    BY <2>1, <2>2
  <2>4. n = 4
    BY ONLY <1>3, <2>3, LeadingOne
  <2>5. ~(p <= 4 * g + 4) /\ 4 * g + 4 < p
    BY <1>1, <1>4
  <2> QED BY <1>2, <2>4, <2>5 DEF q
<1>5. CASE p <= 4 * g + 4
  <2> DEFINE r == p - 4 * g - 1
  <2>1. r \in 0..3 /\ r < Len(q) /\ Len(q) \in Nat /\ 4 * g + (r + 1) = p
    BY <1>1, <1>3, <1>5
  <2> HIDE DEF r
  <2>2. r + 1 \in 1..Len(q) /\ r \in 0..Len(q)
    BY <2>1
  <2>3. q[r + 1] = 65
    BY <1>1, <1>3, <2>1, <2>2
  <2>4. ASSUME NEW j \in 1..r PROVE q[j] \in Sextet
    <3>1. j \in 1..Len(q) /\ 4 * g + j \in 1..(p - 1)
      BY <1>1, <2>1
    <3> QED BY <1>1, <1>3, <3>1
  <2>5. n = r
    <3>1. q[r + 1] \in {64, 65}
      BY <2>3
    <3> QED BY ONLY <1>3, <2>2, <2>4, <3>1, LeadingOne
  <2>6. ~(p > 4 * g + 4) /\ r < 4
    BY <1>1, <1>5, <2>1
  <2> QED BY <1>2, <2>1, <2>3, <2>5, <2>6 DEF q
<1> QED BY <1>1, <1>4, <1>5

LEMMA BadIsNotDecoded ==
  ASSUME NEW t \in Seq(Sign), NEW p, FirstBad(t, p)
  PROVE  TextOf!DecodeString(t) = <<>> /\ ~TextOf!DecodeStream(t).ok
<1>1. p \in 1..Len(t) /\ Len(t) \in Nat
  BY DEF FirstBad
<1>2. PICK m \in Nat, j \in 0..3 : m = (p - 1) \div 4 /\ j = (p - 1) % 4 /\ p - 1 = 4 * m + j
  <2>1. p - 1 \in Nat
    BY <1>1
  <2> QED BY ONLY <2>1, Quarters
<1>3. 4 * m < p /\ p <= 4 * m + 4
  BY <1>1, <1>2
<1>4. TextOf!DecodeString(t) = <<>>
  <2>1. CASE Len(t) % 4 # 0
    BY <2>1, DecodeStringDef
  <2>2. CASE Len(t) % 4 = 0
    <3>1. m + 1 \in 1..(Len(t) \div 4) /\ 4 * m + 4 <= Len(t)
      BY <1>1, <1>3, <2>2
    <3>2. Quad(t, m + 1) = Chunk(t, 4 * m)
      <4>1. 4 * (m + 1) - 3 = 4 * m + 1 /\ 4 * (m + 1) = 4 * m + 4 /\ ~(Len(t) < 4 * m + 4)
        BY <1>1, <3>1
      <4> QED BY ONLY <4>1 DEF Quad, Chunk
    <3>3. Spoilt(t, m + 1)
      BY <1>3, <3>2, BadGroup DEF Spoilt, TextOf!Bad
    <3> QED BY <3>1, <3>3, DecodeStringDef
  <2> QED BY <2>1, <2>2
<1> DEFINE f == Stream(t)
           Accepted(g) == f[4 * g].ok
           Wrong == {k \in 0..m : Accepted(m - k)}
<1>5. Wrong = {}
  <2> SUFFICES ASSUME Wrong # {} PROVE FALSE
    OBVIOUS
  <2>1. PICK k \in Wrong : \A x \in Wrong : k <= x
    <3>1. Wrong \in SUBSET Nat
      OBVIOUS
    <3> HIDE DEF Wrong
    <3> QED BY <3>1, LeastOf
  <2> DEFINE g == m - k
             q == Chunk(t, 4 * g)
             n == TextOf!Leading(q)
  <2>2. k \in 0..m /\ f[4 * g].ok
    BY <2>1
  <2>3. g \in Nat /\ 4 * g < p
    <3> HIDE DEF f, Wrong
    <3>1. p \in Nat
      BY <1>1
    <3> QED BY <1>3, <2>2, <3>1
  <2> HIDE DEF Wrong, g
  <2>4. /\ 4 * g \in 0..Len(t) /\ 4 * g # Len(t)
        /\ p > 4 * g + 4 => n = 4 /\ 4 * g + 4 < p
        /\ p <= 4 * g + 4 => n < 4 /\ q[n + 1] = 65 /\ n < Len(q)
    BY <2>3, BadGroup
  <2>5. f[4 * g] = StreamStep(t, f, 4 * g)
    BY <2>4, StreamIs
  <2> HIDE DEF f, q, n
  <2>6. CASE p <= 4 * g + 4
    <3>1. n # 4 /\ q[n + 1] = 65
      BY <2>4, <2>6
    <3>2. f[4 * g] = [ok |-> FALSE, out |-> <<>>]
      BY <2>4, <2>5, <3>1 DEF StreamStep, n, q, TextOf!Bad
    <3> QED BY <2>2, <3>2
  <2>7. CASE p > 4 * g + 4
    <3>1. n = 4
      BY <2>4, <2>7
    <3>2. f[4 * g].ok = f[4 * g + 4].ok
      <4>1. f[4 * g] = Then(t, f, 4 * g, 4 * g + 4)
        BY <2>4, <2>5, <3>1 DEF StreamStep, n, q
      <4> QED BY ONLY <4>1 DEF Then
    <3>3. k - 1 \in 0..m /\ ~(k <= k - 1) /\ m - (k - 1) = g + 1 /\ 4 * (g + 1) = 4 * g + 4
      <4>1. k \in 0..m /\ k # 0 /\ p \in Nat
        BY <1>1, <1>3, <2>2, <2>7 DEF g
      <4> QED BY ONLY <4>1, m \in Nat DEF g
    <3>4. ~f[4 * (g + 1)].ok
      <4>1. k - 1 \notin Wrong
        BY <2>1, <3>3
      <4> QED BY <3>3, <4>1 DEF Wrong
    <3> QED BY <2>2, <3>2, <3>3, <3>4
  <2> QED BY <1>1, <2>3, <2>6, <2>7
<1>6. ~f[0].ok
  <2>1. m \in 0..m /\ m - m = 0 /\ 4 * 0 = 0
    OBVIOUS
  <2> HIDE DEF f
  <2> QED BY <1>5, <2>1
<1> QED BY <1>4, <1>6, DecodeStreamDef

\* What is encoded is the text, and the texts are what TextAssumption says.
Base64Inv ==
  /\ direction \in {"encode", "encoded"} => text \in Seq(Byte)
  /\ direction \in {"decode", "decoded"} => text \in Seq(Sign)
  /\ direction = "encoded" => byString = TextOf!EncodeString(text) /\ byStream = TextOf!EncodeStream(text)
  /\ direction = "decoded" => byString = TextOf!DecodeString(text) /\ byStream = TextOf!DecodeStream(text)

LEMMA Base64Init == TextOf!Init => Base64Inv
  BY TextAssumption DEF TextOf!Init, Base64Inv, Byte, Sign

LEMMA Base64Step ==
  ASSUME Base64Inv, [TextOf!Next]_textVars
  PROVE  Base64Inv'
<1>1. CASE TextOf!Next
  BY <1>1 DEF TextOf!Next, TextOf!Convert, Base64Inv
<1>2. CASE UNCHANGED textVars
  BY <1>2 DEF textVars, Base64Inv
<1> QED BY <1>1, <1>2

LEMMA Base64Holds == Base64Inv => TextOf!Base64Exact
<1> SUFFICES ASSUME Base64Inv PROVE TextOf!Base64Exact
  OBVIOUS
<1>1. ASSUME direction = "encoded"
      PROVE  /\ byString = byStream
             /\ TextOf!WellFormed(byString) /\ TextOf!StandsFor(byString, text)
             /\ TextOf!DecodeString(byString) = text
             /\ TextOf!DecodeStream(byString) = [ok |-> TRUE, out |-> text]
  <2>1. text \in Seq(Byte) /\ byString = TextOf!EncodeString(text) /\ byStream = TextOf!EncodeStream(text)
    BY <1>1 DEF Base64Inv
  <2>2. byString = Whole(text) \o LastOf(text) /\ byStream = Whole(text) \o LastOf(text)
    BY <2>1, EncodedAlike
  <2>3. IsText(byString, DigitsIn(text))
    BY <2>1, <2>2, EncodedIs
  <2>4. Out(byString, DigitsIn(text)) = text
    BY <2>1, <2>2, OutOfEncoded
  <2>5. TextOf!WellFormed(byString)
    BY <2>3, TextIsWellFormed
  <2>6. TextOf!StandsFor(byString, Out(byString, DigitsIn(text)))
    BY <2>3, OutStandsFor
  <2>7. TextOf!DecodeString(byString) = Out(byString, DigitsIn(text))
    BY <2>3, DecodeStringIs
  <2>8. TextOf!DecodeStream(byString) = [ok |-> TRUE, out |-> Out(byString, DigitsIn(text))]
    BY <2>3, DecodeStreamIs
  <2> QED BY <2>2, <2>4, <2>5, <2>6, <2>7, <2>8
<1>2. ASSUME direction = "decoded"
      PROVE  /\ TextOf!WellFormed(text) =>
                   TextOf!StandsFor(text, byString) /\ byStream = [ok |-> TRUE, out |-> byString]
             /\ (\E i \in DOMAIN text : text[i] = TextOf!Bad) /\ ~(\E i \in DOMAIN text : text[i] = TextOf!Pad) =>
                   byString = <<>> /\ ~byStream.ok
  <2>1. text \in Seq(Sign) /\ byString = TextOf!DecodeString(text) /\ byStream = TextOf!DecodeStream(text)
    BY <1>2 DEF Base64Inv
  <2>2. ASSUME TextOf!WellFormed(text)
        PROVE  TextOf!StandsFor(text, byString) /\ byStream = [ok |-> TRUE, out |-> byString]
    <3>1. PICK d : IsText(text, d)
      BY <2>1, <2>2, TextIs
    <3>2. byString = Out(text, d)
      BY <2>1, <3>1, DecodeStringIs
    <3>3. byStream = [ok |-> TRUE, out |-> Out(text, d)]
      BY <2>1, <3>1, DecodeStreamIs
    <3>4. TextOf!StandsFor(text, Out(text, d))
      BY <3>1, OutStandsFor
    <3> QED BY <3>2, <3>3, <3>4
  <2>3. ASSUME \E i \in DOMAIN text : text[i] = TextOf!Bad, ~\E i \in DOMAIN text : text[i] = TextOf!Pad
        PROVE  byString = <<>> /\ ~byStream.ok
    <3>1. PICK p : FirstBad(text, p)
      BY <2>1, <2>3, FirstBadExists
    <3> QED BY <2>1, <3>1, BadIsNotDecoded
  <2> QED BY <2>2, <2>3
<1> QED BY <1>1, <1>2, Zenon DEF TextOf!Base64Exact

(* Strings of any length have the same text whether a string or a stream   *)
(* is encoded, well-formed and with their bits, and both decode it into    *)
(* them; any other well-formed text they decode into its bits, and of a    *)
(* text without pads that has a character of neither alphabet the string   *)
(* makes nothing and the stream an error.                                  *)
THEOREM Base64IsExact == MCSpec => []Base64Exact
<1>1. MCInit => Base64Inv
  BY Base64Init DEF MCInit
<1>2. Base64Inv /\ [MCNext]_allVars => Base64Inv'
  BY OwnSteps, Base64Step
<1>3. Base64Inv => Base64Exact
  BY Base64Holds DEF Base64Exact
<1> QED BY <1>1, <1>2, <1>3, PTL DEF MCSpec

=============================================================================
