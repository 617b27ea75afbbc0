----------------------------- MODULE SwdWireProofs ----------------------------
(***************************************************************************)
(* Proofs for the SWD transport, for words of any length, any accesses and *)
(* any number of faults: the types for every port, and for the port that   *)
(* the driver is written for, that a 0 is true, that both ends never drive *)
(* at once, and that they end each access in step.                         *)
(*                                                                         *)
(* The parities come first: they tell one misread bit.  The invariant then *)
(* says, for each phase of the driver, which phase the port is in and that *)
(* it has what was sent but for one bit (Near); or the port missed the     *)
(* start bit, and is where no ACK comes from until a line reset (Lost).    *)
(* In a line reset it counts the ones that the port still needs to be      *)
(* through with whatever it was at (Finishes).                             *)
(***************************************************************************)
EXTENDS SwdWire, FiniteSetTheorems, TLAPS

(* The first k bits of f are those of g. *)
Agree(f, g, k) == \A i \in 1..k : f[i] = g[i]

(* All but one are. *)
OneOff(f, g, k) == \E j \in 1..k : f[j] # g[j] /\ \A i \in 1..k : i # j => f[i] = g[i]

(* Words are sequences of bits, and the other way round. *)
LEMMA BitsAsSeq ==
  ASSUME NEW m \in Nat, NEW f \in [1..m -> Bit]
  PROVE  f \in Seq(Bit) /\ Len(f) = m
OBVIOUS

LEMMA SeqAsBits ==
  ASSUME NEW s \in Seq(Bit)
  PROVE  s \in [1..Len(s) -> Bit]
OBVIOUS

(* The first k bits of a sequence. *)
LEMMA FirstOf ==
  ASSUME NEW s \in Seq(Bit), NEW k \in 0..Len(s)
  PROVE  /\ [i \in 1..k |-> s[i]] \in [1..k -> Bit]
         /\ Agree([i \in 1..k |-> s[i]], s, k)
<1>1. \A i \in 1..k : s[i] \in Bit
  BY SeqAsBits
<1> QED
  BY <1>1 DEF Agree

-------------------------------------------------------------------------------
(* Parity *)

(* What the parity counts is finite. *)
LEMMA OnesFinite ==
  ASSUME NEW m \in Nat, NEW f \in [1..m -> Bit]
  PROVE  IsFiniteSet({i \in DOMAIN f : f[i] = 1})
<1>1. IsFiniteSet(1..m)
  BY FS_Interval
<1>2. {i \in DOMAIN f : f[i] = 1} \subseteq 1..m
  OBVIOUS
<1> QED
  BY <1>1, <1>2, FS_Subset

(* A parity is a bit. *)
LEMMA ParityTyped ==
  ASSUME NEW m \in Nat, NEW f \in [1..m -> Bit]
  PROVE  ParityOf(f) \in Bit
<1>1. Cardinality({i \in DOMAIN f : f[i] = 1}) \in Nat
  BY OnesFinite, FS_CardinalityType
<1> QED
  BY <1>1 DEF ParityOf, Bit

(* One bit more. *)
LEMMA ParityGrows ==
  ASSUME NEW m \in Nat, NEW f \in [1..m -> Bit], NEW g \in [1..(m + 1) -> Bit], Agree(g, f, m)
  PROVE  ParityOf(g) = (ParityOf(f) + g[m + 1]) % 2
<1> DEFINE F == {i \in DOMAIN f : f[i] = 1}
           G == {i \in DOMAIN g : g[i] = 1}
<1>1. IsFiniteSet(F) /\ Cardinality(F) \in Nat
  BY OnesFinite, FS_CardinalityType
<1>2. m + 1 \notin F
  OBVIOUS
<1>3. CASE g[m + 1] = 1
  <2>1. G = F \cup {m + 1}
    BY <1>3 DEF Agree
  <2> HIDE DEF F, G
  <2>2. Cardinality(G) = Cardinality(F) + 1
    BY <1>1, <1>2, <2>1, FS_AddElement
  <2>3. ParityOf(g) = Cardinality(G) % 2 /\ ParityOf(f) = Cardinality(F) % 2
    BY DEF ParityOf, F, G
  <2> QED
    BY <1>1, <1>3, <2>2, <2>3
<1>4. CASE g[m + 1] # 1
  <2>1. G = F
    BY <1>4 DEF Agree
  <2>2. g[m + 1] = 0
    BY <1>4 DEF Bit
  <2> HIDE DEF F, G
  <2>3. ParityOf(g) = Cardinality(G) % 2 /\ ParityOf(f) = Cardinality(F) % 2
    BY DEF ParityOf, F, G
  <2> QED
    BY <1>1, <2>1, <2>2, <2>3
<1> QED
  BY <1>3, <1>4

(* A misread bit changes the parity: from 0 to 1, and so both ways. *)
LEMMA ParityOfMore ==
  ASSUME NEW m \in Nat, NEW f \in [1..m -> Bit], NEW g \in [1..m -> Bit], NEW j \in 1..m,
         f[j] = 0, g[j] = 1, \A i \in 1..m : i # j => f[i] = g[i]
  PROVE  ParityOf(f) # ParityOf(g)
<1> DEFINE F == {i \in DOMAIN f : f[i] = 1}
           G == {i \in DOMAIN g : g[i] = 1}
<1>1. IsFiniteSet(F) /\ Cardinality(F) \in Nat
  BY OnesFinite, FS_CardinalityType
<1>2. j \notin F /\ G = F \cup {j}
  OBVIOUS
<1>3. ParityOf(g) = Cardinality(G) % 2 /\ ParityOf(f) = Cardinality(F) % 2
  BY DEF ParityOf
<1> HIDE DEF F, G
<1>4. Cardinality(G) = Cardinality(F) + 1
  BY <1>1, <1>2, FS_AddElement
<1> QED
  BY <1>1, <1>3, <1>4

(* So a parity shows one misread bit. *)
LEMMA ParityFlips ==
  ASSUME NEW m \in Nat, NEW f \in [1..m -> Bit], NEW g \in [1..m -> Bit], OneOff(f, g, m)
  PROVE  ParityOf(f) # ParityOf(g)
<1>1. PICK j \in 1..m : f[j] # g[j] /\ \A i \in 1..m : i # j => f[i] = g[i]
  BY DEF OneOff
<1>2. f[j] \in {0, 1} /\ g[j] \in {0, 1}
  BY DEF Bit
<1>3. CASE f[j] = 0 /\ g[j] = 1
  BY <1>1, <1>3, ParityOfMore
<1>4. CASE g[j] = 0 /\ f[j] = 1
  BY <1>1, <1>4, ParityOfMore
<1> QED
  BY <1>1, <1>2, <1>3, <1>4

(* Words that agree bit by bit are the same. *)
LEMMA AllAgree ==
  ASSUME NEW m \in Nat, NEW f \in [1..m -> Bit], NEW g \in [1..m -> Bit], Agree(f, g, m)
  PROVE  f = g
BY DEF Agree

-------------------------------------------------------------------------------
(* The request *)

(* The bits that the parity of a request is about. *)
LEMMA FourIs ==
  ASSUME NEW r \in Request
  PROVE  /\ Four(r) \in [1..4 -> Bit]
         /\ Four(r)[1] = r.ap /\ Four(r)[2] = r.rn /\ Four(r)[3] = r.a2 /\ Four(r)[4] = r.a3
<1>1. r.ap \in Bit /\ r.rn \in Bit /\ r.a2 \in Bit /\ r.a3 \in Bit
  BY DEF Request
<1> QED
  BY <1>1 DEF Four

(* The seven bits after the start bit. *)
RequestTail(r) == [i \in 1..7 |-> swd_build_request(r)[i + 1]]

(* The eight bits of a request. *)
LEMMA RequestIs ==
  ASSUME NEW r \in Request
  PROVE  LET b == swd_build_request(r)
         IN  /\ b[1] = 1 /\ b[2] = r.ap /\ b[3] = r.rn /\ b[4] = r.a2 /\ b[5] = r.a3
             /\ b[6] = (ParityOf(Four(r)) + 1) % 2 /\ b[7] = 0 /\ b[8] = 1
BY DEF swd_build_request

(* They are bits. *)
LEMMA TailTyped ==
  ASSUME NEW r \in Request
  PROVE  RequestTail(r) \in [1..7 -> Bit] /\ \A i \in 1..8 : swd_build_request(r)[i] \in Bit
<1> DEFINE b == swd_build_request(r)
<1>1. r.ap \in Bit /\ r.rn \in Bit /\ r.a2 \in Bit /\ r.a3 \in Bit
  BY DEF Request
<1>2. (ParityOf(Four(r)) + 1) % 2 \in Bit
  <2>1. ParityOf(Four(r)) \in Bit
    BY FourIs, ParityTyped
  <2> QED
    BY <2>1 DEF Bit
<1>3. \A i \in 1..8 : b[i] \in Bit
  <2>1. \A i \in 1..8 : i \in {1, 2, 3, 4, 5, 6, 7, 8}
    OBVIOUS
  <2>2. 1 \in Bit /\ 0 \in Bit
    BY DEF Bit
  <2> HIDE DEF b
  <2>3. /\ b[1] = 1 /\ b[2] = r.ap /\ b[3] = r.rn /\ b[4] = r.a2 /\ b[5] = r.a3
        /\ b[6] = (ParityOf(Four(r)) + 1) % 2 /\ b[7] = 0 /\ b[8] = 1
    BY RequestIs DEF b
  <2> QED
    BY <1>1, <1>2, <2>1, <2>2, <2>3
<1> HIDE DEF b
<1>4. \A i \in 1..7 : b[i + 1] \in Bit
  BY <1>3
<1> QED
  BY <1>3, <1>4 DEF b, RequestTail

(* What the port checks of seven bits. *)
LEMMA UnderstoodIs ==
  ASSUME NEW bits \in Seq(Bit), Len(bits) = 7, NEW five \in [1..5 -> Bit], Agree(five, bits, 5)
  PROVE  Understood(bits) <=> ParityOf(five) = RequestParity /\ bits[6] = 0 /\ bits[7] = 1
<1>1. SubSeq(bits, 1, 5) \in Seq(Bit) /\ Len(SubSeq(bits, 1, 5)) = 5
      /\ \A i \in 1..5 : SubSeq(bits, 1, 5)[i] = bits[i]
  OBVIOUS
<1>2. SubSeq(bits, 1, 5) = five
  BY <1>1 DEF Agree
<1> QED
  BY <1>2 DEF Understood

(* The request as it was sent is understood, and is the one that was sent. *)
LEMMA SentIsUnderstood ==
  ASSUME NEW r \in Request, NEW bits \in Seq(Bit), Len(bits) = 7,
         Agree(bits, RequestTail(r), 7), RequestParity = 1
  PROVE  Understood(bits) /\ r = [ap |-> bits[1], rn |-> bits[2], a2 |-> bits[3], a3 |-> bits[4]]
<1> DEFINE p == (ParityOf(Four(r)) + 1) % 2
           five == [i \in 1..5 |-> bits[i]]
<1>1. /\ bits[1] = r.ap /\ bits[2] = r.rn /\ bits[3] = r.a2 /\ bits[4] = r.a3
      /\ bits[5] = p /\ bits[6] = 0 /\ bits[7] = 1
  <2>1. \A i \in 1..7 : bits[i] = swd_build_request(r)[i + 1]
    BY DEF Agree, RequestTail
  <2> QED
    BY <2>1, RequestIs
<1>2. five \in [1..5 -> Bit] /\ Agree(five, bits, 5) /\ 4 + 1 = 5
  <2>1. 5 \in 0..Len(bits)
    OBVIOUS
  <2>2. five \in [1..5 -> Bit] /\ Agree(five, bits, 5)
    BY <2>1, FirstOf
  <2> QED
    BY <2>2
<1>3. Agree(five, Four(r), 4)
  <2>1. \A i \in 1..4 : i = 1 \/ i = 2 \/ i = 3 \/ i = 4
    OBVIOUS
  <2> QED
    BY <1>1, <2>1, FourIs DEF Agree
<1>4. ParityOf(five) = (ParityOf(Four(r)) + five[4 + 1]) % 2
  BY <1>2, <1>3, FourIs, ParityGrows
<1>5. five[4 + 1] = p
  BY <1>1
<1>6. ParityOf(Four(r)) \in {0, 1}
  BY FourIs, ParityTyped DEF Bit
<1>7. ParityOf(five) = 1
  BY <1>4, <1>5, <1>6
<1>8. Understood(bits)
  BY <1>1, <1>2, <1>7, UnderstoodIs
<1> QED
  BY <1>1, <1>8 DEF Request

(* One misread bit, and it is not understood. *)
LEMMA SpoiledIsNot ==
  ASSUME NEW r \in Request, NEW bits \in Seq(Bit), Len(bits) = 7,
         OneOff(bits, RequestTail(r), 7), RequestParity = 1
  PROVE  ~Understood(bits)
<1> DEFINE tail == RequestTail(r)
           five == [i \in 1..5 |-> bits[i]]
           good == [i \in 1..5 |-> tail[i]]
<1> HIDE DEF tail
<1>1. tail \in [1..7 -> Bit] /\ tail \in Seq(Bit) /\ Len(tail) = 7
  BY TailTyped, BitsAsSeq DEF tail
<1>2. Understood(tail)
  <2>1. Agree(tail, RequestTail(r), 7)
    BY DEF Agree, tail
  <2> QED
    BY <1>1, <2>1, SentIsUnderstood
<1>3. PICK j \in 1..7 : bits[j] # tail[j] /\ \A i \in 1..7 : i # j => bits[i] = tail[i]
  BY DEF OneOff, tail
<1>4. five \in [1..5 -> Bit] /\ Agree(five, bits, 5) /\ good \in [1..5 -> Bit] /\ Agree(good, tail, 5)
  <2>1. 5 \in 0..Len(bits) /\ 5 \in 0..Len(tail)
    BY <1>1
  <2>2. five \in [1..5 -> Bit] /\ Agree(five, bits, 5)
    BY <2>1, FirstOf
  <2>3. good \in [1..5 -> Bit] /\ Agree(good, tail, 5)
    BY <1>1, <2>1, FirstOf
  <2> QED
    BY <2>2, <2>3
<1>5. ParityOf(good) = 1 /\ tail[6] = 0 /\ tail[7] = 1
  BY <1>1, <1>2, <1>4, UnderstoodIs
<1>6. CASE j \in 1..5
  <2>1. OneOff(five, good, 5)
    BY <1>3, <1>6 DEF OneOff
  <2>2. ParityOf(five) # 1
    BY <1>4, <1>5, <2>1, ParityFlips
  <2> QED
    BY <1>4, <2>2, UnderstoodIs
<1>7. CASE j \in {6, 7}
  <2>1. bits[6] # 0 \/ bits[7] # 1
    BY <1>3, <1>5, <1>7
  <2> QED
    BY <2>1 DEF Understood
<1> QED
  BY <1>6, <1>7

-------------------------------------------------------------------------------
(* Types, for every port *)

InAccess ==
  pc \in {"request", "trnAck", "ack", "trnRead", "rdata", "trnBack", "trnWrite", "wdata"}

(* What the driver knows by itself. *)
HostOK ==
  /\ InAccess \/ Resetting \/ pc = "returned"
  /\ n \in Nat \ {0} /\ req \in Requests /\ data \in [1..WordBits -> Bit] /\ got \in Seq(Bit)
  /\ attempt \in 1..SWD_MAX_RETRIES /\ out \in BOOLEAN
  /\ failures \in 0..2 /\ clean \in BOOLEAN
  /\ rc \in {"ok", "ready", "reset", "EIO", "EPROTO", "EBADMSG", "ETIMEDOUT", "EGPIO"}
  /\ InAccess => failures < 2 /\ rc # "reset"
  /\ pc = "request" => n <= 8 /\ out
  /\ pc \in {"trnAck", "trnRead"} => n = 1 /\ got = <<>> /\ ~out
  /\ pc = "ack" => n <= 3 /\ Len(got) = n - 1 /\ ~out
  /\ pc = "rdata" => n <= WordBits + 1 /\ Len(got) = n - 1 /\ ~out
  /\ pc = "trnBack" => n = 1 /\ Len(got) = WordBits + 1 /\ out
  /\ pc = "trnWrite" => n = 1 /\ out
  /\ pc = "wdata" => n <= WordBits + 1 /\ out
  /\ pc \in {"trnRead", "rdata", "trnBack"} => req.rn = 1
  /\ pc \in {"trnWrite", "wdata"} => req.rn = 0
  /\ pc \in {"high1", "high2"} => n <= LineHigh
  /\ pc = "switch" => n <= 16
  /\ pc = "low" => n <= 2
  /\ pc = "returned" => n = 1

PortOK ==
  /\ t \in {"idle", "request", "toAck", "ack", "toRead", "read", "toWrite", "write", "turn", "deaf"}
  /\ heard \in Seq(Bit) /\ treq \in Request /\ answer \in {"OK", "WAIT", "FAULT"}
  /\ word \in [1..WordBits -> Bit]
  /\ ones \in 0..ResetOnes /\ busy \in 0..MaxBusy /\ sticky \in BOOLEAN
  /\ t = "request" => Len(heard) <= 6
  /\ t = "ack" => Len(heard) <= 2
  /\ t \in {"read", "write"} => Len(heard) <= WordBits

LineOK == noise \in BOOLEAN /\ faults \in 0..MaxFaults

(* The three say what the type invariant says, and more. *)
LEMMA TypesOK == HostOK /\ PortOK /\ LineOK => TypeOK
<1> SUFFICES ASSUME HostOK, PortOK, LineOK PROVE TypeOK
  OBVIOUS
<1>1. data \in Seq(Bit)
  BY WireAssumption, BitsAsSeq DEF HostOK
<1>2. DOMAIN AckBits = {"OK", "WAIT", "FAULT"}
  BY DEF AckBits
<1> QED
  BY <1>1, <1>2 DEF HostOK, PortOK, LineOK, TypeOK, InAccess, Resetting, ResetPhases

(* One more bit. *)
LEMMA Appended ==
  ASSUME NEW s \in Seq(Bit), NEW b \in Bit
  PROVE  /\ Append(s, b) \in Seq(Bit) /\ Len(Append(s, b)) = Len(s) + 1 /\ Len(s) \in Nat
         /\ \A i \in 1..Len(s) : Append(s, b)[i] = s[i] /\ s[i] \in Bit
         /\ Append(s, b)[Len(s) + 1] = b
OBVIOUS

LEMMA Empty == <<>> \in Seq(Bit) /\ Len(<<>>) = 0
OBVIOUS

(* The three ACKs. *)
LEMMA AckIs ==
  /\ AckBits["OK"] = <<1, 0, 0>> /\ AckBits["WAIT"] = <<0, 1, 0>> /\ AckBits["FAULT"] = <<0, 0, 1>>
  /\ \A a \in {"OK", "WAIT", "FAULT"} : AckBits[a] \in [1..3 -> Bit]
<1>1. AckBits["OK"] = <<1, 0, 0>> /\ AckBits["WAIT"] = <<0, 1, 0>> /\ AckBits["FAULT"] = <<0, 0, 1>>
  BY DEF AckBits
<1>2. <<1, 0, 0>> \in [1..3 -> Bit] /\ <<0, 1, 0>> \in [1..3 -> Bit] /\ <<0, 0, 1>> \in [1..3 -> Bit]
  BY DEF Bit
<1> QED
  BY <1>1, <1>2

(* The port takes a request only from seven bits. *)
LEMMA HearsTyped ==
  ASSUME PortOK, NEW bit \in Bit, t = "request", HearsRequest(bit)
  PROVE  /\ heard' \in Seq(Bit) /\ treq' \in Request /\ answer' \in {"OK", "WAIT", "FAULT"}
         /\ word' \in [1..WordBits -> Bit] /\ busy' \in 0..MaxBusy
         /\ t' \in {"request", "toAck", "deaf"}
         /\ t' = "request" => Len(heard') <= 6
<1> DEFINE bits == Append(heard, bit)
           r == [ap |-> bits[1], rn |-> bits[2], a2 |-> bits[3], a3 |-> bits[4]]
<1>1. bits \in Seq(Bit) /\ Len(bits) = Len(heard) + 1
  BY Appended DEF PortOK
<1> HIDE DEF bits
<1>2. CASE Len(bits) = 7 /\ Understood(bits)
  <2>1. PortGoes("toAck") /\ treq' = r /\ Answers(r)
    BY <1>2 DEF HearsRequest, bits
  <2>2. r \in Request
    <3>1. bits \in [1..7 -> Bit]
      BY <1>1, <1>2, SeqAsBits
    <3>2. bits[1] \in Bit /\ bits[2] \in Bit /\ bits[3] \in Bit /\ bits[4] \in Bit
      BY <3>1
    <3> QED
      BY <3>2 DEF Request
  <2>3. answer' \in {"OK", "WAIT", "FAULT"} /\ (answer' = "WAIT" => busy > 0)
    BY <2>1 DEF Answers
  <2>4. busy' \in 0..MaxBusy
    BY <2>1, <2>3, WireAssumption DEF Answers, PortOK
  <2>5. word' \in [1..WordBits -> Bit]
    BY <2>1, WireAssumption DEF Answers, PortOK
  <2> QED
    BY <2>1, <2>2, <2>3, <2>4, <2>5, Empty DEF PortGoes
<1>3. CASE ~(Len(bits) = 7 /\ Understood(bits))
  <2>1. /\ IF Len(bits) < 7 THEN t' = t /\ heard' = bits ELSE PortGoes("deaf")
        /\ UNCHANGED <<treq, answer, word, busy>>
    BY <1>3 DEF HearsRequest, bits
  <2>2. CASE Len(bits) < 7
    <3>1. t' = "request" /\ heard' = bits /\ Len(bits) <= 6
      BY <1>1, <2>1, <2>2 DEF PortOK
    <3> QED
      BY <1>1, <2>1, <3>1 DEF PortOK
  <2>3. CASE ~(Len(bits) < 7)
    BY <2>1, <2>3, Empty DEF PortGoes, PortOK
  <2> QED
    BY <2>2, <2>3
<1> QED
  BY <1>2, <1>3

(* Whatever the wire carries, the port stays within its phases. *)
LEMMA PortTyped ==
  ASSUME PortOK, NEW bit \in Bit, PortClock(bit)
  PROVE  PortOK'
<1>1. ones' \in 0..ResetOnes
  <2>1. ones \in 0..ResetOnes /\ ResetOnes \in Nat \ {0}
    BY WireAssumption DEF PortOK
  <2>2. ones' = IF PortDrives \/ bit = 0 THEN 0 ELSE IF ones < ResetOnes THEN ones + 1 ELSE ones
    BY DEF PortClock
  <2> QED
    BY <2>1, <2>2
<1>2. CASE PortGoes("idle") /\ UNCHANGED <<treq, answer, word, busy, sticky, taken>>
  BY <1>1, <1>2, Empty DEF PortGoes, PortOK
<1>3. CASE t = "request" /\ HearsRequest(bit) /\ UNCHANGED <<sticky, taken>>
  BY <1>1, <1>3, HearsTyped DEF PortOK
<1>4. CASE t = "write" /\ HearsWord(bit) /\ UNCHANGED <<treq, answer, word, busy>>
  <2>1. sticky' \in BOOLEAN
    BY <1>4 DEF HearsWord, PortOK
  <2>2. CASE Len(heard) < WordBits
    <3>1. heard' \in Seq(Bit) /\ Len(heard') = Len(heard) + 1 /\ t' = t /\ Len(heard) \in Nat
      BY <1>4, <2>2, Appended DEF HearsWord, PortOK
    <3>2. Len(heard') <= WordBits
      BY <2>2, <3>1, WireAssumption
    <3> QED
      BY <1>1, <1>4, <2>1, <3>1, <3>2 DEF PortOK
  <2>3. CASE ~(Len(heard) < WordBits)
    BY <1>1, <1>4, <2>1, <2>3, Empty DEF HearsWord, PortGoes, PortOK
  <2> QED
    BY <2>2, <2>3
<1>5. CASE t = "ack" /\ SendsAck /\ UNCHANGED <<treq, answer, word, busy, sticky, taken>>
  <2>1. CASE Len(heard) < 2
    <3>1. PortBit = AckBits[answer][Len(heard) + 1] /\ Len(heard) \in Nat
      BY <1>5 DEF PortBit, PortOK
    <3>2. PortBit \in Bit
      BY <2>1, <3>1, AckIs DEF PortOK
    <3>3. heard' = Append(heard, PortBit) /\ t' = t
      BY <1>5, <2>1 DEF SendsAck
    <3>4. heard' \in Seq(Bit) /\ Len(heard') = Len(heard) + 1
      BY <3>2, <3>3, Appended DEF PortOK
    <3> QED
      BY <1>1, <1>5, <2>1, <3>1, <3>3, <3>4 DEF PortOK
  <2>2. CASE ~(Len(heard) < 2)
    <3>1. heard' = <<>> /\ t' \in {"turn", "idle", "toWrite", "toRead", "read"}
      BY <1>5, <2>2 DEF SendsAck, PortGoes, PortOK
    <3> QED
      BY <1>1, <1>5, <3>1, Empty, WireAssumption DEF PortOK
  <2> QED
    BY <2>1, <2>2
<1>6. CASE t = "read" /\ SendsWord /\ UNCHANGED <<treq, answer, word, busy, sticky, taken>>
  <2>1. CASE Len(heard) < WordBits
    <3>1. PortBit = word[Len(heard) + 1] /\ Len(heard) \in Nat
      BY <1>6, <2>1 DEF PortBit, PortOK
    <3>2. PortBit \in Bit
      BY <2>1, <3>1, WireAssumption DEF PortOK
    <3>3. heard' = Append(heard, PortBit) /\ t' = t
      BY <1>6, <2>1 DEF SendsWord
    <3>4. heard' \in Seq(Bit) /\ Len(heard') = Len(heard) + 1
      BY <3>2, <3>3, Appended DEF PortOK
    <3>5. Len(heard') <= WordBits
      BY <2>1, <3>1, <3>4, WireAssumption
    <3> QED
      BY <1>1, <1>6, <3>3, <3>4, <3>5 DEF PortOK
  <2>2. CASE ~(Len(heard) < WordBits)
    BY <1>1, <1>6, <2>2, Empty DEF SendsWord, PortGoes, PortOK
  <2> QED
    BY <2>1, <2>2
<1>7. CASE PortWaits(bit) /\ UNCHANGED <<treq, answer, word, busy, sticky, taken>>
  <2>1. heard' = <<>> /\ t' \in {"request", "ack", "read", "write", "deaf", "idle"}
    BY <1>7 DEF PortWaits, PortGoes
  <2> QED
    BY <1>1, <1>7, <2>1, Empty, WireAssumption DEF PortOK
<1> QED
  BY <1>2, <1>3, <1>4, <1>5, <1>6, <1>7 DEF PortClock, PortMoves

(* So it does in a cycle of the driver's. *)
LEMMA CycleTyped ==
  ASSUME PortOK, LineOK, NEW h, NEW bit \in Bit, Cycle(h, bit)
  PROVE  /\ PortOK' /\ LineOK'
         /\ noise' = noise \/ (~noise /\ noise')
<1>1. PortClock(bit)
  BY DEF Cycle
<1>2. UNCHANGED <<noise, faults>> \/ (~noise /\ noise' = TRUE /\ Fault)
  BY DEF Cycle
<1>3. PortOK'
  BY <1>1, PortTyped
<1>4. LineOK'
  <2>1. noise' \in BOOLEAN
    BY <1>2 DEF LineOK
  <2>2. faults' = faults \/ (faults < MaxFaults /\ faults' = faults + 1)
    BY <1>2 DEF Fault
  <2>3. faults' \in 0..MaxFaults
    BY <2>2, WireAssumption DEF LineOK
  <2> QED
    BY <2>1, <2>3 DEF LineOK
<1>5. noise' = noise \/ (~noise /\ noise')
  BY <1>2
<1> QED
  BY <1>3, <1>4, <1>5

(* What every step of the driver but the one of a phase keeps. *)
HostRest ==
  /\ req' \in Requests /\ data' \in [1..WordBits -> Bit] /\ got' \in Seq(Bit)
  /\ attempt' \in 1..SWD_MAX_RETRIES /\ out' \in BOOLEAN
  /\ failures' \in 0..2 /\ clean' \in BOOLEAN
  /\ rc' \in {"ok", "ready", "reset", "EIO", "EPROTO", "EBADMSG", "ETIMEDOUT", "EGPIO"}

(* Any return leaves the driver between two accesses. *)
LEMMA Returns ==
  ASSUME HostOK, HostRest, pc' = "returned", n' = 1
  PROVE  HostOK'
BY DEF HostOK, HostRest, InAccess, Resetting, ResetPhases

(* Errors are counted to two, as no access starts after the second. *)
LEMMA ReturnTyped ==
  ASSUME HostOK, InAccess, NEW code \in {"ok", "EIO", "EPROTO", "EBADMSG", "ETIMEDOUT", "EGPIO"},
         Return(code)
  PROVE  /\ failures' \in 0..2 /\ clean' \in BOOLEAN /\ pc' = "returned" /\ n' = 1
         /\ rc' \in {"ok", "ready", "reset", "EIO", "EPROTO", "EBADMSG", "ETIMEDOUT", "EGPIO"}
<1>1. failures' \in 0..2
  BY DEF HostOK, Return
<1> QED
  BY <1>1 DEF HostOK, Return, Goto

(* The driver lets go of the line after the eighth bit. *)
LEMMA SendRequestTyped ==
  ASSUME HostOK, SendRequestBit
  PROVE  HostOK'
<1>1. /\ pc = "request" /\ n <= 8 /\ n \in Nat \ {0} /\ InAccess /\ failures < 2 /\ rc # "reset"
      /\ out' = (n < 8) /\ got' = <<>> /\ UNCHANGED <<req, data, attempt, rc, failures, clean>>
      /\ NextBit(8, "trnAck")
  BY DEF HostOK, SendRequestBit, InAccess
<1>2. HostRest
  BY <1>1, Empty DEF HostOK, HostRest
<1>3. CASE n < 8
  <2>1. pc' = "request" /\ n' = n + 1 /\ out'
    BY <1>1, <1>3 DEF NextBit
  <2>2. n + 1 \in Nat \ {0} /\ n + 1 <= 8
    BY <1>1, <1>3
  <2> QED
    BY <1>1, <1>2, <2>1, <2>2 DEF HostOK, HostRest, InAccess
<1>4. CASE ~(n < 8)
  <2>1. pc' = "trnAck" /\ n' = 1 /\ ~out'
    BY <1>1, <1>4 DEF NextBit
  <2> QED
    BY <1>1, <1>2, <2>1 DEF HostOK, HostRest, InAccess
<1> QED
  BY <1>3, <1>4

(* A turnaround is one cycle. *)
LEMMA TurnaroundTyped ==
  ASSUME HostOK,
         \/ swd_turnaround("trnAck", Z, "ack")
         \/ swd_turnaround("trnRead", Z, "rdata")
         \/ swd_turnaround("trnWrite", 0, "wdata")
  PROVE  HostOK'
<1>1. /\ n' = 1 /\ UNCHANGED <<req, data, got, attempt, rc, out, failures, clean>>
      /\ \/ pc = "trnAck" /\ pc' = "ack"
         \/ pc = "trnRead" /\ pc' = "rdata"
         \/ pc = "trnWrite" /\ pc' = "wdata"
  BY DEF swd_turnaround, Goto
<1>2. InAccess /\ failures < 2 /\ rc # "reset"
  BY <1>1 DEF InAccess, HostOK
<1>3. Len(<<>>) = 1 - 1 /\ 1 <= WordBits + 1
  BY Empty, WireAssumption
<1> QED
  BY <1>1, <1>2, <1>3 DEF HostOK, InAccess

(* After three bits of ACK: again, the data phase, or an error. *)
LEMMA ReadAckTyped ==
  ASSUME HostOK, ReadAckBit
  PROVE  HostOK'
<1>1. /\ pc = "ack" /\ n <= 3 /\ n \in Nat \ {0} /\ InAccess /\ failures < 2 /\ rc # "reset"
      /\ Len(got) = n - 1 /\ got \in Seq(Bit) /\ ~out /\ UNCHANGED <<req, data>>
  BY DEF HostOK, ReadAckBit, InAccess
<1>2. PICK bit \in Bit :
        IF n < 3
        THEN got' = Append(got, bit) /\ n' = n + 1 /\ UNCHANGED <<pc, attempt, rc, out, failures, clean>>
        ELSE got' = <<>> /\ ReadAck(Append(got, bit))
  BY DEF ReadAckBit
<1>3. CASE n < 3
  <2>1. got' \in Seq(Bit) /\ Len(got') = n
    BY <1>1, <1>2, <1>3, Appended
  <2>2. n + 1 \in Nat \ {0} /\ n + 1 <= 3 /\ n + 1 - 1 = n
    BY <1>1, <1>3
  <2> QED
    BY <1>1, <1>2, <1>3, <2>1, <2>2 DEF HostOK, InAccess
<1>4. CASE ~(n < 3)
  <2> DEFINE ack == Append(got, bit)
  <2>1. got' = <<>> /\ got' \in Seq(Bit) /\ ReadAck(ack)
    BY <1>2, <1>4, Empty
  <2> HIDE DEF ack
  <2>2. CASE Retry
    <3>1. CASE attempt < SWD_MAX_RETRIES
      <4>1. /\ attempt' = attempt + 1 /\ out' = TRUE /\ n' = 1 /\ pc' = "request"
            /\ UNCHANGED <<rc, failures, clean>>
        BY <2>2, <3>1 DEF Retry, Goto
      <4>2. attempt' \in 1..SWD_MAX_RETRIES
        BY <3>1, <4>1, WireAssumption DEF HostOK
      <4> QED
        BY <1>1, <2>1, <4>1, <4>2 DEF HostOK, InAccess
    <3>2. CASE ~(attempt < SWD_MAX_RETRIES)
      <4>1. Return("ETIMEDOUT") /\ UNCHANGED <<attempt, out>>
        BY <2>2, <3>2 DEF Retry
      <4>2. HostRest
        BY <1>1, <2>1, <4>1, ReturnTyped DEF HostOK, HostRest
      <4> QED
        BY <1>1, <4>1, <4>2, Returns, ReturnTyped
    <3> QED
      BY <3>1, <3>2
  <2>3. CASE /\ UNCHANGED attempt /\ out' = DrivesAfter(ack)
             /\ ack = AckBits["OK"]
             /\ Goto(IF req.rn = 1 THEN "trnRead" ELSE "trnWrite")
             /\ UNCHANGED <<rc, failures, clean>>
    <3>1. req.rn \in {0, 1}
      BY WireAssumption DEF HostOK, Request, Bit
    <3>2. CASE req.rn = 1
      <4>1. DrivesAfter(ack) = FALSE
        BY <3>2 DEF DrivesAfter
      <4>2. pc' = "trnRead" /\ n' = 1 /\ out' = FALSE /\ UNCHANGED <<attempt, rc, failures, clean>>
        BY <2>3, <3>2, <4>1 DEF Goto
      <4>3. HostRest
        BY <1>1, <2>1, <4>2 DEF HostOK, HostRest
      <4>4. ~out' /\ got' = <<>> /\ req' = req
        BY <1>1, <2>1, <4>2
      <4> QED
        BY <1>1, <3>2, <4>2, <4>3, <4>4 DEF HostOK, HostRest, InAccess, Resetting, ResetPhases
    <3>3. CASE req.rn = 0
      <4>1. DrivesAfter(ack) = TRUE
        BY <2>3, <3>3 DEF DrivesAfter
      <4>2. pc' = "trnWrite" /\ n' = 1 /\ out' = TRUE /\ UNCHANGED <<attempt, rc, failures, clean>>
        BY <2>3, <3>3, <4>1 DEF Goto
      <4> QED
        BY <1>1, <2>1, <3>3, <4>2 DEF HostOK, InAccess
    <3> QED
      BY <3>1, <3>2, <3>3
  <2>4. CASE /\ UNCHANGED attempt /\ out' = DrivesAfter(ack)
             /\ Return("EIO") \/ Return("EPROTO")
    <3>1. out' \in BOOLEAN
      BY <2>4 DEF DrivesAfter
    <3>2. HostRest
      BY <1>1, <2>1, <2>4, <3>1, ReturnTyped DEF HostOK, HostRest
    <3> QED
      BY <1>1, <2>4, <3>2, Returns, ReturnTyped
  <2> QED
    BY <2>1, <2>2, <2>3, <2>4 DEF ReadAck
<1> QED
  BY <1>3, <1>4

(* The word and its parity, and the line is the driver's again. *)
LEMMA ReadDataTyped ==
  ASSUME HostOK, ReadDataBit
  PROVE  HostOK'
<1>1. /\ pc = "rdata" /\ n <= WordBits + 1 /\ n \in Nat \ {0} /\ InAccess /\ failures < 2
      /\ rc # "reset" /\ Len(got) = n - 1 /\ got \in Seq(Bit) /\ req.rn = 1
      /\ NextBit(WordBits + 1, "trnBack") /\ out' = (n > WordBits)
      /\ UNCHANGED <<req, data, attempt, rc, failures, clean>>
  BY DEF HostOK, ReadDataBit, InAccess
<1>2. got' \in Seq(Bit) /\ Len(got') = n
  BY <1>1, Appended DEF ReadDataBit
<1>3. CASE n < WordBits + 1
  <2>1. pc' = "rdata" /\ n' = n + 1
    BY <1>1, <1>3 DEF NextBit
  <2>2. ~(n > WordBits) /\ n + 1 \in Nat \ {0} /\ n + 1 <= WordBits + 1 /\ n + 1 - 1 = n
    BY <1>1, <1>3, WireAssumption
  <2>3. out' = FALSE
    <3>1. (n > WordBits) = FALSE
      BY <2>2
    <3> QED
      BY <1>1, <3>1
  <2> QED
    BY <1>1, <1>2, <2>1, <2>2, <2>3 DEF HostOK, InAccess
<1>4. CASE ~(n < WordBits + 1)
  <2>1. pc' = "trnBack" /\ n' = 1
    BY <1>1, <1>4 DEF NextBit
  <2>2. n > WordBits /\ n = WordBits + 1
    BY <1>1, <1>4, WireAssumption
  <2>3. out' = TRUE
    <3>1. (n > WordBits) = TRUE
      BY <2>2
    <3> QED
      BY <1>1, <3>1
  <2> QED
    BY <1>1, <1>2, <2>1, <2>2, <2>3 DEF HostOK, InAccess
<1> QED
  BY <1>3, <1>4

(* The word is what was read, without its parity. *)
LEMMA TurnBackTyped ==
  ASSUME HostOK, TurnBack
  PROVE  /\ HostOK'
         /\ \A i \in 1..WordBits : data'[i] = got[i]
<1>1. /\ pc = "trnBack" /\ InAccess /\ Len(got) = WordBits + 1 /\ got \in Seq(Bit)
      /\ data' = SubSeq(got, 1, WordBits) /\ Return(ReadResult) /\ got' = <<>>
      /\ UNCHANGED <<req, attempt, out>>
  BY DEF HostOK, TurnBack, TakeWord, InAccess
<1>2. WordBits \in Nat
  BY WireAssumption
<1>3. data' \in Seq(Bit) /\ Len(data') = WordBits /\ \A i \in 1..WordBits : data'[i] = got[i]
  BY <1>1, <1>2
<1>4. data' \in [1..WordBits -> Bit]
  BY <1>3, SeqAsBits
<1>5. ReadResult \in {"ok", "EBADMSG"}
  BY DEF ReadResult
<1>6. PICK code \in {"ok", "EBADMSG"} : code = ReadResult
  BY <1>5
<1>7. Return(code)
  BY <1>1, <1>6 DEF Return
<1>8. HostRest
  BY <1>1, <1>4, <1>7, Empty, ReturnTyped DEF HostOK, HostRest
<1> QED
  BY <1>1, <1>3, <1>7, <1>8, Returns, ReturnTyped

(* A write ends after the parity. *)
LEMMA WriteDataTyped ==
  ASSUME HostOK, WriteDataBit
  PROVE  HostOK'
<1>1. /\ pc = "wdata" /\ n <= WordBits + 1 /\ n \in Nat \ {0} /\ InAccess /\ failures < 2
      /\ rc # "reset" /\ UNCHANGED <<req, data, got, attempt, out>>
      /\ IF n <= WordBits THEN n' = n + 1 /\ UNCHANGED <<pc, rc, failures, clean>> ELSE Return("ok")
  BY DEF HostOK, WriteDataBit, InAccess
<1>2. CASE n <= WordBits
  <2>1. n + 1 \in Nat \ {0} /\ n + 1 <= WordBits + 1
    BY <1>1, <1>2, WireAssumption
  <2> QED
    BY <1>1, <1>2, <2>1 DEF HostOK, InAccess
<1>3. CASE ~(n <= WordBits)
  <2>1. HostRest
    BY <1>1, <1>3, ReturnTyped DEF HostOK, HostRest
  <2> QED
    BY <1>1, <1>3, <2>1, Returns, ReturnTyped
<1> QED
  BY <1>2, <1>3

(* Steps in which the port is not clocked. *)
LEMMA OtherTyped ==
  ASSUME HostOK,
         \/ \E r \in Requests, w \in Words : Access(r, w)
         \/ DirectionFails \/ LineReset \/ HostReset
  PROVE  HostOK'
<1>1. ASSUME NEW r \in Requests, NEW w \in Words, Access(r, w) PROVE HostOK'
  <2>1. /\ failures < 2 /\ rc # "reset" /\ req' = r /\ data' = w /\ attempt' = 1 /\ out' = TRUE
        /\ n' = 1 /\ pc' = "request" /\ UNCHANGED <<got, rc, failures, clean>>
    BY <1>1 DEF Access, Goto
  <2>2. 1 \in 1..SWD_MAX_RETRIES /\ w \in [1..WordBits -> Bit]
    BY WireAssumption
  <2> QED
    BY <2>1, <2>2 DEF HostOK, InAccess
<1>2. CASE DirectionFails
  <2>1. InAccess
    BY <1>2 DEF DirectionFails, InAccess
  <2>2. out' \in BOOLEAN /\ got' = <<>> /\ Return("EGPIO") /\ UNCHANGED <<req, data, attempt>>
    BY <1>2 DEF DirectionFails, HostOK
  <2>3. HostRest
    BY <2>1, <2>2, Empty, ReturnTyped DEF HostOK, HostRest
  <2> QED
    BY <2>1, <2>2, <2>3, Returns, ReturnTyped
<1>3. CASE LineReset
  <2>1. /\ out' = TRUE /\ failures' = 0 /\ n' = 1 /\ pc' = "high1"
        /\ UNCHANGED <<req, data, got, attempt, rc, clean>>
    BY <1>3 DEF LineReset, Goto
  <2>2. 1 <= LineHigh
    BY WireAssumption
  <2> QED
    BY <2>1, <2>2 DEF HostOK, InAccess, Resetting, ResetPhases
<1>4. CASE HostReset
  <2>1. /\ n' = 1 /\ pc' = "returned" /\ rc' = "reset" /\ out' = FALSE /\ got' = <<>>
        /\ UNCHANGED <<req, data, attempt, failures, clean>>
    BY <1>4 DEF HostReset, Goto
  <2>2. HostRest
    BY <2>1, Empty DEF HostOK, HostRest
  <2> QED
    BY <2>1, <2>2, Returns
<1> QED
  BY <1>1, <1>2, <1>3, <1>4

(* The phases of a line reset. *)
LEMMA PhasesAre ==
  /\ DOMAIN ResetPhases = {"high1", "switch", "high2", "low"}
  /\ ResetPhases["high1"] = "switch" /\ ResetPhases["switch"] = "high2"
  /\ ResetPhases["high2"] = "low" /\ ResetPhases["low"] = "returned"
BY DEF ResetPhases

(* Each has its number of cycles. *)
LEMMA LineResetTyped ==
  ASSUME HostOK, LineOK', LineResetBit
  PROVE  HostOK'
<1> DEFINE k == CASE pc = "switch" -> 16 [] pc = "low" -> 2 [] OTHER -> LineHigh
<1>1. /\ pc \in {"high1", "switch", "high2", "low"} /\ n \in Nat \ {0} /\ clean' = ~noise'
      /\ NextBit(k, ResetPhases[pc])
      /\ IF pc' = "returned" THEN rc' = "ready" ELSE rc' = rc
      /\ UNCHANGED <<req, data, got, attempt, out, failures>>
  BY PhasesAre DEF HostOK, LineResetBit
<1>2. /\ pc = "switch" => k = 16
      /\ pc = "low" => k = 2
      /\ pc \in {"high1", "high2"} => k = LineHigh
  OBVIOUS
<1> HIDE DEF k
<1>3. k \in Nat
  BY <1>1, <1>2, WireAssumption
<1>4. clean' \in BOOLEAN
  BY <1>1
<1>5. HostRest
  BY <1>1, <1>4 DEF HostOK, HostRest
<1>6. CASE n < k
  <2>1. n' = n + 1 /\ pc' = pc /\ rc' = rc /\ n + 1 \in Nat \ {0} /\ n + 1 <= k
    BY <1>1, <1>3, <1>6 DEF NextBit
  <2> QED
    BY <1>1, <1>2, <1>5, <2>1 DEF HostOK, HostRest, InAccess, Resetting, ResetPhases
<1>7. CASE ~(n < k)
  <2>1. n' = 1 /\ pc' = ResetPhases[pc] /\ 1 <= LineHigh
    BY <1>1, <1>7, WireAssumption DEF NextBit
  <2>2. pc' \in {"switch", "high2", "low", "returned"}
    BY <1>1, <2>1, PhasesAre
  <2> QED
    BY <1>5, <2>1, <2>2 DEF HostOK, HostRest, InAccess, Resetting, ResetPhases
<1> QED
  BY <1>6, <1>7

(* Which of the actions clock the port. *)
LEMMA PortStep ==
  ASSUME PortOK, LineOK, Next
  PROVE  PortOK' /\ LineOK'
<1>1. CASE \E h, bit : bit \in Bit /\ Cycle(h, bit)
  BY <1>1, CycleTyped
<1>2. CASE UNCHANGED port /\ LineOK'
  BY <1>2 DEF port, PortOK, PortDrives
<1>3. ASSUME NEW r \in Requests, NEW w \in Words, Access(r, w) PROVE UNCHANGED port /\ LineOK'
  BY <1>3 DEF Access, LineOK
<1>4. ASSUME DirectionFails \/ HostReset PROVE UNCHANGED port /\ LineOK'
  <2>1. UNCHANGED port /\ noise' = noise /\ faults < MaxFaults /\ faults' = faults + 1
    BY <1>4 DEF DirectionFails, HostReset, Fault
  <2> QED
    BY <2>1, WireAssumption DEF LineOK
<1>5. CASE LineReset
  <2>1. /\ UNCHANGED <<t, heard, treq, answer, word, ones, sticky, taken>> /\ busy' = 0
        /\ noise' = FALSE /\ faults' = faults
    BY <1>5 DEF LineReset
  <2>2. 0 \in 0..MaxBusy
    BY WireAssumption
  <2>3. PortOK'
    BY <2>1, <2>2 DEF PortOK
  <2> QED
    BY <2>1, <2>3 DEF LineOK
<1>6. ASSUME SendRequestBit \/ ReadAckBit \/ ReadDataBit \/ TurnBack \/ WriteDataBit
             \/ swd_turnaround("trnAck", Z, "ack") \/ swd_turnaround("trnRead", Z, "rdata")
             \/ swd_turnaround("trnWrite", 0, "wdata") \/ LineResetBit
      PROVE  \E h, bit : bit \in Bit /\ Cycle(h, bit)
  <2>1. CASE SendRequestBit
    BY <2>1 DEF SendRequestBit
  <2>2. CASE ReadAckBit
    BY <2>2 DEF ReadAckBit
  <2>3. CASE ReadDataBit
    BY <2>3 DEF ReadDataBit
  <2>4. CASE TurnBack \/ swd_turnaround("trnAck", Z, "ack") \/ swd_turnaround("trnRead", Z, "rdata")
             \/ swd_turnaround("trnWrite", 0, "wdata")
    BY <2>4 DEF TurnBack, swd_turnaround
  <2>5. CASE WriteDataBit
    BY <2>5 DEF WriteDataBit
  <2>6. CASE LineResetBit
    BY <2>6 DEF LineResetBit
  <2> QED
    BY <1>6, <2>1, <2>2, <2>3, <2>4, <2>5, <2>6
<1> QED
  BY <1>1, <1>2, <1>3, <1>4, <1>5, <1>6 DEF Next, swd_transaction

Typed == HostOK /\ PortOK /\ LineOK

(* Power-on. *)
LEMMA TypedFirst == Init => Typed
<1> SUFFICES ASSUME Init PROVE Typed
  OBVIOUS
<1>1. req \in Request /\ data \in [1..WordBits -> Bit]
  BY WireAssumption DEF Init
<1>2. 0 \in 0..ResetOnes /\ 0 \in 0..MaxBusy /\ 1 \in 1..SWD_MAX_RETRIES /\ 0 \in 0..MaxFaults
  BY WireAssumption
<1>3. HostOK
  <2>1. /\ pc = "returned" /\ rc = "reset" /\ n = 1 /\ got \in Seq(Bit) /\ attempt = 1
        /\ out = FALSE /\ failures = 0 /\ clean = FALSE /\ req \in Requests
    BY Empty DEF Init
  <2>2. ~InAccess
    BY <2>1 DEF InAccess
  <2>3. n \in Nat \ {0} /\ attempt \in 1..SWD_MAX_RETRIES /\ failures \in 0..2
    BY <1>2, <2>1
  <2>4. out \in BOOLEAN /\ clean \in BOOLEAN
    BY <2>1
  <2> QED
    BY <1>1, <2>1, <2>2, <2>3, <2>4 DEF HostOK
<1>4. PortOK
  BY <1>1, <1>2, Empty DEF Init, PortOK
<1>5. LineOK
  BY <1>2 DEF Init, LineOK
<1> QED
  BY <1>3, <1>4, <1>5 DEF Typed

(* And every step keeps it. *)
LEMMA TypedNext == Typed /\ [Next]_vars => Typed'
<1> SUFFICES ASSUME HostOK, PortOK, LineOK, [Next]_vars PROVE Typed'
  BY DEF Typed
<1>1. CASE UNCHANGED vars
  <2>1. HostOK'
    BY <1>1 DEF vars, host, HostOK, InAccess, Resetting, ResetPhases
  <2>2. PortOK' /\ LineOK'
    BY <1>1 DEF vars, port, PortOK, LineOK
  <2> QED
    BY <2>1, <2>2 DEF Typed
<1>2. CASE Next
  <2>1. PortOK' /\ LineOK'
    BY <1>2, PortStep
  <2>2. HostOK'
    BY <1>2, <2>1, SendRequestTyped, TurnaroundTyped, ReadAckTyped, ReadDataTyped, TurnBackTyped,
       WriteDataTyped, OtherTyped, LineResetTyped DEF Next, swd_transaction
  <2> QED
    BY <2>1, <2>2 DEF Typed
<1> QED
  BY <1>1, <1>2

(* The phases, the counters and the bits read stay what the code takes     *)
(* them for, whatever the port answers and wherever the STM32 is reset: in *)
(* no phase does swd.c collect more bits than the phase has.               *)
THEOREM WireTyped == Spec => []TypeOK
<1>1. Spec => []Typed
  BY TypedFirst, TypedNext, PTL DEF Spec
<1>2. Typed => TypeOK
  BY TypesOK DEF Typed
<1> QED
  BY <1>1, <1>2, PTL

-------------------------------------------------------------------------------
(* One cycle *)

(* The port that the driver is written for. *)
PortOfDriver == RequestParity = 1 /\ ReadTrn = 1 /\ RefusalTrn = 0

(* For the code's 32, 50 and 51: no access has as many ones in a row as a  *)
(* line reset, and a line reset outlasts the longest access.               *)
ResetLongEnough == WordBits + 14 < ResetOnes /\ WordBits + 16 <= LineHigh

(* What the wire carries unless it is misread. *)
Wire(h) == IF h # Z THEN h ELSE IF PortBit # Z THEN PortBit ELSE 1

Carries(sent, bit) ==
  \/ bit = sent /\ noise' = noise
  \/ bit # sent /\ noise = FALSE /\ noise' = TRUE

(* A cycle carries what Wire says, or the one misread bit of the access. *)
LEMMA Carried ==
  ASSUME NEW h, NEW bit, Cycle(h, bit)
  PROVE  Carries(Wire(h), bit)
BY DEF Cycle, Carries, Wire

(* Who gives the bit in which phase of the port. *)
LEMMA WireIs ==
  ASSUME PortOK
  PROVE  /\ \A h \in Bit : Wire(h) = h
         /\ t \notin {"ack", "read"} => Wire(Z) = 1
         /\ t = "ack" => Wire(Z) = AckBits[answer][Len(heard) + 1]
         /\ t = "read" /\ Len(heard) < WordBits => Wire(Z) = word[Len(heard) + 1]
         /\ t = "read" /\ Len(heard) = WordBits => Wire(Z) = ParityOf(word)
<1>1. \A h \in Bit : h # Z
  BY DEF Bit, Z
<1>2. \A h \in Bit : Wire(h) = h
  BY <1>1 DEF Wire
<1>3. t \notin {"ack", "read"} => PortBit = Z
  BY DEF PortBit
<1>4. t \notin {"ack", "read"} => Wire(Z) = 1
  BY <1>3 DEF Wire
<1>5. ASSUME t = "ack" PROVE Wire(Z) = AckBits[answer][Len(heard) + 1]
  <2>1. Len(heard) + 1 \in 1..3
    BY <1>5 DEF PortOK
  <2>2. AckBits[answer][Len(heard) + 1] \in Bit
    BY <2>1, AckIs DEF PortOK
  <2>3. PortBit = AckBits[answer][Len(heard) + 1]
    BY <1>5 DEF PortBit
  <2> QED
    BY <1>1, <2>2, <2>3 DEF Wire
<1>6. ASSUME t = "read", Len(heard) < WordBits PROVE Wire(Z) = word[Len(heard) + 1]
  <2>1. Len(heard) + 1 \in 1..WordBits
    BY <1>6, WireAssumption DEF PortOK
  <2>2. word[Len(heard) + 1] \in Bit
    BY <2>1 DEF PortOK
  <2>3. PortBit = word[Len(heard) + 1]
    BY <1>6 DEF PortBit
  <2> QED
    BY <1>1, <2>2, <2>3 DEF Wire
<1>7. ASSUME t = "read", Len(heard) = WordBits PROVE Wire(Z) = ParityOf(word)
  <2>1. ParityOf(word) \in Bit
    BY WireAssumption, ParityTyped DEF PortOK
  <2>2. ~(Len(heard) < WordBits)
    BY <1>7, WireAssumption
  <2>3. PortBit = ParityOf(word)
    BY <1>7, <2>2 DEF PortBit
  <2> QED
    BY <1>1, <2>1, <2>3 DEF Wire
<1> QED
  BY <1>2, <1>4, <1>5, <1>6, <1>7

(* The port moves on as its phase says as long as it has not heard too     *)
(* many ones.                                                              *)
LEMMA StillCounting ==
  ASSUME PortOK, NEW bit \in Bit, PortClock(bit), bit = 0 \/ ones + 1 < ResetOnes
  PROVE  /\ PortMoves(bit)
         /\ ones' \in Nat /\ ones' <= ones + 1
         /\ bit = 0 \/ PortDrives => ones' = 0
<1>1. ones \in Nat /\ ResetOnes \in Nat \ {0}
  BY WireAssumption DEF PortOK
<1> DEFINE high == IF PortDrives \/ bit = 0 THEN 0 ELSE IF ones < ResetOnes THEN ones + 1 ELSE ones
<1>2. /\ ones' = high
      /\ IF high = ResetOnes
         THEN PortGoes("idle") /\ UNCHANGED <<treq, answer, word, busy, sticky, taken>>
         ELSE PortMoves(bit)
  BY DEF PortClock
<1>3. high # ResetOnes /\ high \in Nat /\ high <= ones + 1 /\ (bit = 0 \/ PortDrives => high = 0)
  BY <1>1
<1> QED
  BY <1>2, <1>3

(* The same of a cycle of the driver's. *)
LEMMA Clocked ==
  ASSUME PortOK, NEW h, NEW bit \in Bit, Cycle(h, bit), ones + 1 < ResetOnes
  PROVE  /\ PortMoves(bit)
         /\ ones' \in Nat /\ ones' <= ones + 1
         /\ bit = 0 \/ PortDrives => ones' = 0
BY StillCounting DEF Cycle

Rest == UNCHANGED <<treq, answer, word, busy, sticky, taken>>

(* Where each phase of the port leads. *)
LEMMA Moves ==
  ASSUME NEW bit \in Bit, PortMoves(bit)
  PROVE  /\ t = "request" => HearsRequest(bit) /\ UNCHANGED <<sticky, taken>>
         /\ t = "write" => HearsWord(bit) /\ UNCHANGED <<treq, answer, word, busy>>
         /\ t = "ack" => SendsAck /\ Rest
         /\ t = "read" => SendsWord /\ Rest
         /\ t = "idle" /\ bit = 1 => PortGoes("request") /\ Rest
         /\ t = "idle" /\ bit = 0 => PortGoes("idle") /\ Rest
         /\ t = "toAck" => PortGoes("ack") /\ Rest
         /\ t = "toRead" => PortGoes("read") /\ Rest
         /\ t = "toWrite" => PortGoes("write") /\ Rest
         /\ t = "turn" => PortGoes("idle") /\ Rest
         /\ t = "deaf" => PortGoes("deaf") /\ Rest
<1>1. t = "request" => HearsRequest(bit) /\ UNCHANGED <<sticky, taken>>
  BY DEF PortMoves
<1>2. t = "write" => HearsWord(bit) /\ UNCHANGED <<treq, answer, word, busy>>
  BY DEF PortMoves
<1>3. t = "ack" => SendsAck /\ Rest
  BY DEF PortMoves, Rest
<1>4. t = "read" => SendsWord /\ Rest
  BY DEF PortMoves, Rest
<1>5. t \notin {"request", "write", "ack", "read"} => PortWaits(bit) /\ Rest
  BY DEF PortMoves, Rest
<1>6. t = "idle" /\ bit = 1 => (PortWaits(bit) => PortGoes("request"))
  BY DEF PortWaits
<1>7. t = "idle" /\ bit = 0 => (PortWaits(bit) => PortGoes("idle"))
  BY DEF PortWaits
<1>8. t = "toAck" => (PortWaits(bit) => PortGoes("ack"))
  BY DEF PortWaits
<1>9. t = "toRead" => (PortWaits(bit) => PortGoes("read"))
  BY DEF PortWaits
<1>10. t = "toWrite" => (PortWaits(bit) => PortGoes("write"))
  BY DEF PortWaits
<1>11. t = "turn" => (PortWaits(bit) => PortGoes("idle"))
  BY DEF PortWaits
<1>12. t = "deaf" => (PortWaits(bit) => PortGoes("deaf"))
  BY DEF PortWaits
<1>13. t \in {"idle", "toAck", "toRead", "toWrite", "turn", "deaf"} => PortWaits(bit) /\ Rest
  BY <1>5
<1> QED
  BY <1>1, <1>2, <1>3, <1>4, <1>6, <1>7, <1>8, <1>9, <1>10, <1>11, <1>12, <1>13

-------------------------------------------------------------------------------
(* Where host and port are in an access, while none has failed *)

(* The first k bits of f are those of g, or one of them was misread. *)
Near(f, g, k, misread) == Agree(f, g, k) \/ (misread = TRUE /\ OneOff(f, g, k))

(* One more bit, misread or not, leaves at most one that differs. *)
LEMMA NearGrows ==
  ASSUME NEW f \in Seq(Bit), NEW g, NEW bit \in Bit, NEW k \in Nat, Len(f) = k,
         Near(f, g, k, noise), Carries(g[k + 1], bit)
  PROVE  Near(Append(f, bit), g, k + 1, noise')
<1> DEFINE h == Append(f, bit)
<1>1. h[k + 1] = bit /\ \A i \in 1..k : h[i] = f[i]
  BY Appended
<1>2. \A i \in 1..(k + 1) : i \in 1..k \/ i = k + 1
  OBVIOUS
<1>3. k + 1 \in 1..(k + 1) /\ \A i \in 1..k : i \in 1..(k + 1) /\ i # k + 1
  OBVIOUS
<1> HIDE DEF h
<1>4. CASE Agree(f, g, k) /\ bit = g[k + 1]
  <2>1. Agree(h, g, k + 1)
    BY <1>1, <1>2, <1>4 DEF Agree
  <2> QED
    BY <2>1 DEF Near, h
<1>5. CASE Agree(f, g, k) /\ bit # g[k + 1]
  <2>1. OneOff(h, g, k + 1) /\ noise' = TRUE
    BY <1>1, <1>2, <1>3, <1>5 DEF Agree, OneOff, Carries
  <2> QED
    BY <2>1 DEF Near, h
<1>6. CASE noise = TRUE /\ OneOff(f, g, k)
  <2>1. bit = g[k + 1] /\ noise' = TRUE
    BY <1>6 DEF Carries
  <2>2. PICK j \in 1..k : f[j] # g[j] /\ \A i \in 1..k : i # j => f[i] = g[i]
    BY <1>6 DEF OneOff
  <2>3. h[j] # g[j] /\ \A i \in 1..(k + 1) : i # j => h[i] = g[i]
    BY <1>1, <1>2, <2>1, <2>2
  <2>4. OneOff(h, g, k + 1)
    BY <1>3, <2>3 DEF OneOff
  <2> QED
    BY <2>1, <2>4 DEF Near, h
<1> QED
  BY <1>4, <1>5, <1>6 DEF Near

(* The word and its parity. *)
Sent(w) == [i \in 1..(WordBits + 1) |-> IF i <= WordBits THEN w[i] ELSE ParityOf(w)]

AtStart == pc = "request" /\ n = 1 /\ t = "idle" /\ ones <= WordBits + 2

InRequest ==
  /\ pc = "request" /\ n > 1 /\ t = "request" /\ Len(heard) = n - 2
  /\ Near(heard, RequestTail(req), n - 2, noise)
  /\ ones <= WordBits + 1 + n

AtTurn == pc = "trnAck" /\ t = "toAck" /\ treq = req /\ ones <= WordBits + 10

InAck ==
  /\ pc = "ack" /\ t = "ack" /\ Len(heard) = n - 1 /\ treq = req
  /\ Near(got, AckBits[answer], n - 1, noise)
  /\ ones <= WordBits + 11

(* After k bits of a request that it was not at the start of: the port     *)
(* cannot take what it hears for a request, as it ends in ones.            *)
Lost(k) ==
  /\ noise = TRUE
  /\ \/ t = "idle" \/ t = "deaf"
     \/ t = "request" /\ Len(heard) + 2 <= k /\ (Len(heard) = 6 => heard[6] = 1)
  /\ ones <= WordBits + 2 + k

LostRequest == pc = "request" /\ n > 1 /\ Lost(n - 1)
LostTurn == pc = "trnAck" /\ Lost(8)
LostAck == pc = "ack" /\ Lost(8 + n) /\ \A i \in 1..(n - 1) : got[i] = 1

Early == AtStart \/ InRequest \/ AtTurn \/ InAck \/ LostRequest \/ LostTurn \/ LostAck

ReadTurn == pc = "trnRead" /\ t = "toRead" /\ ones = 0

InRead ==
  pc = "rdata" /\ t = "read" /\ Len(heard) = n - 1 /\ Near(got, Sent(word), n - 1, noise) /\ ones <= 1

ReadBack == pc = "trnBack" /\ t = "turn" /\ Near(got, Sent(word), WordBits + 1, noise) /\ ones <= 1

WriteTurn == pc = "trnWrite" /\ t = "toWrite" /\ ones = 0

InWrite ==
  pc = "wdata" /\ t = "write" /\ Len(heard) = n - 1 /\ Near(heard, data, n - 1, noise) /\ ones <= n

Data == (ReadTurn \/ InRead \/ ReadBack \/ WriteTurn \/ InWrite) /\ treq = req

Returned == pc = "returned" /\ t = "idle" /\ ones <= WordBits + 2 /\ OkIsTrue

TrustInv == trusted => Returned \/ Early \/ Data

-------------------------------------------------------------------------------
(* The request *)

(* The start bit is heard, or it is the bit that was misread. *)
LEMMA StartGoes ==
  ASSUME Typed, ResetLongEnough, AtStart, SendRequestBit
  PROVE  InRequest' \/ LostRequest'
<1>1. /\ pc = "request" /\ n = 1 /\ t = "idle" /\ ones <= WordBits + 2 /\ req \in Request
      /\ PortOK /\ ones \in Nat /\ WordBits \in Nat /\ ResetOnes \in Nat
  BY WireAssumption DEF AtStart, Typed, HostOK, PortOK
<1>2. PICK bit \in Bit : Cycle(swd_build_request(req)[1], bit)
  BY <1>1 DEF SendRequestBit
<1>3. pc' = "request" /\ n' = 2 /\ req' = req
  BY <1>1 DEF SendRequestBit, NextBit
<1>4. ones + 1 < ResetOnes
  BY <1>1 DEF ResetLongEnough
<1>5. PortMoves(bit) /\ ones' <= ones + 1 /\ ones' \in Nat
  BY <1>1, <1>2, <1>4, Clocked
<1>6. swd_build_request(req)[1] = 1
  BY <1>1, RequestIs
<1>7. Wire(swd_build_request(req)[1]) = 1
  BY <1>1, <1>6, WireIs DEF Bit
<1>8. Carries(1, bit)
  BY <1>2, <1>7, Carried
<1>9. CASE bit = 1
  <2>1. t' = "request" /\ heard' = <<>> /\ Len(<<>>) = 0
    BY <1>1, <1>5, <1>9, Moves DEF PortGoes
  <2>2. Near(<<>>, RequestTail(req'), 0, noise')
    BY DEF Near, Agree
  <2>3. ones' <= WordBits + 1 + 2
    BY <1>1, <1>5
  <2> QED
    BY <1>3, <2>1, <2>2, <2>3 DEF InRequest
<1>10. CASE bit = 0
  <2>1. t' = "idle" /\ noise' = TRUE
    BY <1>1, <1>5, <1>8, <1>10, Moves DEF PortGoes, Carries
  <2>2. ones' <= WordBits + 2 + 1
    BY <1>1, <1>5
  <2> QED
    BY <1>3, <2>1, <2>2 DEF LostRequest, Lost
<1> QED
  BY <1>9, <1>10 DEF Bit

(* The port hears the request as it was sent, or not at all. *)
LEMMA RequestGoes ==
  ASSUME Typed, PortOfDriver, ResetLongEnough, InRequest, SendRequestBit
  PROVE  InRequest' \/ AtTurn' \/ LostTurn'
<1>1. /\ pc = "request" /\ n > 1 /\ n <= 8 /\ n \in Nat /\ t = "request" /\ Len(heard) = n - 2
      /\ Near(heard, RequestTail(req), n - 2, noise) /\ ones <= WordBits + 1 + n
      /\ req \in Request /\ heard \in Seq(Bit)
      /\ PortOK /\ ones \in Nat /\ WordBits \in Nat /\ ResetOnes \in Nat
  BY WireAssumption DEF InRequest, Typed, HostOK, PortOK
<1>2. PICK bit \in Bit : Cycle(swd_build_request(req)[n], bit)
  BY <1>1 DEF SendRequestBit
<1>3. NextBit(8, "trnAck") /\ req' = req
  BY <1>1 DEF SendRequestBit
<1>4. ones + 1 < ResetOnes
  BY <1>1 DEF ResetLongEnough
<1>5. PortMoves(bit) /\ ones' <= ones + 1 /\ ones' \in Nat
  BY <1>1, <1>2, <1>4, Clocked
<1>6. Wire(swd_build_request(req)[n]) = swd_build_request(req)[n]
  BY <1>1, TailTyped, WireIs
<1>7. Carries(RequestTail(req)[(n - 2) + 1], bit)
  <2>1. RequestTail(req)[n - 1] = swd_build_request(req)[n]
    BY <1>1 DEF RequestTail
  <2> QED
    BY <1>1, <1>2, <1>6, <2>1, Carried
<1> DEFINE bits == Append(heard, bit)
<1>8. Near(bits, RequestTail(req), n - 1, noise') /\ Len(bits) = n - 1 /\ bits \in Seq(Bit)
  <2>1. Near(bits, RequestTail(req), (n - 2) + 1, noise')
    BY <1>1, <1>7, NearGrows
  <2> QED
    BY <1>1, <2>1, Appended
<1> HIDE DEF bits
<1>9. HearsRequest(bit)
  BY <1>1, <1>5, Moves
<1>10. CASE n < 8
  <2>1. t' = "request" /\ heard' = bits /\ n' = n + 1 /\ pc' = "request"
    BY <1>1, <1>3, <1>8, <1>9, <1>10 DEF HearsRequest, NextBit, bits
  <2>2. n' > 1 /\ n' - 2 = n - 1 /\ ones' <= WordBits + 1 + n'
    BY <1>1, <1>5, <2>1
  <2> QED
    BY <1>3, <1>8, <2>1, <2>2 DEF InRequest
<1>11. CASE n = 8
  <2>1. pc' = "trnAck" /\ ones' <= WordBits + 10
    BY <1>1, <1>3, <1>5, <1>11 DEF NextBit
  <2>2. Len(bits) = 7
    BY <1>8, <1>11
  <2>3. CASE Agree(bits, RequestTail(req), 7)
    <3>1. Understood(bits) /\ req = [ap |-> bits[1], rn |-> bits[2], a2 |-> bits[3], a3 |-> bits[4]]
      BY <1>1, <1>8, <2>2, <2>3, SentIsUnderstood DEF PortOfDriver
    <3>2. t' = "toAck" /\ treq' = req
      BY <1>9, <2>2, <3>1 DEF HearsRequest, PortGoes, bits
    <3> QED
      BY <1>3, <2>1, <3>2 DEF AtTurn
  <2>4. CASE noise' = TRUE /\ OneOff(bits, RequestTail(req), 7)
    <3>1. ~Understood(bits)
      BY <1>1, <1>8, <2>2, <2>4, SpoiledIsNot DEF PortOfDriver
    <3>2. ~(Len(bits) = 7 /\ Understood(bits)) /\ ~(Len(bits) < 7)
      BY <2>2, <3>1
    <3>3. t' = "deaf"
      BY <1>9, <3>2 DEF HearsRequest, PortGoes, bits
    <3>4. ones' <= WordBits + 2 + 8
      BY <1>1, <1>5, <2>1
    <3> QED
      BY <2>1, <2>4, <3>3, <3>4 DEF LostTurn, Lost
  <2>5. n - 1 = 7
    BY <1>11
  <2>6. Near(bits, RequestTail(req), 7, noise')
    BY <1>8, <2>5
  <2> QED
    BY <2>3, <2>4, <2>6 DEF Near
<1> QED
  BY <1>1, <1>10, <1>11

(* The eighth bit of a request is a one, and so is what comes after it.    *)
OneAfter(k, h) == k >= 7 => Wire(h) = 1

(* It never has more than six bits of a request. *)
LEMMA HeardSoFar ==
  ASSUME PortOK, t = "request"
  PROVE  Len(heard) \in 0..6
<1>1. Len(heard) \in Nat
  BY DEF PortOK
<1>2. Len(heard) <= 6
  BY DEF PortOK
<1>3. PICK l \in Nat : l = Len(heard)
  BY <1>1
<1>4. l \in 0..6
  BY <1>2, <1>3
<1> QED
  BY <1>3, <1>4

(* The port stays lost. *)
LEMMA LostGoes ==
  ASSUME Typed, ResetLongEnough, NEW k \in 1..11, Lost(k), NEW h, NEW bit \in Bit, Cycle(h, bit),
         OneAfter(k, h)
  PROVE  Lost(k + 1)' /\ bit = Wire(h)
<1>1. /\ PortOK /\ noise = TRUE /\ heard \in Seq(Bit) /\ ones <= WordBits + 2 + k
      /\ ones \in Nat /\ WordBits \in Nat /\ ResetOnes \in Nat
  BY WireAssumption DEF Lost, Typed, PortOK
<1>2. ones + 1 < ResetOnes
  BY <1>1 DEF ResetLongEnough
<1>3. PortMoves(bit) /\ ones' \in Nat /\ ones' <= ones + 1
  BY <1>1, <1>2, Clocked
<1>4. bit = Wire(h) /\ noise' = TRUE
  BY <1>1, Carried DEF Carries
<1>5. ones' <= WordBits + 2 + (k + 1)
  BY <1>1, <1>3
<1>6. CASE t = "deaf"
  <2>1. t' = "deaf"
    BY <1>3, <1>6, Moves DEF PortGoes
  <2> QED
    BY <1>4, <1>5, <2>1 DEF Lost
<1>7. CASE t = "idle"
  <2>1. t' = "idle" \/ (t' = "request" /\ heard' = <<>>)
    BY <1>3, <1>7, Moves DEF PortGoes, Bit
  <2>2. Len(<<>>) + 2 <= k + 1 /\ Len(<<>>) # 6
    BY Empty
  <2> QED
    BY <1>4, <1>5, <2>1, <2>2 DEF Lost
<1>8. CASE t = "request" /\ Len(heard) + 2 <= k /\ (Len(heard) = 6 => heard[6] = 1)
  <2> DEFINE bits == Append(heard, bit)
  <2>1. HearsRequest(bit)
    BY <1>3, <1>8, Moves
  <2>2. PICK l \in 0..6 : l = Len(heard)
    BY <1>1, <1>8, HeardSoFar
  <2>3. Len(bits) = l + 1 /\ bits[l + 1] = bit /\ \A i \in 1..l : bits[i] = heard[i]
    BY <1>1, <2>2, Appended
  <2>4. l + 2 <= k /\ (l = 6 => heard[6] = 1)
    BY <1>8, <2>2
  <2> HIDE DEF bits
  <2>5. CASE l = 6
    <3>1. bits[6] = 1
      BY <2>3, <2>4, <2>5
    <3>2. ~(Len(bits) = 7 /\ Understood(bits)) /\ ~(Len(bits) < 7)
      BY <2>3, <2>5, <3>1 DEF Understood
    <3>3. t' = "deaf"
      BY <2>1, <3>2 DEF HearsRequest, PortGoes, bits
    <3> QED
      BY <1>4, <1>5, <3>3 DEF Lost
  <2>6. CASE l < 6
    <3>1. ~(Len(bits) = 7 /\ Understood(bits)) /\ Len(bits) < 7
      BY <2>3, <2>6
    <3>2. t' = "request" /\ heard' = bits
      BY <1>8, <2>1, <3>1 DEF HearsRequest, bits
    <3>3. Len(bits) + 2 <= k + 1
      BY <2>3, <2>4
    <3>4. ASSUME Len(bits) = 6 PROVE bits[6] = 1
      <4>1. k >= 7 /\ l + 1 = 6
        <5>1. Len(bits) = l + 1 /\ l + 2 <= k
          BY <2>3, <2>4
        <5>2. l + 1 = 6
          BY <3>4, <5>1
        <5> QED
          BY <5>1, <5>2
      <4>2. bit = 1
        BY <1>4, <4>1 DEF OneAfter
      <4> QED
        BY <2>3, <4>1, <4>2
    <3> QED
      BY <1>4, <1>5, <3>2, <3>3, <3>4 DEF Lost
  <2> QED
    BY <2>5, <2>6
<1> QED
  BY <1>6, <1>7, <1>8 DEF Lost

(* A request that began unheard ends unheard. *)
LEMMA LostRequestGoes ==
  ASSUME Typed, ResetLongEnough, LostRequest, SendRequestBit
  PROVE  LostRequest' \/ LostTurn'
<1>1. /\ pc = "request" /\ n > 1 /\ n <= 8 /\ n \in Nat /\ Lost(n - 1) /\ req \in Request /\ PortOK
  BY WireAssumption DEF LostRequest, Typed, HostOK
<1>2. PICK bit \in Bit : Cycle(swd_build_request(req)[n], bit)
  BY <1>1 DEF SendRequestBit
<1>3. NextBit(8, "trnAck")
  BY DEF SendRequestBit
<1>4. PICK k \in 1..7 : k = n - 1
  BY <1>1
<1>5. Lost(k)
  BY <1>1, <1>4
<1>6. OneAfter(k, swd_build_request(req)[n])
  <2>1. k >= 7 => n = 8
    BY <1>1, <1>4
  <2>2. swd_build_request(req)[8] = 1
    BY <1>1, RequestIs
  <2>3. Wire(1) = 1
    BY <1>1, WireIs DEF Bit
  <2> QED
    BY <2>1, <2>2, <2>3 DEF OneAfter
<1>7. Lost(k + 1)'
  <2>1. k \in 1..11
    BY <1>4
  <2> QED
    BY <1>2, <1>5, <1>6, <2>1, LostGoes
<1>8. CASE n < 8
  <2>1. pc' = "request" /\ n' = n + 1
    BY <1>1, <1>3, <1>8 DEF NextBit
  <2>2. n' > 1 /\ n' - 1 = k + 1
    BY <1>1, <1>4, <2>1
  <2> QED
    BY <1>7, <2>1, <2>2 DEF LostRequest, Lost
<1>9. CASE n = 8
  <2>1. pc' = "trnAck" /\ k + 1 = 8
    BY <1>3, <1>4, <1>9 DEF NextBit
  <2> QED
    BY <1>7, <2>1 DEF LostTurn, Lost
<1> QED
  BY <1>1, <1>8, <1>9

(* Both ends turn around at once. *)
LEMMA TurnGoes ==
  ASSUME Typed, ResetLongEnough, AtTurn, swd_turnaround("trnAck", Z, "ack")
  PROVE  InAck'
<1>1. /\ PortOK /\ t = "toAck" /\ treq = req /\ ones <= WordBits + 10
      /\ ones \in Nat /\ WordBits \in Nat /\ ResetOnes \in Nat
      /\ pc' = "ack" /\ n' = 1 /\ req' = req /\ got' = got /\ got = <<>>
  BY WireAssumption DEF AtTurn, Typed, HostOK, PortOK, swd_turnaround, Goto
<1>2. PICK bit \in Bit : Cycle(Z, bit)
  BY DEF swd_turnaround
<1>3. ones + 1 < ResetOnes
  BY <1>1 DEF ResetLongEnough
<1>4. PortMoves(bit) /\ ones' \in Nat /\ ones' <= ones + 1
  BY <1>1, <1>2, <1>3, Clocked
<1>5. t' = "ack" /\ heard' = <<>> /\ treq' = treq
  BY <1>1, <1>4, Moves DEF PortGoes, Rest
<1>6. Len(heard') = n' - 1 /\ ones' <= WordBits + 11
  BY <1>1, <1>4, <1>5, Empty
<1>7. Near(got', AckBits[answer'], n' - 1, noise')
  BY <1>1 DEF Near, Agree
<1> QED
  BY <1>1, <1>5, <1>6, <1>7 DEF InAck

(* The driver waits for an ACK that nobody sends. *)
LEMMA LostTurnGoes ==
  ASSUME Typed, ResetLongEnough, LostTurn, swd_turnaround("trnAck", Z, "ack")
  PROVE  LostAck'
<1>1. PortOK /\ Lost(8) /\ pc' = "ack" /\ n' = 1
  BY DEF LostTurn, Typed, swd_turnaround, Goto
<1>2. PICK bit \in Bit : Cycle(Z, bit)
  BY DEF swd_turnaround
<1>3. Wire(Z) = 1
  BY <1>1, WireIs DEF Lost
<1>4. 8 \in 1..11 /\ 8 + 1 = 9 /\ 8 + n' = 9 /\ ~\E i \in 1..(n' - 1) : TRUE
  BY <1>1
<1>5. Lost(9)'
  <2>1. Lost(8 + 1)'
    BY <1>1, <1>2, <1>3, <1>4, LostGoes DEF OneAfter
  <2> QED
    BY <1>4, <2>1
<1> QED
  BY <1>1, <1>4, <1>5 DEF LostAck, Lost

-------------------------------------------------------------------------------
(* The ACK *)

(* An access that fails ends the trust. *)
LEMMA Failed ==
  ASSUME Typed, NEW code, Return(code), code # "ok"
  PROVE  ~trusted'
<1>1. failures \in Nat /\ failures' = failures + 1
  BY DEF Typed, HostOK, Return
<1>2. failures' # 0
  BY <1>1
<1> QED
  BY <1>2 DEF trusted

(* With one bit misread none of the three is one of the others. *)
LEMMA AcksApart ==
  ASSUME NEW a \in {"OK", "WAIT", "FAULT"}, NEW ack \in Seq(Bit), Len(ack) = 3,
         OneOff(ack, AckBits[a], 3)
  PROVE  ack \notin {AckBits["OK"], AckBits["WAIT"], AckBits["FAULT"]}
<1>1. PICK j \in 1..3 : ack[j] # AckBits[a][j] /\ \A i \in 1..3 : i # j => ack[i] = AckBits[a][i]
  BY DEF OneOff
<1>2. 1 \in 1..3 /\ 2 \in 1..3 /\ 3 \in 1..3
  OBVIOUS
<1>3. /\ <<1, 0, 0>>[1] = 1 /\ <<1, 0, 0>>[2] = 0 /\ <<1, 0, 0>>[3] = 0
      /\ <<0, 1, 0>>[1] = 0 /\ <<0, 1, 0>>[2] = 1 /\ <<0, 1, 0>>[3] = 0
      /\ <<0, 0, 1>>[1] = 0 /\ <<0, 0, 1>>[2] = 0 /\ <<0, 0, 1>>[3] = 1
  OBVIOUS
<1>4. j = 1 \/ j = 2 \/ j = 3
  OBVIOUS
<1> QED
  BY <1>1, <1>2, <1>3, <1>4, AckIs

(* An ACK that was not disturbed. *)
LEMMA AckAgrees ==
  ASSUME NEW a \in {"OK", "WAIT", "FAULT"}, NEW ack \in Seq(Bit), Len(ack) = 3,
         Agree(ack, AckBits[a], 3)
  PROVE  ack = AckBits[a]
<1>1. ack \in [1..3 -> Bit] /\ AckBits[a] \in [1..3 -> Bit]
  BY SeqAsBits, AckIs
<1> QED
  BY <1>1, AllAgree

(* Without the ACK of the port, the access fails. *)
LEMMA NoAck ==
  ASSUME Typed, NEW ack, ReadAck(ack), ack \notin {AckBits["OK"], AckBits["WAIT"], AckBits["FAULT"]}
  PROVE  ~trusted'
<1>1. Return("EPROTO")
  BY DEF ReadAck
<1> QED
  BY <1>1, Failed

(* Then it reads ones, which are no ACK. *)
LEMMA LostAckGoes ==
  ASSUME Typed, ResetLongEnough, LostAck, ReadAckBit
  PROVE  LostAck' \/ ~trusted'
<1>1. /\ PortOK /\ pc = "ack" /\ n <= 3 /\ n \in Nat \ {0} /\ Lost(8 + n)
      /\ got \in Seq(Bit) /\ Len(got) = n - 1 /\ \A i \in 1..(n - 1) : got[i] = 1
  BY DEF LostAck, Typed, HostOK
<1>2. PICK bit \in Bit :
        /\ Cycle(Z, bit)
        /\ IF n < 3
           THEN got' = Append(got, bit) /\ n' = n + 1 /\ UNCHANGED <<pc, attempt, rc, out, failures, clean>>
           ELSE got' = <<>> /\ ReadAck(Append(got, bit))
  BY DEF ReadAckBit
<1>3. Wire(Z) = 1
  BY <1>1, WireIs DEF Lost
<1>4. PICK k \in 1..11 : k = 8 + n
  BY <1>1
<1>5. Lost(k + 1)' /\ bit = 1
  <2>1. Lost(k)
    BY <1>1, <1>4
  <2> QED
    BY <1>2, <1>3, <1>4, <2>1, LostGoes DEF OneAfter
<1> DEFINE ack == Append(got, bit)
<1>6. ack \in Seq(Bit) /\ Len(ack) = n /\ \A i \in 1..n : ack[i] = 1
  <2>1. ack \in Seq(Bit) /\ Len(ack) = n /\ ack[n] = 1 /\ \A i \in 1..(n - 1) : ack[i] = 1
    BY <1>1, <1>5, Appended
  <2>2. \A i \in 1..n : i = n \/ i \in 1..(n - 1)
    BY <1>1
  <2> QED
    BY <2>1, <2>2
<1> HIDE DEF ack
<1>7. CASE n < 3
  <2>1. got' = ack /\ n' = n + 1 /\ pc' = "ack"
    BY <1>1, <1>2, <1>7 DEF ack
  <2>2. n' - 1 = n /\ 8 + n' = k + 1
    BY <1>1, <1>4, <2>1
  <2> QED
    BY <1>5, <1>6, <2>1, <2>2 DEF LostAck, Lost
<1>8. CASE n = 3
  <2>1. ack[1] = 1 /\ ack[2] = 1 /\ ack[3] = 1
    BY <1>6, <1>8
  <2>2. ack # <<1, 0, 0>> /\ ack # <<0, 1, 0>> /\ ack # <<0, 0, 1>>
    BY <2>1
  <2>3. ReadAck(ack)
    BY <1>2, <1>8 DEF ack
  <2> QED
    BY <2>2, <2>3, AckIs, NoAck
<1> QED
  BY <1>1, <1>7, <1>8

(* The port is at its next bit. *)
LEMMA SendsOn ==
  ASSUME PortOK, NEW l \in Nat, Len(heard) = l,
         \/ t = "ack" /\ l < 2 /\ SendsAck
         \/ t = "read" /\ l < WordBits /\ SendsWord
  PROVE  t' = t /\ Len(heard') = l + 1
<1>1. t' = t /\ heard' = Append(heard, PortBit)
  BY DEF SendsAck, SendsWord
<1>2. PortBit \in Bit
  <2>1. CASE t = "ack"
    <3>1. PortBit = AckBits[answer][l + 1] /\ l + 1 \in 1..3
      BY <2>1 DEF PortBit
    <3> QED
      BY <3>1, AckIs DEF PortOK
  <2>2. CASE t = "read"
    <3>1. PortBit = word[l + 1] /\ l + 1 \in 1..WordBits
      BY <2>2, WireAssumption DEF PortBit
    <3> QED
      BY <3>1 DEF PortOK
  <2> QED
    BY <2>1, <2>2
<1>3. heard \in Seq(Bit)
  BY DEF PortOK
<1> QED
  BY <1>1, <1>2, <1>3, Appended

(* Where the three answers lead this port. *)
LEMMA AckSent ==
  ASSUME PortOK, PortOfDriver, t = "ack", Len(heard) = 2, SendsAck
  PROVE  /\ answer # "OK" => t' = "idle"
         /\ answer = "OK" /\ treq.rn = 0 => t' = "toWrite"
         /\ answer = "OK" /\ treq.rn = 1 => t' = "toRead"
<1>1. ~(Len(heard) < 2)
  OBVIOUS
<1>2. t' = CASE answer # "OK" -> IF RefusalTrn = 1 THEN "turn" ELSE "idle"
             [] answer = "OK" /\ treq.rn = 0 -> "toWrite"
             [] OTHER -> IF ReadTrn = 1 THEN "toRead" ELSE "read"
  BY <1>1 DEF SendsAck, PortGoes
<1>3. RefusalTrn # 1 /\ ReadTrn = 1
  BY DEF PortOfDriver
<1>4. answer # "OK" => t' = "idle"
  BY <1>2, <1>3
<1>5. answer = "OK" /\ treq.rn = 0 => t' = "toWrite"
  BY <1>2
<1>6. ASSUME answer = "OK", treq.rn = 1 PROVE t' = "toRead"
  <2>1. treq.rn # 0
    BY <1>6
  <2> QED
    BY <1>2, <1>3, <1>6, <2>1
<1> QED
  BY <1>4, <1>5, <1>6

(* Both ends go on with the same answer, or the access fails. *)
LEMMA AckGoes ==
  ASSUME Typed, PortOfDriver, ResetLongEnough, InAck, ReadAckBit
  PROVE  InAck' \/ AtStart' \/ Data' \/ ~trusted'
<1>1. /\ PortOK /\ pc = "ack" /\ n <= 3 /\ n \in Nat \ {0} /\ t = "ack" /\ Len(heard) = n - 1
      /\ treq = req /\ req \in Request /\ got \in Seq(Bit) /\ Len(got) = n - 1
      /\ Near(got, AckBits[answer], n - 1, noise)
      /\ ones <= WordBits + 11 /\ ones \in Nat /\ WordBits \in Nat /\ ResetOnes \in Nat
      /\ answer \in {"OK", "WAIT", "FAULT"} /\ UNCHANGED req
  BY WireAssumption DEF InAck, Typed, HostOK, PortOK, ReadAckBit
<1>2. PICK bit \in Bit :
        /\ Cycle(Z, bit)
        /\ IF n < 3
           THEN got' = Append(got, bit) /\ n' = n + 1 /\ UNCHANGED <<pc, attempt, rc, out, failures, clean>>
           ELSE got' = <<>> /\ ReadAck(Append(got, bit))
  BY DEF ReadAckBit
<1>3. ones + 1 < ResetOnes
  BY <1>1 DEF ResetLongEnough
<1>4. PortMoves(bit) /\ ones' = 0
  BY <1>1, <1>2, <1>3, Clocked DEF PortDrives
<1>5. SendsAck /\ UNCHANGED <<treq, answer>>
  BY <1>1, <1>4, Moves DEF Rest
<1>6. PICK l \in 0..2 : l = n - 1
  BY <1>1
<1>7. Carries(AckBits[answer][l + 1], bit)
  BY <1>1, <1>2, <1>6, WireIs, Carried
<1> DEFINE ack == Append(got, bit)
<1>8. ack \in Seq(Bit) /\ Len(ack) = l + 1 /\ Near(ack, AckBits[answer], l + 1, noise')
  <2>1. l \in Nat /\ Len(got) = l /\ Near(got, AckBits[answer], l, noise)
    BY <1>1, <1>6
  <2> QED
    BY <1>1, <1>7, <2>1, Appended, NearGrows
<1> HIDE DEF ack
<1>9. CASE n < 3
  <2>1. got' = ack /\ n' = n + 1 /\ pc' = "ack"
    BY <1>1, <1>2, <1>9 DEF ack
  <2>2. l < 2 /\ n' - 1 = l + 1
    BY <1>1, <1>6, <1>9, <2>1
  <2>3. t' = "ack" /\ Len(heard') = l + 1
    BY <1>1, <1>5, <1>6, <2>2, SendsOn
  <2>4. ones' <= WordBits + 11
    BY <1>1, <1>4
  <2> QED
    BY <1>1, <1>5, <1>8, <2>1, <2>2, <2>3, <2>4 DEF InAck
<1>10. CASE n = 3
  <2>1. l + 1 = 3 /\ Len(heard) = 2
    BY <1>1, <1>6, <1>10
  <2>2. ReadAck(ack)
    BY <1>2, <1>10 DEF ack
  <2>3. CASE OneOff(ack, AckBits[answer], 3)
    BY <1>1, <1>8, <2>1, <2>2, <2>3, AcksApart, NoAck
  <2>4. CASE Agree(ack, AckBits[answer], 3)
    <3>1. ack = AckBits[answer]
      BY <1>1, <1>8, <2>1, <2>4, AckAgrees
    <3>2. /\ AckBits["OK"] # AckBits["WAIT"] /\ AckBits["OK"] # AckBits["FAULT"]
          /\ AckBits["WAIT"] # AckBits["FAULT"]
      BY AckIs
    <3>3. CASE answer = "FAULT"
      <4>1. Return("EIO")
        BY <2>2, <3>1, <3>2, <3>3 DEF ReadAck
      <4> QED
        BY <4>1, Failed
    <3>4. CASE answer = "WAIT"
      <4>1. Retry /\ t' = "idle"
        BY <1>1, <1>5, <2>1, <2>2, <3>1, <3>4, AckSent DEF ReadAck
      <4>2. CASE Return("ETIMEDOUT")
        BY <4>2, Failed
      <4>3. CASE Goto("request")
        <5>1. ones' <= WordBits + 2
          BY <1>1, <1>4
        <5> QED
          BY <4>1, <4>3, <5>1 DEF Goto, AtStart
      <4> QED
        BY <4>1, <4>2, <4>3 DEF Retry
    <3>5. CASE answer = "OK"
      <4>1. Goto(IF req.rn = 1 THEN "trnRead" ELSE "trnWrite")
        BY <2>2, <3>1, <3>2, <3>5 DEF ReadAck
      <4>2. treq' = req'
        BY <1>1, <1>5
      <4>3. CASE req.rn = 1
        <5>1. t' = "toRead" /\ pc' = "trnRead"
          BY <1>1, <1>5, <2>1, <3>5, <4>1, <4>3, AckSent DEF Goto
        <5> QED
          BY <1>4, <4>2, <5>1 DEF Data, ReadTurn
      <4>4. CASE req.rn = 0
        <5>1. t' = "toWrite" /\ pc' = "trnWrite"
          BY <1>1, <1>5, <2>1, <3>5, <4>1, <4>4, AckSent DEF Goto
        <5> QED
          BY <1>4, <4>2, <5>1 DEF Data, WriteTurn
      <4> QED
        BY <1>1, <4>3, <4>4 DEF Request, Bit
    <3> QED
      BY <1>1, <3>3, <3>4, <3>5
  <2> QED
    BY <1>8, <2>1, <2>3, <2>4 DEF Near
<1> QED
  BY <1>1, <1>9, <1>10

-------------------------------------------------------------------------------
(* The word *)

(* The word and its parity as they are sent. *)
LEMMA SentIs ==
  ASSUME NEW w \in [1..WordBits -> Bit]
  PROVE  /\ \A i \in 1..WordBits : Sent(w)[i] = w[i]
         /\ Sent(w)[WordBits + 1] = ParityOf(w)
<1>1. WordBits \in Nat
  BY WireAssumption
<1>2. WordBits + 1 \in 1..(WordBits + 1) /\ ~(WordBits + 1 <= WordBits)
      /\ \A i \in 1..WordBits : i \in 1..(WordBits + 1) /\ i <= WordBits
  BY <1>1
<1> QED
  BY <1>2 DEF Sent

(* The turnaround before read data. *)
LEMMA ReadTurnGoes ==
  ASSUME Typed, ResetLongEnough, ReadTurn, treq = req, swd_turnaround("trnRead", Z, "rdata")
  PROVE  Data'
<1>1. /\ PortOK /\ t = "toRead" /\ ones = 0 /\ WordBits \in Nat /\ ResetOnes \in Nat
      /\ pc' = "rdata" /\ n' = 1 /\ req' = req
  BY WireAssumption DEF ReadTurn, Typed, swd_turnaround, Goto
<1>2. PICK bit \in Bit : Cycle(Z, bit)
  BY DEF swd_turnaround
<1>3. ones + 1 < ResetOnes
  BY <1>1 DEF ResetLongEnough
<1>4. PortMoves(bit) /\ ones' <= ones + 1
  BY <1>1, <1>2, <1>3, Clocked
<1>5. t' = "read" /\ heard' = <<>> /\ treq' = treq
  BY <1>1, <1>4, Moves DEF PortGoes, Rest
<1>6. Len(heard') = n' - 1 /\ ones' <= 1
  BY <1>1, <1>4, <1>5, Empty
<1>7. Near(got', Sent(word'), n' - 1, noise')
  BY <1>1 DEF Near, Agree
<1> QED
  BY <1>1, <1>5, <1>6, <1>7 DEF Data, InRead

(* The driver reads the word that the port sends but for one bit. *)
LEMMA ReadGoes ==
  ASSUME Typed, ResetLongEnough, InRead, treq = req, ReadDataBit
  PROVE  Data'
<1>1. /\ PortOK /\ pc = "rdata" /\ n <= WordBits + 1 /\ n \in Nat \ {0} /\ t = "read"
      /\ Len(heard) = n - 1 /\ got \in Seq(Bit) /\ Len(got) = n - 1
      /\ Near(got, Sent(word), n - 1, noise) /\ ones <= 1
      /\ ones \in Nat /\ WordBits \in Nat \ {0} /\ ResetOnes \in Nat
      /\ word \in [1..WordBits -> Bit] /\ UNCHANGED req
  BY WireAssumption DEF InRead, Typed, HostOK, PortOK, ReadDataBit
<1>2. PICK bit \in Bit : Cycle(Z, bit) /\ got' = Append(got, bit)
  BY DEF ReadDataBit
<1>3. NextBit(WordBits + 1, "trnBack")
  BY DEF ReadDataBit
<1>4. ones + 1 < ResetOnes
  BY <1>1 DEF ResetLongEnough
<1>5. PortMoves(bit) /\ ones' = 0
  BY <1>1, <1>2, <1>4, Clocked DEF PortDrives
<1>6. SendsWord /\ UNCHANGED <<treq, word>>
  BY <1>1, <1>5, Moves DEF Rest
<1>7. PICK l \in 0..WordBits : l = n - 1
  BY <1>1
<1>8. Wire(Z) = Sent(word)[l + 1]
  <2>1. Len(heard) = l
    BY <1>1, <1>7
  <2>2. CASE l < WordBits
    <3>1. l + 1 \in 1..WordBits
      BY <1>1, <2>2
    <3> QED
      BY <1>1, <2>1, <2>2, <3>1, SentIs, WireIs
  <2>3. CASE l = WordBits
    BY <1>1, <2>1, <2>3, SentIs, WireIs
  <2> QED
    BY <1>1, <2>2, <2>3
<1>9. Near(got', Sent(word), l + 1, noise')
  <2>1. l \in Nat /\ Len(got) = l /\ Near(got, Sent(word), l, noise)
    BY <1>1, <1>7
  <2>2. Carries(Sent(word)[l + 1], bit)
    BY <1>2, <1>8, Carried
  <2> QED
    BY <1>1, <1>2, <2>1, <2>2, NearGrows
<1>10. CASE l < WordBits
  <2>1. n' = n + 1 /\ pc' = "rdata"
    BY <1>1, <1>3, <1>7, <1>10 DEF NextBit
  <2>2. n' - 1 = l + 1 /\ Len(heard) = l
    BY <1>1, <1>7, <2>1
  <2>3. t' = "read" /\ Len(heard') = l + 1
    BY <1>1, <1>6, <1>10, <2>2, SendsOn
  <2>4. ones' <= 1
    BY <1>5
  <2> QED
    BY <1>1, <1>6, <1>9, <2>1, <2>2, <2>3, <2>4 DEF Data, InRead
<1>11. CASE l = WordBits
  <2>1. pc' = "trnBack" /\ ones' <= 1
    BY <1>1, <1>3, <1>5, <1>7, <1>11 DEF NextBit
  <2>2. t' = "turn"
    <3>1. ~(Len(heard) < WordBits)
      BY <1>1, <1>7, <1>11
    <3> QED
      BY <1>6, <3>1 DEF SendsWord, PortGoes
  <2> QED
    BY <1>1, <1>6, <1>9, <1>11, <2>1, <2>2 DEF Data, ReadBack
<1> QED
  BY <1>1, <1>10, <1>11

(* The parity is that of the word that was sent, and misread or not, only  *)
(* if the word is the one that was sent.                                   *)
LEMMA ParityTells ==
  ASSUME NEW w \in [1..WordBits -> Bit], NEW d \in [1..WordBits -> Bit], NEW f, NEW misread,
         Near(f, Sent(w), WordBits + 1, misread), Agree(d, f, WordBits),
         ParityOf(d) = f[WordBits + 1]
  PROVE  d = w
<1>1. WordBits \in Nat
  BY WireAssumption
<1>2. /\ \A i \in 1..WordBits : i \in 1..(WordBits + 1) /\ i # WordBits + 1
      /\ WordBits + 1 \in 1..(WordBits + 1)
      /\ \A i \in 1..(WordBits + 1) : i \in 1..WordBits \/ i = WordBits + 1
  BY <1>1
<1>3. \A i \in 1..WordBits : d[i] = f[i]
  BY DEF Agree
<1>4. CASE Agree(f, Sent(w), WordBits + 1)
  <2>1. Agree(d, w, WordBits)
    BY <1>2, <1>3, <1>4, SentIs DEF Agree
  <2> QED
    BY <1>1, <2>1, AllAgree
<1>5. CASE OneOff(f, Sent(w), WordBits + 1)
  <2>1. PICK j \in 1..(WordBits + 1) :
          f[j] # Sent(w)[j] /\ \A i \in 1..(WordBits + 1) : i # j => f[i] = Sent(w)[i]
    BY <1>5 DEF OneOff
  <2>2. CASE j \in 1..WordBits
    <3>1. OneOff(d, w, WordBits)
      BY <1>2, <1>3, <2>1, <2>2, SentIs DEF OneOff
    <3>2. ParityOf(d) # ParityOf(w)
      BY <1>1, <3>1, ParityFlips
    <3>3. f[WordBits + 1] = ParityOf(w)
      BY <1>2, <2>1, <2>2, SentIs
    <3> QED
      BY <3>2, <3>3
  <2>3. CASE j = WordBits + 1
    <3>1. Agree(d, w, WordBits)
      BY <1>2, <1>3, <2>1, <2>3, SentIs DEF Agree
    <3>2. d = w
      BY <1>1, <3>1, AllAgree
    <3> QED
      BY <3>2
  <2> QED
    BY <1>2, <2>2, <2>3
<1> QED
  BY <1>4, <1>5 DEF Near

(* A read that returns 0 has the word of the port. *)
LEMMA BackGoes ==
  ASSUME Typed, Typed', ResetLongEnough, ReadBack, treq = req, TurnBack
  PROVE  Returned' \/ ~trusted'
<1>1. /\ PortOK /\ t = "turn" /\ ones <= 1 /\ ones \in Nat /\ WordBits \in Nat \ {0}
      /\ ResetOnes \in Nat /\ word \in [1..WordBits -> Bit] /\ data' \in [1..WordBits -> Bit]
      /\ Near(got, Sent(word), WordBits + 1, noise) /\ UNCHANGED req /\ req.rn = 1
  BY WireAssumption DEF ReadBack, Typed, HostOK, PortOK, TurnBack, TakeWord
<1>2. PICK bit \in Bit : Cycle(0, bit)
  BY DEF TurnBack
<1>3. ones + 1 < ResetOnes
  BY <1>1 DEF ResetLongEnough
<1>4. PortMoves(bit) /\ ones' \in Nat /\ ones' <= ones + 1
  BY <1>1, <1>2, <1>3, Clocked
<1>5. t' = "idle" /\ UNCHANGED <<treq, word>>
  BY <1>1, <1>4, Moves DEF PortGoes, Rest
<1>6. ones' <= WordBits + 2
  BY <1>1, <1>4
<1>7. Return(ReadResult) /\ pc' = "returned"
  BY DEF TurnBack, TakeWord, Return, Goto
<1>8. CASE ParityOf(data') = got[WordBits + 1]
  <2>1. Agree(data', got, WordBits)
    BY TurnBackTyped DEF Agree, Typed
  <2>2. PICK d \in [1..WordBits -> Bit] : d = data'
    BY <1>1
  <2>3. d = word
    <3>1. Agree(d, got, WordBits) /\ ParityOf(d) = got[WordBits + 1]
      BY <1>8, <2>1, <2>2
    <3> QED
      BY <1>1, <3>1, ParityTells
  <2>4. OkIsTrue'
    BY <1>1, <1>5, <2>2, <2>3 DEF OkIsTrue
  <2> QED
    BY <1>5, <1>6, <1>7, <2>4 DEF Returned
<1>9. CASE ParityOf(data') # got[WordBits + 1]
  <2>1. ReadResult = "EBADMSG"
    BY <1>9 DEF ReadResult
  <2>2. Return("EBADMSG")
    BY <1>7, <2>1
  <2> QED
    BY <2>2, Failed
<1> QED
  BY <1>8, <1>9

(* The turnaround before write data. *)
LEMMA WriteTurnGoes ==
  ASSUME Typed, ResetLongEnough, WriteTurn, treq = req, swd_turnaround("trnWrite", 0, "wdata")
  PROVE  Data'
<1>1. /\ PortOK /\ t = "toWrite" /\ ones = 0 /\ WordBits \in Nat /\ ResetOnes \in Nat
      /\ pc' = "wdata" /\ n' = 1 /\ req' = req
  BY WireAssumption DEF WriteTurn, Typed, swd_turnaround, Goto
<1>2. PICK bit \in Bit : Cycle(0, bit)
  BY DEF swd_turnaround
<1>3. ones + 1 < ResetOnes
  BY <1>1 DEF ResetLongEnough
<1>4. PortMoves(bit) /\ ones' <= ones + 1
  BY <1>1, <1>2, <1>3, Clocked
<1>5. t' = "write" /\ heard' = <<>> /\ treq' = treq
  BY <1>1, <1>4, Moves DEF PortGoes, Rest
<1>6. Len(heard') = n' - 1 /\ ones' <= n'
  BY <1>1, <1>4, <1>5, Empty
<1>7. Near(heard', data', n' - 1, noise')
  BY <1>1 DEF Near, Agree
<1> QED
  BY <1>1, <1>5, <1>6, <1>7 DEF Data, InWrite

(* A write that returns 0 is taken, or dropped with a sticky error. *)
LEMMA WriteGoes ==
  ASSUME Typed, ResetLongEnough, InWrite, treq = req, WriteDataBit
  PROVE  Data' \/ Returned'
<1>1. /\ PortOK /\ pc = "wdata" /\ n <= WordBits + 1 /\ n \in Nat \ {0} /\ t = "write"
      /\ Len(heard) = n - 1 /\ heard \in Seq(Bit) /\ Near(heard, data, n - 1, noise) /\ ones <= n
      /\ ones \in Nat /\ WordBits \in Nat \ {0} /\ ResetOnes \in Nat
      /\ data \in [1..WordBits -> Bit] /\ UNCHANGED <<req, data>> /\ req.rn = 0
  BY WireAssumption DEF InWrite, Typed, HostOK, PortOK, WriteDataBit
<1> DEFINE sent == IF n <= WordBits THEN data[n] ELSE ParityOf(data)
<1>2. PICK bit \in Bit : Cycle(sent, bit)
  BY DEF WriteDataBit
<1>3. IF n <= WordBits THEN n' = n + 1 /\ UNCHANGED <<pc, rc, failures, clean>> ELSE Return("ok")
  BY DEF WriteDataBit
<1>4. ones + 1 < ResetOnes
  BY <1>1 DEF ResetLongEnough
<1>5. PortMoves(bit) /\ ones' \in Nat /\ ones' <= ones + 1
  BY <1>1, <1>2, <1>4, Clocked
<1>6. HearsWord(bit) /\ UNCHANGED treq
  BY <1>1, <1>5, Moves
<1>7. PICK l \in 0..WordBits : l = n - 1
  BY <1>1
<1>8. ParityOf(data) \in Bit
  BY <1>1, ParityTyped
<1>9. CASE l < WordBits
  <2>1. l + 1 \in 1..WordBits /\ n = l + 1 /\ l \in Nat /\ Len(heard) = l /\ n <= WordBits
    BY <1>1, <1>7, <1>9
  <2>2. sent = data[l + 1] /\ data[l + 1] \in Bit
    BY <1>1, <2>1
  <2>3. Carries(data[l + 1], bit)
    BY <1>1, <1>2, <2>2, WireIs, Carried
  <2>4. Near(Append(heard, bit), data, l + 1, noise')
    <3>1. Near(heard, data, l, noise)
      BY <1>1, <1>7
    <3> QED
      BY <1>1, <2>1, <2>3, <3>1, NearGrows
  <2>5. t' = "write" /\ heard' = Append(heard, bit)
    BY <1>1, <1>6, <1>9, <2>1 DEF HearsWord
  <2>6. Len(heard') = l + 1
    BY <1>1, <2>1, <2>5, Appended
  <2>7. pc' = "wdata" /\ n' = n + 1 /\ n' - 1 = l + 1
    BY <1>1, <1>3, <2>1
  <2>8. ones' <= n'
    BY <1>1, <1>5, <2>7
  <2>9. Near(heard', data', n' - 1, noise')
    BY <1>1, <2>4, <2>5, <2>7
  <2>10. Len(heard') = n' - 1 /\ treq' = req'
    BY <1>1, <1>6, <2>6, <2>7
  <2> QED
    BY <2>5, <2>7, <2>8, <2>9, <2>10 DEF Data, InWrite
<1>10. CASE l = WordBits
  <2>1. ~(n <= WordBits) /\ Len(heard) = WordBits /\ n = WordBits + 1
    BY <1>1, <1>7, <1>10
  <2>2. sent = ParityOf(data)
    BY <2>1
  <2>3. Carries(ParityOf(data), bit)
    BY <1>1, <1>2, <1>8, <2>2, WireIs, Carried
  <2>4. Near(heard, data, WordBits, noise) /\ heard \in [1..WordBits -> Bit]
    BY <1>1, <1>7, <1>10, <2>1, SeqAsBits
  <2>5. /\ t' = "idle"
        /\ IF ParityOf(heard) = bit THEN taken' = <<treq, heard>> /\ UNCHANGED sticky
                                    ELSE sticky' = TRUE /\ taken' = <<>>
    <3>1. ~(Len(heard) < WordBits)
      BY <1>1, <2>1
    <3> QED
      BY <1>6, <3>1 DEF HearsWord, PortGoes
  <2>6. taken' = <<req, data>> \/ (sticky' = TRUE /\ noise' = TRUE)
    <3>1. CASE Agree(heard, data, WordBits)
      <4>1. heard = data
        BY <1>1, <2>4, <3>1, AllAgree
      <4>2. CASE bit = ParityOf(data)
        BY <1>1, <2>5, <4>1, <4>2
      <4>3. CASE bit # ParityOf(data)
        BY <2>3, <2>5, <4>1, <4>3 DEF Carries
      <4> QED
        BY <4>2, <4>3
    <3>2. CASE noise = TRUE /\ OneOff(heard, data, WordBits)
      <4>1. ParityOf(heard) # ParityOf(data)
        BY <1>1, <2>4, <3>2, ParityFlips
      <4>2. bit = ParityOf(data) /\ noise' = TRUE
        BY <2>3, <3>2 DEF Carries
      <4> QED
        BY <2>5, <4>1, <4>2
    <3> QED
      BY <2>4, <3>1, <3>2 DEF Near
  <2>7. pc' = "returned"
    BY <1>3, <2>1 DEF Return, Goto
  <2>8. ones' <= WordBits + 2
    BY <1>1, <1>5, <2>1
  <2>9. OkIsTrue'
    <3>1. treq' = req' /\ req'.rn # 1 /\ req' = req /\ data' = data
      BY <1>1, <1>6
    <3> QED
      BY <2>6, <3>1 DEF OkIsTrue
  <2> QED
    BY <2>5, <2>7, <2>8, <2>9 DEF Returned
<1> QED
  BY <1>1, <1>9, <1>10

-------------------------------------------------------------------------------
(* No step in between takes host and port apart *)

(* Trust is not gained but by a line reset. *)
LEMMA WasTrusted ==
  ASSUME Typed, InAccess \/ pc = "returned", UNCHANGED <<rc, clean>>, failures' = 0 => failures = 0
  PROVE  trusted' => trusted
<1>1. ~Resetting
  BY DEF InAccess, Resetting, ResetPhases
<1> QED
  BY <1>1 DEF trusted

(* An access begins where the last one has left the port. *)
LEMMA AccessKept ==
  ASSUME Typed, TrustInv, NEW r \in Requests, NEW w \in Words, Access(r, w)
  PROVE  TrustInv'
<1>1. /\ pc = "returned" /\ pc' = "request" /\ n' = 1 /\ UNCHANGED <<rc, failures, clean>>
      /\ t' = t /\ ones' = ones
  BY DEF Access, Goto, port
<1>2. trusted' => trusted
  BY <1>1, WasTrusted
<1>3. ~Early /\ ~Data
  BY <1>1 DEF Early, AtStart, InRequest, AtTurn, InAck, LostRequest, LostTurn, LostAck,
              Data, ReadTurn, InRead, ReadBack, WriteTurn, InWrite
<1>4. Returned => AtStart'
  BY <1>1 DEF Returned, AtStart
<1> QED
  BY <1>2, <1>3, <1>4 DEF TrustInv, Early

(* Not in an access either. *)
LEMMA WasTrustedBefore ==
  ASSUME Typed, InAccess, clean' = clean, failures' = failures \/ failures' = failures + 1
  PROVE  trusted' => trusted
<1>1. ~Resetting /\ rc # "reset" /\ failures \in Nat
  BY DEF Typed, HostOK, InAccess, Resetting, ResetPhases
<1>2. failures' = 0 => failures = 0
  BY <1>1
<1> QED
  BY <1>1, <1>2 DEF trusted

(* The phase of the driver tells where both are. *)
LEMMA PhaseKept ==
  ASSUME Typed, TrustInv, trusted
  PROVE  /\ pc = "request" => AtStart \/ InRequest \/ LostRequest
         /\ pc = "trnAck" => AtTurn \/ LostTurn
         /\ pc = "ack" => InAck \/ LostAck
         /\ pc = "trnRead" => ReadTurn /\ treq = req
         /\ pc = "rdata" => InRead /\ treq = req
         /\ pc = "trnBack" => ReadBack /\ treq = req
         /\ pc = "trnWrite" => WriteTurn /\ treq = req
         /\ pc = "wdata" => InWrite /\ treq = req
         /\ pc = "returned" => Returned
BY DEF TrustInv, Returned, Early, AtStart, InRequest, AtTurn, InAck, LostRequest, LostTurn, LostAck,
       Data, ReadTurn, InRead, ReadBack, WriteTurn, InWrite

(* Every cycle of an access, and a pin that fails. *)
LEMMA TransactionKept ==
  ASSUME Typed, Typed', PortOfDriver, ResetLongEnough, TrustInv, swd_transaction
  PROVE  TrustInv'
<1>1. CASE SendRequestBit
  <2>1. pc = "request" /\ InAccess /\ UNCHANGED <<failures, clean>>
    BY <1>1 DEF SendRequestBit, InAccess
  <2>2. trusted' => trusted
    BY <2>1, WasTrustedBefore
  <2> QED
    BY <1>1, <2>1, <2>2, PhaseKept, StartGoes, RequestGoes, LostRequestGoes DEF TrustInv, Early
<1>2. CASE ReadAckBit
  <2>1. pc = "ack" /\ InAccess
    BY <1>2 DEF ReadAckBit, InAccess
  <2>2. clean' = clean /\ (failures' = failures \/ failures' = failures + 1)
    BY <1>2 DEF ReadAckBit, ReadAck, Retry, Return
  <2>3. trusted' => trusted
    BY <2>1, <2>2, WasTrustedBefore
  <2> QED
    BY <1>2, <2>1, <2>3, PhaseKept, AckGoes, LostAckGoes DEF TrustInv, Early
<1>3. CASE ReadDataBit
  <2>1. pc = "rdata" /\ InAccess /\ UNCHANGED <<failures, clean>>
    BY <1>3 DEF ReadDataBit, InAccess
  <2>2. trusted' => trusted
    BY <2>1, WasTrustedBefore
  <2> QED
    BY <1>3, <2>1, <2>2, PhaseKept, ReadGoes DEF TrustInv
<1>4. CASE TurnBack
  <2>1. pc = "trnBack" /\ InAccess
    BY <1>4 DEF TurnBack, InAccess
  <2>2. clean' = clean /\ (failures' = failures \/ failures' = failures + 1)
    BY <1>4 DEF TurnBack, TakeWord, Return
  <2>3. trusted' => trusted
    BY <2>1, <2>2, WasTrustedBefore
  <2> QED
    BY <1>4, <2>1, <2>3, PhaseKept, BackGoes DEF TrustInv
<1>5. CASE WriteDataBit
  <2>1. pc = "wdata" /\ InAccess
    BY <1>5 DEF WriteDataBit, InAccess
  <2>2. clean' = clean /\ (failures' = failures \/ failures' = failures + 1)
    BY <1>5 DEF WriteDataBit, Return
  <2>3. trusted' => trusted
    BY <2>1, <2>2, WasTrustedBefore
  <2> QED
    BY <1>5, <2>1, <2>3, PhaseKept, WriteGoes DEF TrustInv
<1>6. CASE DirectionFails
  <2>1. ~trusted'
    BY <1>6, Failed DEF DirectionFails
  <2> QED
    BY <2>1 DEF TrustInv
<1>7. CASE swd_turnaround("trnAck", Z, "ack")
  <2>1. pc = "trnAck" /\ InAccess /\ UNCHANGED <<failures, clean>>
    BY <1>7 DEF swd_turnaround, InAccess
  <2>2. trusted' => trusted
    BY <2>1, WasTrustedBefore
  <2> QED
    BY <1>7, <2>1, <2>2, PhaseKept, TurnGoes, LostTurnGoes DEF TrustInv, Early
<1>8. CASE swd_turnaround("trnRead", Z, "rdata")
  <2>1. pc = "trnRead" /\ InAccess /\ UNCHANGED <<failures, clean>>
    BY <1>8 DEF swd_turnaround, InAccess
  <2>2. trusted' => trusted
    BY <2>1, WasTrustedBefore
  <2> QED
    BY <1>8, <2>1, <2>2, PhaseKept, ReadTurnGoes DEF TrustInv
<1>9. CASE swd_turnaround("trnWrite", 0, "wdata")
  <2>1. pc = "trnWrite" /\ InAccess /\ UNCHANGED <<failures, clean>>
    BY <1>9 DEF swd_turnaround, InAccess
  <2>2. trusted' => trusted
    BY <2>1, WasTrustedBefore
  <2> QED
    BY <1>9, <2>1, <2>2, PhaseKept, WriteTurnGoes DEF TrustInv
<1> QED
  BY <1>1, <1>2, <1>3, <1>4, <1>5, <1>6, <1>7, <1>8, <1>9 DEF swd_transaction

-------------------------------------------------------------------------------
(* The line reset *)

(* In c more cycles of ones the port is through with whatever it was at,   *)
(* and deaf.                                                               *)
Finishes(c) ==
  \/ t = "deaf"
  \/ t = "request" /\ IF Len(heard) = 6 /\ heard[6] = 0 THEN WordBits + 16 <= c
                                                        ELSE 7 <= c + Len(heard)
  \/ t = "idle" /\ 8 <= c
  \/ t = "turn" /\ 9 <= c
  \/ t = "write" /\ WordBits + 9 <= c + Len(heard)
  \/ t = "toWrite" /\ WordBits + 10 <= c
  \/ t = "read" /\ WordBits + 10 <= c + Len(heard)
  \/ t = "toRead" /\ WordBits + 11 <= c
  \/ t = "ack" /\ WordBits + 14 <= c + Len(heard)
  \/ t = "toAck" /\ WordBits + 15 <= c

(* A port that has started anew. *)
Restarted == t = "idle" /\ ones = ResetOnes

(* Lengths are numbers. *)
LEMMA HeardTyped ==
  ASSUME PortOK
  PROVE  Len(heard) \in Nat
BY DEF PortOK

(* Each cycle brings it nearer to that end, whatever phase it is in. *)
LEMMA FinishesGoes ==
  ASSUME PortOK, PortOfDriver, NEW c \in Int, Finishes(c), PortMoves(1)
  PROVE  Finishes(c - 1)'
<1>1. PICK l \in Nat : l = Len(heard)
  BY HeardTyped
<1>2. WordBits \in Nat \ {0} /\ 1 \in Bit /\ heard \in Seq(Bit)
  BY WireAssumption DEF Bit, PortOK
<1>3. Len(<<>>) = 0
  BY Empty
<1>4. CASE t = "deaf"
  <2>1. t' = "deaf"
    BY <1>2, <1>4, Moves DEF PortGoes
  <2> QED
    BY <2>1 DEF Finishes
<1>5. CASE t = "idle" /\ 8 <= c
  <2>1. t' = "request" /\ Len(heard') = 0
    BY <1>2, <1>3, <1>5, Moves DEF PortGoes
  <2>2. 7 <= c - 1 + 0
    BY <1>5
  <2> QED
    BY <2>1, <2>2 DEF Finishes
<1>6. CASE t = "turn" /\ 9 <= c
  <2>1. t' = "idle" /\ 8 <= c - 1
    BY <1>2, <1>6, Moves DEF PortGoes
  <2> QED
    BY <2>1 DEF Finishes
<1>7. CASE t = "toWrite" /\ WordBits + 10 <= c
  <2>1. t' = "write" /\ Len(heard') = 0
    BY <1>2, <1>3, <1>7, Moves DEF PortGoes
  <2>2. WordBits + 9 <= c - 1 + 0
    BY <1>2, <1>7
  <2> QED
    BY <2>1, <2>2 DEF Finishes
<1>8. CASE t = "toRead" /\ WordBits + 11 <= c
  <2>1. t' = "read" /\ Len(heard') = 0
    BY <1>2, <1>3, <1>8, Moves DEF PortGoes
  <2>2. WordBits + 10 <= c - 1 + 0
    BY <1>2, <1>8
  <2> QED
    BY <2>1, <2>2 DEF Finishes
<1>9. CASE t = "toAck" /\ WordBits + 15 <= c
  <2>1. t' = "ack" /\ Len(heard') = 0
    BY <1>2, <1>3, <1>9, Moves DEF PortGoes
  <2>2. WordBits + 14 <= c - 1 + 0
    BY <1>2, <1>9
  <2> QED
    BY <2>1, <2>2 DEF Finishes
<1>10. CASE t = "write" /\ WordBits + 9 <= c + Len(heard)
  <2>1. HearsWord(1) /\ WordBits + 9 <= c + l
    BY <1>1, <1>2, <1>10, Moves
  <2>2. CASE l < WordBits
    <3>1. t' = "write" /\ Len(heard') = l + 1
      BY <1>1, <1>2, <1>10, <2>1, <2>2, Appended DEF HearsWord
    <3>2. WordBits + 9 <= c - 1 + (l + 1)
      BY <1>2, <2>1
    <3> QED
      BY <3>1, <3>2 DEF Finishes
  <2>3. CASE ~(l < WordBits)
    <3>1. t' = "idle"
      BY <1>1, <2>1, <2>3 DEF HearsWord, PortGoes
    <3>2. l <= WordBits
      BY <1>1, <1>10 DEF PortOK
    <3>3. 8 <= c - 1
      BY <1>2, <2>1, <3>2
    <3> QED
      BY <3>1, <3>3 DEF Finishes
  <2> QED
    BY <2>2, <2>3
<1>11. CASE t = "read" /\ WordBits + 10 <= c + Len(heard)
  <2>1. SendsWord /\ WordBits + 10 <= c + l
    BY <1>1, <1>2, <1>11, Moves
  <2>2. CASE l < WordBits
    <3>1. t' = "read" /\ Len(heard') = l + 1
      BY <1>1, <1>11, <2>1, <2>2, SendsOn
    <3>2. WordBits + 10 <= c - 1 + (l + 1)
      BY <1>2, <2>1
    <3> QED
      BY <3>1, <3>2 DEF Finishes
  <2>3. CASE ~(l < WordBits)
    <3>1. t' = "turn"
      BY <1>1, <2>1, <2>3 DEF SendsWord, PortGoes
    <3>2. l <= WordBits
      BY <1>1, <1>11 DEF PortOK
    <3>3. 9 <= c - 1
      BY <1>2, <2>1, <3>2
    <3> QED
      BY <3>1, <3>3 DEF Finishes
  <2> QED
    BY <2>2, <2>3
<1>12. CASE t = "ack" /\ WordBits + 14 <= c + Len(heard)
  <2>1. SendsAck /\ WordBits + 14 <= c + l
    BY <1>1, <1>2, <1>12, Moves
  <2>2. l <= 2
    BY <1>1, <1>12 DEF PortOK
  <2>3. CASE l < 2
    <3>1. t' = "ack" /\ Len(heard') = l + 1
      BY <1>1, <1>12, <2>1, <2>3, SendsOn
    <3>2. WordBits + 14 <= c - 1 + (l + 1)
      BY <1>2, <2>1
    <3> QED
      BY <3>1, <3>2 DEF Finishes
  <2>4. CASE l = 2
    <3>1. treq.rn \in {0, 1} /\ answer \in {"OK", "WAIT", "FAULT"}
      BY DEF PortOK, Request, Bit
    <3>2. t' \in {"idle", "toWrite", "toRead"}
      BY <1>1, <1>12, <2>1, <2>4, <3>1, AckSent
    <3>3. 8 <= c - 1 /\ WordBits + 10 <= c - 1 /\ WordBits + 11 <= c - 1
      BY <1>2, <2>1, <2>4
    <3> QED
      BY <3>2, <3>3 DEF Finishes
  <2> QED
    BY <2>2, <2>3, <2>4
<1>13. CASE t = "request" /\ IF Len(heard) = 6 /\ heard[6] = 0 THEN WordBits + 16 <= c
                                                               ELSE 7 <= c + Len(heard)
  <2> DEFINE bits == Append(heard, 1)
  <2>1. HearsRequest(1) /\ l \in 0..6
    BY <1>1, <1>2, <1>13, Moves, HeardSoFar
  <2>2. Len(bits) = l + 1 /\ bits[l + 1] = 1 /\ \A i \in 1..l : bits[i] = heard[i]
    BY <1>1, <1>2, Appended
  <2> HIDE DEF bits
  <2>3. CASE l = 6
    <3>1. t' = "deaf" \/ (t' = "toAck" /\ Understood(bits))
      BY <2>1, <2>2, <2>3 DEF HearsRequest, PortGoes, bits
    <3>2. Understood(bits) => heard[6] = 0
      BY <2>2, <2>3 DEF Understood
    <3>3. heard[6] = 0 => WordBits + 15 <= c - 1
      BY <1>1, <1>2, <1>13, <2>3
    <3> QED
      BY <3>1, <3>2, <3>3 DEF Finishes
  <2>4. CASE l < 6
    <3>1. t' = "request" /\ heard' = bits
      BY <1>13, <2>1, <2>2, <2>4 DEF HearsRequest, bits
    <3>2. ~(Len(bits) = 6 /\ bits[6] = 0)
      BY <2>2
    <3>3. 7 <= c + l
      <4>1. Len(heard) # 6
        BY <1>1, <2>4
      <4>2. 7 <= c + Len(heard)
        BY <1>13, <4>1
      <4> QED
        BY <1>1, <4>2
    <3>4. 7 <= c - 1 + Len(bits)
      BY <2>2, <3>3
    <3> QED
      BY <3>1, <3>2, <3>4 DEF Finishes
  <2> QED
    BY <2>1, <2>3, <2>4
<1> QED
  BY <1>4, <1>5, <1>6, <1>7, <1>8, <1>9, <1>10, <1>11, <1>12, <1>13 DEF Finishes

(* The longest way is that from a request that may still be one. *)
LEMMA FinishesInTime ==
  ASSUME PortOK
  PROVE  Finishes(WordBits + 16)
<1>1. PICK l \in Nat : l = Len(heard)
  BY HeardTyped
<1>2. WordBits \in Nat \ {0}
  BY WireAssumption
<1>3. /\ 7 <= WordBits + 16 + l /\ 8 <= WordBits + 16 /\ 9 <= WordBits + 16
      /\ WordBits + 9 <= WordBits + 16 + l /\ WordBits + 10 <= WordBits + 16
      /\ WordBits + 10 <= WordBits + 16 + l /\ WordBits + 11 <= WordBits + 16
      /\ WordBits + 14 <= WordBits + 16 + l /\ WordBits + 15 <= WordBits + 16
      /\ WordBits + 16 <= WordBits + 16
  BY <1>2
<1>4. t \in {"idle", "request", "toAck", "ack", "toRead", "read", "toWrite", "write", "turn", "deaf"}
  BY DEF PortOK
<1> QED
  BY <1>1, <1>3, <1>4 DEF Finishes

(* After the last of these cycles it is deaf. *)
LEMMA FinishedIsDeaf ==
  ASSUME PortOK', NEW c \in Int, c <= 0, Finishes(c)'
  PROVE  t' = "deaf"
<1>1. PICK l : l = Len(heard')
  OBVIOUS
<1>2. l \in Nat
  BY <1>1 DEF PortOK
<1>3. WordBits \in Nat \ {0}
  BY WireAssumption
<1>4. /\ t' = "request" => l <= 6
      /\ t' = "ack" => l <= 2
      /\ t' \in {"read", "write"} => l <= WordBits
  BY <1>1 DEF PortOK
<1>5. ~(8 <= c) /\ ~(9 <= c) /\ ~(WordBits + 10 <= c) /\ ~(WordBits + 11 <= c)
      /\ ~(WordBits + 15 <= c) /\ ~(WordBits + 16 <= c)
  BY <1>3
<1>6. /\ l <= 6 => ~(7 <= c + l)
      /\ l <= WordBits => ~(WordBits + 9 <= c + l) /\ ~(WordBits + 10 <= c + l)
      /\ l <= 2 => ~(WordBits + 14 <= c + l)
  BY <1>2, <1>3
<1> QED
  BY <1>1, <1>4, <1>5, <1>6 DEF Finishes

High1 == pc = "high1" /\ (Restarted \/ Finishes(WordBits + 17 - n))

(* Deaf, or at what cannot be a request: its sixth bit is a one. *)
Switching ==
  /\ pc = "switch"
  /\ \/ n = 1 /\ t \in {"deaf", "idle"}
     \/ /\ n > 1 /\ ones <= n - 2
        /\ \/ t = "deaf"
           \/ t = "idle" /\ n = 2
           \/ t = "request" /\ n \in 3..9 /\ Len(heard) = n - 3 /\ (n = 9 => heard[6] = 1)

High2 == pc = "high2" /\ (Restarted \/ (t = "deaf" /\ n - 1 <= ones))

Low == pc = "low" /\ t = "idle" /\ (n = 2 => ones = 0)

ResetInv == Resetting /\ noise = FALSE => High1 \/ Switching \/ High2 \/ Low

(* What the argument needs of the switch sequence. *)
LEMMA SequenceIs ==
  /\ \A i \in 1..16 : SWD_SWITCH_SEQUENCE[i] \in Bit
  /\ SWD_SWITCH_SEQUENCE[1] = 0 /\ SWD_SWITCH_SEQUENCE[2] = 1 /\ SWD_SWITCH_SEQUENCE[8] = 1
<1>1. SWD_SWITCH_SEQUENCE \in [1..16 -> Bit]
  BY DEF SWD_SWITCH_SEQUENCE, Bit
<1>2. SWD_SWITCH_SEQUENCE[1] = 0 /\ SWD_SWITCH_SEQUENCE[2] = 1 /\ SWD_SWITCH_SEQUENCE[8] = 1
  BY DEF SWD_SWITCH_SEQUENCE
<1> QED
  BY <1>1, <1>2

(* What a cycle that is not disturbed does. *)
LEMMA ResetCycle ==
  ASSUME Typed, LineResetBit, noise' = FALSE
  PROVE  /\ noise = FALSE /\ Resetting
         /\ pc = "low" => PortClock(0) /\ NextBit(2, "returned")
         /\ pc = "switch" => PortClock(SWD_SWITCH_SEQUENCE[n]) /\ NextBit(16, "high2")
         /\ pc = "high1" => PortClock(1) /\ NextBit(LineHigh, "switch")
         /\ pc = "high2" => PortClock(1) /\ NextBit(LineHigh, "low")
<1> DEFINE sent == CASE pc = "low" -> 0 [] pc = "switch" -> SWD_SWITCH_SEQUENCE[n] [] OTHER -> 1
           k == CASE pc = "switch" -> 16 [] pc = "low" -> 2 [] OTHER -> LineHigh
<1>1. PICK bit \in Bit : Cycle(sent, bit)
  BY DEF LineResetBit
<1>2. pc \in DOMAIN ResetPhases /\ NextBit(k, ResetPhases[pc])
  BY DEF LineResetBit
<1>3. pc = "low" => sent = 0 /\ k = 2
  OBVIOUS
<1>4. pc = "switch" => sent = SWD_SWITCH_SEQUENCE[n] /\ k = 16
  OBVIOUS
<1>5. pc \in {"high1", "high2"} => sent = 1 /\ k = LineHigh
  OBVIOUS
<1> HIDE DEF sent, k
<1>6. PortOK /\ n \in Nat \ {0} /\ (pc = "switch" => n <= 16)
  BY DEF Typed, HostOK
<1>7. pc \in {"high1", "switch", "high2", "low"}
  BY <1>2, PhasesAre
<1>8. sent \in Bit
  <2>1. 0 \in Bit /\ 1 \in Bit
    BY DEF Bit
  <2>2. pc = "switch" => n \in 1..16
    BY <1>6
  <2> QED
    BY <1>3, <1>4, <1>5, <1>7, <2>1, <2>2, SequenceIs
<1>9. Carries(sent, bit)
  BY <1>1, <1>6, <1>8, WireIs, Carried
<1>10. noise = FALSE /\ bit = sent
  BY <1>9 DEF Carries
<1>11. PortClock(sent)
  BY <1>1, <1>10 DEF Cycle
<1> QED
  BY <1>2, <1>3, <1>4, <1>5, <1>10, <1>11, PhasesAre DEF Resetting

(* A one: counted, and enough of them start the port anew. *)
LEMMA OneClocked ==
  ASSUME PortOK, PortClock(1)
  PROVE  \/ Restarted'
         \/ /\ PortMoves(1) /\ ~Restarted
            /\ ones' = (IF PortDrives THEN 0 ELSE ones + 1) /\ ones' < ResetOnes
<1> DEFINE high == IF PortDrives \/ 1 = 0 THEN 0 ELSE IF ones < ResetOnes THEN ones + 1 ELSE ones
<1>1. ones \in 0..ResetOnes /\ ResetOnes \in Nat \ {0}
  BY WireAssumption DEF PortOK
<1>2. /\ ones' = high
      /\ IF high = ResetOnes
         THEN PortGoes("idle") /\ UNCHANGED <<treq, answer, word, busy, sticky, taken>>
         ELSE PortMoves(1)
  BY DEF PortClock
<1>3. CASE high = ResetOnes
  BY <1>2, <1>3 DEF PortGoes, Restarted
<1>4. CASE high # ResetOnes
  <2>1. high = (IF PortDrives THEN 0 ELSE ones + 1) /\ high < ResetOnes
    BY <1>1, <1>4
  <2>2. ~Restarted
    <3>1. Restarted => ~PortDrives /\ ones = ResetOnes
      BY DEF Restarted, PortDrives
    <3> QED
      BY <1>1, <1>4, <3>1
  <2> QED
    BY <1>2, <1>4, <2>1, <2>2
<1> QED
  BY <1>3, <1>4

(* The first line reset leaves the port deaf, or started anew. *)
LEMMA High1Goes ==
  ASSUME Typed, Typed', PortOfDriver, ResetLongEnough, High1, LineResetBit, noise' = FALSE
  PROVE  High1' \/ Switching'
<1>1. /\ PortOK /\ PortOK' /\ pc = "high1" /\ n \in Nat \ {0} /\ n <= LineHigh
      /\ WordBits \in Nat \ {0} /\ LineHigh \in Nat /\ WordBits + 16 <= LineHigh
  BY WireAssumption DEF High1, Typed, HostOK, ResetLongEnough
<1>2. PortClock(1) /\ NextBit(LineHigh, "switch")
  BY <1>1, ResetCycle
<1>3. PICK c \in Int : c = WordBits + 17 - n
  BY <1>1
<1>4. Restarted' \/ Finishes(c - 1)'
  <2>1. Finishes(c) \/ Restarted
    BY <1>3 DEF High1
  <2>2. Restarted' \/ (PortMoves(1) /\ ~Restarted)
    BY <1>1, <1>2, OneClocked
  <2> QED
    BY <1>1, <2>1, <2>2, FinishesGoes
<1>5. CASE n < LineHigh
  <2>1. pc' = "high1" /\ n' = n + 1
    BY <1>1, <1>2, <1>5 DEF NextBit
  <2>2. WordBits + 17 - n' = c - 1
    BY <1>1, <1>3, <2>1
  <2> QED
    BY <1>4, <2>1, <2>2 DEF High1, Finishes
<1>6. CASE n = LineHigh
  <2>1. pc' = "switch" /\ n' = 1
    BY <1>1, <1>2, <1>6 DEF NextBit
  <2>2. c - 1 \in Int /\ c - 1 <= 0
    BY <1>1, <1>3, <1>6
  <2>3. t' = "deaf" \/ Restarted'
    BY <1>1, <1>4, <2>2, FinishedIsDeaf
  <2>4. t' \in {"deaf", "idle"}
    BY <2>3 DEF Restarted
  <2> QED
    BY <2>1, <2>4 DEF Switching
<1> QED
  BY <1>1, <1>5, <1>6

(* The switch sequence is no request: one that was started anew goes deaf. *)
LEMMA SwitchGoes ==
  ASSUME Typed, Typed', ResetLongEnough, Switching, LineResetBit, noise' = FALSE
  PROVE  Switching' \/ High2'
<1>1. /\ PortOK /\ pc = "switch" /\ n \in 1..16 /\ ones \in Nat /\ WordBits \in Nat \ {0}
      /\ ResetOnes \in Nat /\ WordBits + 14 < ResetOnes /\ heard \in Seq(Bit)
  BY WireAssumption DEF Switching, Typed, HostOK, PortOK, ResetLongEnough
<1>2. PICK bit \in Bit : bit = SWD_SWITCH_SEQUENCE[n]
  BY <1>1, SequenceIs
<1>3. PortClock(bit) /\ NextBit(16, "high2")
  BY <1>1, <1>2, ResetCycle
<1>4. CASE n = 1 /\ t \in {"deaf", "idle"}
  <2>1. bit = 0
    BY <1>2, <1>4, SequenceIs
  <2>2. PortMoves(0) /\ ones' = 0
    BY <1>1, <1>3, <2>1, StillCounting
  <2>3. t' = "deaf" \/ t' = "idle"
    BY <1>4, <2>1, <2>2, Moves DEF PortGoes
  <2>4. pc' = "switch" /\ n' = 2
    BY <1>1, <1>3, <1>4 DEF NextBit
  <2> QED
    BY <2>2, <2>3, <2>4 DEF Switching
<1>5. CASE n > 1 /\ ones <= n - 2
  <2>1. ones + 1 < ResetOnes
    BY <1>1, <1>5
  <2>2. PortMoves(bit) /\ ones' \in Nat /\ ones' <= ones + 1
    BY <1>1, <1>3, <2>1, StillCounting
  <2>3. CASE t = "deaf"
    <3>1. t' = "deaf"
      BY <2>2, <2>3, Moves DEF PortGoes
    <3>2. CASE n < 16
      <4>1. pc' = "switch" /\ n' = n + 1
        BY <1>1, <1>3, <3>2 DEF NextBit
      <4>2. n' > 1 /\ ones' <= n' - 2
        BY <1>1, <1>5, <2>2, <4>1
      <4> QED
        BY <3>1, <4>1, <4>2 DEF Switching
    <3>3. CASE n = 16
      <4>1. pc' = "high2" /\ n' = 1
        BY <1>3, <3>3 DEF NextBit
      <4>2. n' - 1 <= ones'
        BY <2>2, <4>1
      <4> QED
        BY <3>1, <4>1, <4>2 DEF High2
    <3> QED
      BY <1>1, <3>2, <3>3
  <2>4. CASE t = "idle" /\ n = 2
    <3>1. bit = 1
      BY <1>2, <2>4, SequenceIs
    <3>2. t' = "request" /\ heard' = <<>> /\ Len(heard') = 0
      BY <2>2, <2>4, <3>1, Moves, Empty DEF PortGoes
    <3>3. pc' = "switch" /\ n' = 3
      BY <1>1, <1>3, <2>4 DEF NextBit
    <3>4. n' > 1 /\ ones' <= n' - 2 /\ n' \in 3..9 /\ n' # 9 /\ Len(heard') = n' - 3
      BY <1>1, <1>5, <2>2, <2>4, <3>2, <3>3
    <3> QED
      BY <3>2, <3>3, <3>4 DEF Switching
  <2>5. CASE t = "request" /\ n \in 3..9 /\ Len(heard) = n - 3 /\ (n = 9 => heard[6] = 1)
    <3> DEFINE bits == Append(heard, bit)
    <3>1. HearsRequest(bit)
      BY <2>2, <2>5, Moves
    <3>2. PICK l \in 0..6 : l = n - 3
      BY <2>5
    <3>3. Len(bits) = l + 1 /\ bits[l + 1] = bit /\ \A i \in 1..l : bits[i] = heard[i]
      BY <1>1, <2>5, <3>2, Appended
    <3> HIDE DEF bits
    <3>4. pc' = "switch" /\ n' = n + 1
      BY <1>1, <1>3, <2>5 DEF NextBit
    <3>5. n' > 1 /\ ones' <= n' - 2
      BY <1>1, <1>5, <2>2, <3>4
    <3>6. CASE l = 6
      <4>1. bits[6] = 1
        BY <2>5, <3>2, <3>3, <3>6
      <4>2. ~(Len(bits) = 7 /\ Understood(bits)) /\ ~(Len(bits) < 7)
        BY <3>3, <3>6, <4>1 DEF Understood
      <4>3. t' = "deaf"
        BY <3>1, <4>2 DEF HearsRequest, PortGoes, bits
      <4> QED
        BY <3>4, <3>5, <4>3 DEF Switching
    <3>7. CASE l < 6
      <4>1. ~(Len(bits) = 7 /\ Understood(bits)) /\ Len(bits) < 7
        BY <3>3, <3>7
      <4>2. t' = "request" /\ heard' = bits
        BY <2>5, <3>1, <4>1 DEF HearsRequest, bits
      <4>3. n' \in 3..9 /\ Len(bits) = n' - 3
        BY <2>5, <3>2, <3>3, <3>4, <3>7
      <4>4. ASSUME n' = 9 PROVE bits[6] = 1
        <5>1. n = 8 /\ l + 1 = 6
          BY <1>1, <3>2, <3>4, <4>4
        <5> QED
          BY <1>2, <3>3, <5>1, SequenceIs
      <4> QED
        BY <3>4, <3>5, <4>2, <4>3, <4>4 DEF Switching
    <3> QED
      BY <3>6, <3>7
  <2> QED
    BY <1>4, <1>5, <2>3, <2>4, <2>5 DEF Switching
<1> QED
  BY <1>4, <1>5 DEF Switching

(* The second line reset is longer than what starts the port anew. *)
LEMMA High2Goes ==
  ASSUME Typed, Typed', ResetLongEnough, High2, LineResetBit, noise' = FALSE
  PROVE  High2' \/ Low'
<1>1. /\ PortOK /\ pc = "high2" /\ n \in Nat \ {0} /\ n <= LineHigh /\ ones \in Nat
      /\ ResetOnes \in Nat /\ LineHigh \in Nat /\ ResetOnes <= LineHigh
  BY WireAssumption DEF High2, Typed, HostOK, PortOK
<1>2. PortClock(1) /\ NextBit(LineHigh, "low") /\ 1 \in Bit
  BY <1>1, ResetCycle DEF Bit
<1>3. Restarted' \/ (t' = "deaf" /\ n <= ones' /\ ones' < ResetOnes)
  <2>1. SUFFICES ASSUME ~Restarted' PROVE t' = "deaf" /\ n <= ones' /\ ones' < ResetOnes
    OBVIOUS
  <2>2. /\ PortMoves(1) /\ ~Restarted
        /\ ones' = (IF PortDrives THEN 0 ELSE ones + 1) /\ ones' < ResetOnes
    BY <1>1, <1>2, <2>1, OneClocked
  <2>3. t = "deaf" /\ n - 1 <= ones
    BY <2>2 DEF High2
  <2>4. ones' = ones + 1
    BY <2>2, <2>3 DEF PortDrives
  <2>5. t' = "deaf"
    BY <1>2, <2>2, <2>3, Moves DEF PortGoes
  <2>6. n <= ones + 1
    BY <1>1, <2>3
  <2> QED
    BY <2>2, <2>4, <2>5, <2>6
<1>4. CASE n < LineHigh
  <2>1. pc' = "high2" /\ n' = n + 1 /\ n' - 1 = n
    BY <1>1, <1>2, <1>4 DEF NextBit
  <2> QED
    BY <1>3, <2>1 DEF High2
<1>5. CASE n = LineHigh
  <2>1. pc' = "low" /\ n' = 1
    BY <1>1, <1>2, <1>5 DEF NextBit
  <2>2. ones' \in Nat
    BY DEF Typed, PortOK
  <2>3. Restarted'
    BY <1>1, <1>3, <1>5, <2>2
  <2> QED
    BY <2>1, <2>3 DEF Low, Restarted
<1> QED
  BY <1>1, <1>4, <1>5

(* The two idle cycles leave it where the first access begins. *)
LEMMA LowGoes ==
  ASSUME Typed, Low, LineResetBit, noise' = FALSE
  PROVE  Low' \/ Returned'
<1>1. PortOK /\ pc = "low" /\ n \in 1..2 /\ t = "idle" /\ 0 \in Bit /\ WordBits \in Nat
  BY WireAssumption DEF Low, Typed, HostOK, Bit
<1>2. PortClock(0) /\ NextBit(2, "returned")
  BY <1>1, ResetCycle
<1>3. PortMoves(0) /\ ones' = 0
  BY <1>1, <1>2, StillCounting
<1>4. t' = "idle"
  BY <1>1, <1>3, Moves DEF PortGoes
<1>5. CASE n = 1
  <2>1. pc' = "low"
    BY <1>1, <1>2, <1>5 DEF NextBit
  <2> QED
    BY <1>3, <1>4, <2>1 DEF Low
<1>6. CASE n = 2
  <2>1. pc' = "returned"
    BY <1>2, <1>6 DEF NextBit
  <2>2. rc' = "ready"
    BY <2>1 DEF LineResetBit
  <2>3. ones' <= WordBits + 2
    BY <1>1, <1>3
  <2> QED
    BY <1>4, <2>1, <2>2, <2>3 DEF Returned, OkIsTrue
<1> QED
  BY <1>1, <1>5, <1>6

(* One cycle of a line reset. *)
LEMMA LineResetKept ==
  ASSUME Typed, Typed', PortOfDriver, ResetLongEnough, ResetInv, LineResetBit
  PROVE  TrustInv' /\ ResetInv'
<1>1. clean' = ~noise' /\ noise' \in BOOLEAN
  BY DEF LineResetBit, Typed, LineOK
<1>2. CASE noise' = TRUE
  <2>1. ~trusted'
    BY <1>1, <1>2 DEF trusted
  <2> QED
    BY <1>2, <2>1 DEF TrustInv, ResetInv
<1>3. CASE noise' = FALSE
  <2>1. High1 \/ Switching \/ High2 \/ Low
    BY <1>3, ResetCycle DEF ResetInv
  <2>2. High1' \/ Switching' \/ High2' \/ Low' \/ Returned'
    BY <1>3, <2>1, High1Goes, SwitchGoes, High2Goes, LowGoes
  <2>3. High1' \/ Switching' \/ High2' \/ Low' => Resetting'
    BY PhasesAre DEF High1, Switching, High2, Low, Resetting
  <2>4. Returned' => ~Resetting'
    BY PhasesAre DEF Returned, Resetting
  <2> QED
    BY <2>2, <2>3, <2>4 DEF TrustInv, ResetInv, trusted
<1> QED
  BY <1>1, <1>2, <1>3

(* A line reset may find the port anywhere. *)
LEMMA LineResetStarts ==
  ASSUME Typed, LineReset
  PROVE  TrustInv' /\ ResetInv'
<1>1. pc' = "high1" /\ n' = 1 /\ t' = t /\ heard' = heard /\ PortOK
  BY DEF LineReset, Goto, Typed
<1>2. Resetting'
  BY <1>1, PhasesAre DEF Resetting
<1>3. Finishes(WordBits + 16)'
  <2>1. Finishes(WordBits + 16)
    BY <1>1, FinishesInTime
  <2> QED
    BY <1>1, <2>1 DEF Finishes
<1>4. High1'
  <2>1. WordBits + 17 - n' = WordBits + 16
    BY <1>1, WireAssumption
  <2> QED
    BY <1>1, <1>3, <2>1 DEF High1, Finishes
<1> QED
  BY <1>2, <1>4 DEF TrustInv, ResetInv, trusted

(* No other step is part of a line reset. *)
LEMMA NotResetting ==
  ASSUME \/ \E r \in Requests, w \in Words : Access(r, w)
         \/ swd_transaction \/ HostReset
  PROVE  ~Resetting'
<1>1. pc' \in {"returned", "request", "trnAck", "ack", "trnRead", "rdata", "trnBack", "trnWrite", "wdata"}
  <2>1. CASE \E r \in Requests, w \in Words : Access(r, w)
    BY <2>1 DEF Access, Goto
  <2>2. CASE HostReset
    BY <2>2 DEF HostReset, Goto
  <2>3. CASE SendRequestBit \/ ReadDataBit
    BY <2>3 DEF SendRequestBit, ReadDataBit, NextBit
  <2>4. CASE ReadAckBit
    BY <2>4 DEF ReadAckBit, ReadAck, Retry, Return, Goto
  <2>5. CASE TurnBack \/ WriteDataBit \/ DirectionFails
    BY <2>5 DEF TurnBack, TakeWord, WriteDataBit, DirectionFails, Return, Goto
  <2>6. CASE \/ swd_turnaround("trnAck", Z, "ack") \/ swd_turnaround("trnRead", Z, "rdata")
             \/ swd_turnaround("trnWrite", 0, "wdata")
    BY <2>6 DEF swd_turnaround, Goto
  <2> QED
    BY <2>1, <2>2, <2>3, <2>4, <2>5, <2>6 DEF swd_transaction
<1> QED
  BY <1>1, PhasesAre DEF Resetting

WireInv == Typed /\ TrustInv /\ ResetInv

(* At power-on nothing is trusted. *)
LEMMA WireFirst == Init => WireInv
<1> SUFFICES ASSUME Init PROVE WireInv
  OBVIOUS
<1>1. ~trusted /\ ~Resetting
  BY PhasesAre DEF Init, trusted, Resetting
<1> QED
  BY <1>1, TypedFirst DEF WireInv, TrustInv, ResetInv

(* Every step keeps the invariant. *)
LEMMA WireNext ==
  ASSUME PortOfDriver, ResetLongEnough, WireInv, [Next]_vars
  PROVE  WireInv'
<1>1. Typed /\ Typed' /\ TrustInv /\ ResetInv
  BY TypedNext DEF WireInv
<1>2. CASE UNCHANGED vars
  <2>1. TrustInv'
    BY <1>1, <1>2 DEF vars, host, port, TrustInv, trusted, Resetting, Returned, OkIsTrue, Early, AtStart,
       InRequest, AtTurn, InAck, LostRequest, LostTurn, LostAck, Lost, Data, ReadTurn, InRead, ReadBack,
       WriteTurn, InWrite
  <2>2. ResetInv'
    BY <1>1, <1>2 DEF vars, host, port, ResetInv, Resetting, High1, Switching, High2, Low, Restarted,
       Finishes
  <2> QED
    BY <1>1, <2>1, <2>2 DEF WireInv
<1>3. ASSUME NEW r \in Requests, NEW w \in Words, Access(r, w) PROVE TrustInv' /\ ResetInv'
  BY <1>1, <1>3, AccessKept, NotResetting DEF ResetInv
<1>4. CASE swd_transaction
  BY <1>1, <1>4, TransactionKept, NotResetting DEF ResetInv, WireInv
<1>5. CASE LineReset
  BY <1>1, <1>5, LineResetStarts DEF WireInv
<1>6. CASE LineResetBit
  BY <1>1, <1>6, LineResetKept DEF WireInv
<1>7. CASE HostReset
  <2>1. ~trusted'
    BY <1>7 DEF HostReset, trusted
  <2> QED
    BY <1>1, <1>7, <2>1, NotResetting DEF WireInv, TrustInv, ResetInv
<1> QED
  BY <1>1, <1>2, <1>3, <1>4, <1>5, <1>6, <1>7 DEF Next, WireInv

(* So it holds throughout, for the port that the driver is written for. *)
LEMMA WireInvariant == PortOfDriver /\ ResetLongEnough /\ Spec => []WireInv
<1> SUFFICES ASSUME PortOfDriver, ResetLongEnough PROVE Spec => []WireInv
  OBVIOUS
<1>1. WireInv /\ [Next]_vars => WireInv'
  BY WireNext
<1> QED
  BY <1>1, WireFirst, PTL DEF Spec

(* While every access has succeeded, a 0 is true, with one misread bit in   *)
(* each access, of whatever access and wherever in it, and however many     *)
(* accesses there were since the line reset.                                *)
THEOREM OkIsNeverALie == PortOfDriver /\ ResetLongEnough /\ Spec => []OkIsTrue
<1>1. WireInv => OkIsTrue
  <2> SUFFICES ASSUME WireInv, pc = "returned", trusted PROVE OkIsTrue
    BY DEF OkIsTrue
  <2>1. Returned
    BY PhaseKept DEF WireInv
  <2> QED
    BY <2>1 DEF Returned
<1> QED
  BY <1>1, WireInvariant, PTL

(* The driver and the port never drive SWDIO at the same time, also not     *)
(* when the port is at something else than the driver.                      *)
THEOREM NeverBothDrive == PortOfDriver /\ ResetLongEnough /\ Spec => []NoContention
<1>1. WireInv => NoContention
  <2> SUFFICES ASSUME WireInv, trusted, t \in {"ack", "read"} PROVE ~out
    BY DEF NoContention, PortDrives
  <2>1. Typed /\ TrustInv
    BY DEF WireInv
  <2>2. InAck \/ InRead
    BY <2>1 DEF TrustInv, Returned, Early, AtStart, InRequest, AtTurn, InAck, LostRequest, LostTurn,
       LostAck, Lost, Data, ReadTurn, InRead, ReadBack, WriteTurn, InWrite
  <2>3. pc = "ack" \/ pc = "rdata"
    BY <2>2 DEF InAck, InRead
  <2> QED
    BY <2>1, <2>3 DEF Typed, HostOK
<1> QED
  BY <1>1, WireInvariant, PTL

(* Each access that succeeds ends with the port ready for the next one.     *)
THEOREM EndsInStep == PortOfDriver /\ ResetLongEnough /\ Spec => []InStep
<1>1. WireInv => InStep
  BY PhaseKept DEF WireInv, InStep, Returned
<1> QED
  BY <1>1, WireInvariant, PTL

===============================================================================
