---------------------------- MODULE FlmLoadProofs -----------------------------
(***************************************************************************)
(* Proofs for the loading of the .FLM: what is laid out, what is written   *)
(* to the RAM of the FR8016HA, what returning 0 means, and what a file     *)
(* that does not parse leaves alone, for every file, size of the RAM and   *)
(* bound.  The lists of accesses come first: each access is meant to come  *)
(* after those before it, and together they write what is wanted.  Then    *)
(* the invariant: what has been carried out has prepared what is next.     *)
(***************************************************************************)
EXTENDS FlmLoad, WellFoundedInduction, TLAPS

(* A nonempty set of natural numbers has a least one. *)
LEMMA LeastNat ==
  ASSUME NEW S, S \subseteq Nat, S # {}
  PROVE  Min(S) \in S
<1> DEFINE R == OpToRel(<, Nat)
<1>1. PICK x \in S : \A y \in S : <<y, x>> \notin R
  BY NatLessThanWellFounded, WFMin
<1>2. \A y \in S : x =< y
  <2> TAKE y \in S
  <2>1. <<y, x>> \in Nat \X Nat => ~(y < x)
    BY <1>1 DEF OpToRel
  <2> QED
    BY <2>1
<1> QED
  BY <1>2 DEF Min

(* align4() rounds up to the next multiple of four. *)
LEMMA AlignUp ==
  ASSUME NEW a \in Nat
  PROVE  /\ align4(a) \in Nat
         /\ align4(a) % 4 = 0
         /\ a <= align4(a)
         /\ align4(a + 4) = align4(a) + 4
BY DEF align4

(* For each size of code and data: what fr_work_layout() accepts keeps the *)
(* five regions apart, with the stub where flm_load() puts it, so that the *)
(* checks of flm_load() accept it, too.                                    *)
LEMMA Apart ==
  ASSUME NEW c \in Nat, NEW d \in Nat, NEW w, w = fr_work(c, d), LaidOut(w)
  PROVE  LET bkpt == BkptOf(w, d)
         IN  /\ RAM_BASE <= w.code_base
             /\ w.code_base + c <= w.data_base
             /\ w.data_base + d <= bkpt
             /\ bkpt + 4 <= w.page_buf
             /\ w.page_buf + FR_PAGE_BUF_SIZE <= w.stack_top - FLM_REQUIRED_STACK_SIZE
             /\ w.stack_top <= RAM_BASE + RAM_SIZE
             /\ LoadAccepts(w, c, d)
<1> DEFINE data_base == align4(RAM_BASE + c)
           bkpt == align4(data_base + d)
<1>1. /\ data_base \in Nat
      /\ RAM_BASE + c <= data_base
  BY AlignUp, LayoutAssumption
<1>2. /\ bkpt \in Nat
      /\ data_base + d <= bkpt
      /\ align4(data_base + d + 4) = bkpt + 4
  <2> HIDE DEF data_base
  <2> QED
    BY <1>1, AlignUp
<1>3. w = [code_base |-> RAM_BASE, data_base |-> data_base,
           page_buf |-> bkpt + 4, stack_top |-> RAM_BASE + RAM_SIZE]
  BY <1>2 DEF fr_work
<1>4. BkptOf(w, d) = bkpt
  BY <1>3 DEF BkptOf
<1> HIDE DEF data_base, bkpt
<1> QED
  BY <1>1, <1>2, <1>3, <1>4, LayoutAssumption DEF LaidOut, LoadAccepts

(* The section that sec_get() finds has a size. *)
LEMMA SectionFound ==
  ASSUME NEW f \in Files, NEW name, HasSection(f, name)
  PROVE  sec_get(f, name).size \in Nat
<1>1. Sections(f, name) \subseteq Nat /\ Sections(f, name) # {}
  BY LoadAssumption DEF Sections, HasSection
<1>2. Min(Sections(f, name)) \in DOMAIN f.sections
  BY <1>1, LeastNat DEF Sections
<1> QED
  BY <1>2, LoadAssumption DEF sec_get

-------------------------------------------------------------------------------
(* Lists of accesses *)

IsSeq(s) == \E S : s \in Seq(S)

(* c is s and then t. *)
Joined(c, s, t) ==
  /\ IsSeq(c) /\ Len(s) \in Nat /\ Len(t) \in Nat
  /\ Len(c) = Len(s) + Len(t)
  /\ \A k \in 1..Len(c) : c[k] = IF k <= Len(s) THEN s[k] ELSE t[k - Len(s)]

(* Two lists in a row: the second is read behind the first. *)
LEMMA Concatenated ==
  ASSUME NEW s, NEW t, IsSeq(s), IsSeq(t)
  PROVE  Joined(s \o t, s, t)
<1>1. PICK S, T : s \in Seq(S) /\ t \in Seq(T)
  BY DEF IsSeq
<1>2. s \in Seq(S \cup T) /\ t \in Seq(S \cup T)
  BY <1>1
<1>3. s \o t \in Seq(S \cup T)
  BY <1>2
<1> QED
  BY <1>2, <1>3 DEF IsSeq, Joined

(* What must come right before the access k of s, for it to do what it is  *)
(* meant for; and a write to the RAM is the one that is wanted there.      *)
Meant(s, k) ==
  LET a == s[k]
      b == s[k - 1]
  IN  /\ a.reg \in Writes \cup ToAP \cup {"readCTRLSTAT", "EINVAL"}
      /\ a.reg = "SELECT" => a.v = 0
      /\ a.reg = "CSW" => a.v = "word" /\ k > 1 /\ b.reg = "SELECT"
      /\ a.reg = "TAR" => a.v \in Nat /\ k > 1 /\ b.reg = "CSW"
      /\ a.reg \in {"DRW", "readDRW"} => k > 1 /\ b.reg = "TAR"
      /\ a.reg = "readDRW" => b.v = DHCSR
      /\ a.reg = "DRW" /\ b.v \in RamWords => a.v = Wanted(b.v)
      /\ a.reg = "RDBUFF" => k > 5 /\ b.reg = "readDRW" /\ s[k - 5].reg = "DRW"

WellMeant(s) == IsSeq(s) /\ \A k \in 1..Len(s) : Meant(s, k)

(* A list that is meant after one that is meant. *)
LEMMA BothMeant ==
  ASSUME NEW s, NEW t, WellMeant(s), WellMeant(t)
  PROVE  WellMeant(s \o t)
<1> DEFINE c == s \o t
<1>1. Joined(c, s, t)
  BY Concatenated DEF WellMeant
<1> HIDE DEF c
<1> SUFFICES ASSUME NEW k \in 1..Len(c) PROVE Meant(c, k)
  BY <1>1 DEF WellMeant, Joined, c
<1>2. CASE k <= Len(s)
  <2>1. k \in 1..Len(s) /\ Meant(s, k)
    BY <1>1, <1>2 DEF WellMeant, Joined
  <2>2. c[k] = s[k] /\ (k > 1 => c[k - 1] = s[k - 1]) /\ (k > 5 => c[k - 5] = s[k - 5])
    BY <1>1, <1>2 DEF Joined
  <2> QED
    BY <2>1, <2>2 DEF Meant
<1>3. CASE k > Len(s)
  <2>1. PICK j \in 1..Len(t) : j = k - Len(s)
    BY <1>1, <1>3 DEF Joined
  <2>2. Meant(t, j)
    BY DEF WellMeant
  <2>3. c[k] = t[j] /\ (j > 1 => c[k - 1] = t[j - 1]) /\ (j > 5 => c[k - 5] = t[j - 5])
    <3>1. /\ k - 1 - Len(s) = j - 1 /\ k - 5 - Len(s) = j - 5
          /\ j > 1 => k - 1 \in 1..Len(c) /\ k - 1 > Len(s)
          /\ j > 5 => k - 5 \in 1..Len(c) /\ k - 5 > Len(s)
      BY <1>1, <2>1 DEF Joined
    <3>2. \A i \in 1..Len(c) : i > Len(s) => c[i] = t[i - Len(s)]
      BY <1>1 DEF Joined
    <3> QED
      BY <1>3, <2>1, <3>1, <3>2
  <2>4. (j > 1 => k > 1) /\ (j > 5 => k > 5) /\ j \in Int
    BY <1>1, <2>1 DEF Joined
  <2> QED
    BY <2>2, <2>3, <2>4 DEF Meant
<1> QED
  BY <1>1, <1>2, <1>3 DEF Joined

(* The three accesses of mem_ap_setup(). *)
LEMMA SetupIs ==
  ASSUME NEW a
  PROVE  LET s == mem_ap_setup(a)
         IN  /\ IsSeq(s) /\ Len(s) = 3
             /\ s[1] = To("SELECT", 0) /\ s[2] = To("CSW", "word") /\ s[3] = To("TAR", a)
<1>1. mem_ap_setup(a) \in Seq({dap_select, To("CSW", "word"), To("TAR", a)})
  BY DEF mem_ap_setup
<1> QED
  BY <1>1 DEF IsSeq, mem_ap_setup, dap_select

(* The four accesses of mem_write32(). *)
LEMMA WriteIs ==
  ASSUME NEW a, NEW w
  PROVE  LET s == mem_write32(a, w)
         IN  /\ IsSeq(s) /\ Len(s) = 4
             /\ s[1] = To("SELECT", 0) /\ s[2] = To("CSW", "word") /\ s[3] = To("TAR", a)
             /\ s[4] = To("DRW", w)
<1>1. <<To("DRW", w)>> \in Seq({To("DRW", w)})
  OBVIOUS
<1>2. IsSeq(<<To("DRW", w)>>) /\ Len(<<To("DRW", w)>>) = 1 /\ <<To("DRW", w)>>[1] = To("DRW", w)
  BY <1>1 DEF IsSeq
<1> DEFINE m == mem_ap_setup(a)
           t == <<To("DRW", w)>>
           c == m \o t
<1>3. /\ IsSeq(m) /\ Len(m) = 3
      /\ m[1] = To("SELECT", 0) /\ m[2] = To("CSW", "word") /\ m[3] = To("TAR", a)
  BY SetupIs
<1>4. Joined(c, m, t)
  BY <1>2, <1>3, Concatenated
<1>5. mem_write32(a, w) = c
  BY DEF mem_write32
<1>6. Len(t) = 1 /\ t[1] = To("DRW", w)
  BY <1>2
<1> HIDE DEF m, t, c
<1> QED
  BY <1>3, <1>4, <1>5, <1>6 DEF Joined

(* A word is written where mem_ap_setup() has pointed TAR. *)
LEMMA WriteMeant ==
  ASSUME NEW a \in Nat, NEW w, a \in RamWords => w = Wanted(a)
  PROVE  WellMeant(mem_write32(a, w))
<1> DEFINE s == mem_write32(a, w)
<1>1. /\ IsSeq(s) /\ Len(s) = 4
      /\ s[1] = To("SELECT", 0) /\ s[2] = To("CSW", "word") /\ s[3] = To("TAR", a)
      /\ s[4] = To("DRW", w)
  BY WriteIs
<1> HIDE DEF s
<1>2. Meant(s, 1) /\ Meant(s, 2)
  BY <1>1 DEF Meant, To, Writes, ToAP
<1>3. Meant(s, 3) /\ Meant(s, 4)
  BY <1>1 DEF Meant, To, Writes, ToAP
<1>4. \A k \in 1..4 : k = 1 \/ k = 2 \/ k = 3 \/ k = 4
  OBVIOUS
<1> QED
  BY <1>1, <1>2, <1>3, <1>4 DEF WellMeant, s

(* The five accesses of a poll of DHCSR. *)
LEMMA PollIs ==
  LET s == PollHalt
  IN  /\ IsSeq(s) /\ Len(s) = 5
      /\ s[1] = To("SELECT", 0) /\ s[2] = To("CSW", "word") /\ s[3] = To("TAR", DHCSR)
      /\ s[4] = From("readDRW") /\ s[5] = From("RDBUFF")
<1> DEFINE t == <<From("readDRW"), From("RDBUFF")>>
<1>1. t \in Seq({From("readDRW"), From("RDBUFF")})
  OBVIOUS
<1>2. IsSeq(t) /\ Len(t) = 2 /\ t[1] = From("readDRW") /\ t[2] = From("RDBUFF")
  BY <1>1 DEF IsSeq
<1> DEFINE m == mem_ap_setup(DHCSR)
<1>3. /\ IsSeq(m) /\ Len(m) = 3
      /\ m[1] = To("SELECT", 0) /\ m[2] = To("CSW", "word") /\ m[3] = To("TAR", DHCSR)
  BY SetupIs
<1> DEFINE c == m \o t
<1>4. Joined(c, m, t)
  BY <1>2, <1>3, Concatenated
<1>5. PollHalt = c
  BY DEF PollHalt
<1> HIDE DEF m, t, c
<1> QED
  BY <1>2, <1>3, <1>4, <1>5 DEF Joined

(* The request and the poll of cm_halt(). *)
LEMMA HaltIs ==
  LET s == cm_halt
  IN  /\ IsSeq(s) /\ Len(s) = 9
      /\ s[1] = To("SELECT", 0) /\ s[2] = To("CSW", "word") /\ s[3] = To("TAR", DHCSR)
      /\ s[4] = To("DRW", "halt")
      /\ s[5] = To("SELECT", 0) /\ s[6] = To("CSW", "word") /\ s[7] = To("TAR", DHCSR)
      /\ s[8] = From("readDRW") /\ s[9] = From("RDBUFF")
<1> DEFINE u == mem_write32(DHCSR, "halt")
           t == PollHalt
<1>1. /\ IsSeq(u) /\ Len(u) = 4
      /\ u[1] = To("SELECT", 0) /\ u[2] = To("CSW", "word") /\ u[3] = To("TAR", DHCSR)
      /\ u[4] = To("DRW", "halt")
  BY WriteIs
<1>2. /\ IsSeq(t) /\ Len(t) = 5
      /\ t[1] = To("SELECT", 0) /\ t[2] = To("CSW", "word") /\ t[3] = To("TAR", DHCSR)
      /\ t[4] = From("readDRW") /\ t[5] = From("RDBUFF")
  BY PollIs
<1> DEFINE c == u \o t
<1>3. Joined(c, u, t)
  BY <1>1, <1>2, Concatenated
<1>4. cm_halt = c
  BY DEF cm_halt
<1> HIDE DEF u, t, c
<1> QED
  BY <1>1, <1>2, <1>3, <1>4 DEF Joined

(* cm_halt() sets the port up for each of its transfers. *)
LEMMA HaltMeant == WellMeant(cm_halt)
<1> DEFINE s == cm_halt
<1>1. /\ IsSeq(s) /\ Len(s) = 9
      /\ s[1] = To("SELECT", 0) /\ s[2] = To("CSW", "word") /\ s[3] = To("TAR", DHCSR)
      /\ s[4] = To("DRW", "halt")
      /\ s[5] = To("SELECT", 0) /\ s[6] = To("CSW", "word") /\ s[7] = To("TAR", DHCSR)
      /\ s[8] = From("readDRW") /\ s[9] = From("RDBUFF")
  BY HaltIs
<1>2. DHCSR \in Nat /\ DHCSR \notin RamWords
  BY LayoutAssumption, LoadAssumption DEF DHCSR, RamWords
<1> HIDE DEF s
<1>3. Meant(s, 1) /\ Meant(s, 2) /\ Meant(s, 5) /\ Meant(s, 6)
  BY <1>1 DEF Meant, To, Writes, ToAP
<1>4. Meant(s, 3) /\ Meant(s, 7)
  BY <1>1, <1>2 DEF Meant, To, Writes, ToAP
<1>5. Meant(s, 4)
  BY <1>1, <1>2 DEF Meant, To, Writes, ToAP
<1>6. Meant(s, 8) /\ Meant(s, 9)
  BY <1>1 DEF Meant, To, From, Writes, ToAP
<1>7. \A k \in 1..9 : k \in {1, 2, 3, 4, 5, 6, 7, 8, 9}
  OBVIOUS
<1> QED
  BY <1>1, <1>3, <1>4, <1>5, <1>6, <1>7 DEF WellMeant, s

(* The three accesses of dap_init(). *)
LEMMA PowerUpIs ==
  LET s == dap_init
  IN  /\ WellMeant(s) /\ Len(s) = 3
      /\ s[1] = To("CTRLSTAT", "powerup") /\ s[2] = From("readCTRLSTAT") /\ s[3] = To("SELECT", 0)
<1> DEFINE s == dap_init
<1>1. s \in Seq({To("CTRLSTAT", "powerup"), From("readCTRLSTAT"), dap_select})
  BY DEF dap_init
<1>2. /\ IsSeq(s) /\ Len(s) = 3
      /\ s[1] = To("CTRLSTAT", "powerup") /\ s[2] = From("readCTRLSTAT") /\ s[3] = To("SELECT", 0)
  BY <1>1 DEF IsSeq, dap_init, dap_select
<1> HIDE DEF s
<1>3. Meant(s, 1) /\ Meant(s, 2) /\ Meant(s, 3)
  BY <1>2 DEF Meant, To, From, Writes, ToAP
<1>4. \A k \in 1..3 : k = 1 \/ k = 2 \/ k = 3
  OBVIOUS
<1> QED
  BY <1>2, <1>3, <1>4 DEF WellMeant, s

(* A copy that is refused is the error and no access. *)
LEMMA RefusedCopy ==
  LET s == <<From("EINVAL")>>
  IN  WellMeant(s) /\ Len(s) = 1 /\ s[1].reg = "EINVAL"
<1> DEFINE s == <<From("EINVAL")>>
<1>1. s \in Seq({From("EINVAL")})
  OBVIOUS
<1>2. IsSeq(s) /\ Len(s) = 1 /\ s[1] = From("EINVAL")
  BY <1>1 DEF IsSeq
<1> HIDE DEF s
<1>3. Meant(s, 1)
  BY <1>2 DEF Meant, From, Writes, ToAP
<1> QED
  BY <1>2, <1>3 DEF WellMeant, From, s

(* How many accesses a copy makes. *)
LEMMA CopyIs ==
  ASSUME NEW dst \in Nat, NEW words, NEW len \in Nat, dst % 4 = 0, len % 4 = 0
  PROVE  LET s == flm_copy_to_ram(dst, words, len)
         IN  /\ IsSeq(s) /\ Len(s) = len
             /\ \A k \in 1..len :
                  s[k] = mem_write32(dst + 4 * ((k - 1) \div 4), words[((k - 1) \div 4) + 1])
                           [((k - 1) % 4) + 1]
<1> DEFINE e(k) == mem_write32(dst + 4 * ((k - 1) \div 4), words[((k - 1) \div 4) + 1])
                     [((k - 1) % 4) + 1]
           s == [k \in 1..len |-> e(k)]
<1>1. flm_copy_to_ram(dst, words, len) = s
  BY DEF flm_copy_to_ram
<1> HIDE DEF e
<1>2. s \in Seq({e(k) : k \in 1..len})
  OBVIOUS
<1>3. Len(s) = len
  OBVIOUS
<1>4. \A k \in 1..len : s[k] = e(k)
  OBVIOUS
<1> QED
  BY <1>1, <1>2, <1>3, <1>4 DEF IsSeq, e

(* The four accesses for the word i. *)
LEMMA CopyOf ==
  ASSUME NEW dst \in Nat, NEW words, NEW len \in Nat, dst % 4 = 0, len % 4 = 0,
         NEW i \in Nat, 4 * i < len
  PROVE  LET s == flm_copy_to_ram(dst, words, len)
         IN  /\ 4 * i + 4 <= len
             /\ s[4 * i + 1] = To("SELECT", 0) /\ s[4 * i + 2] = To("CSW", "word")
             /\ s[4 * i + 3] = To("TAR", dst + 4 * i) /\ s[4 * i + 4] = To("DRW", words[i + 1])
<1> DEFINE s == flm_copy_to_ram(dst, words, len)
           w == mem_write32(dst + 4 * i, words[i + 1])
<1>1. 4 * i + 4 <= len
  OBVIOUS
<1>2. \A r \in 0..3 : /\ 4 * i + r + 1 \in 1..len
                      /\ (4 * i + r) \div 4 = i /\ (4 * i + r) % 4 = r
  BY <1>1
<1>3. \A r \in 0..3 : s[4 * i + r + 1] = w[r + 1]
  <2> TAKE r \in 0..3
  <2> DEFINE k == 4 * i + r + 1
  <2>1. k \in 1..len /\ k - 1 = 4 * i + r
    BY <1>2
  <2>2. s[k] = mem_write32(dst + 4 * ((k - 1) \div 4), words[((k - 1) \div 4) + 1])
                 [((k - 1) % 4) + 1]
    BY <2>1, CopyIs
  <2> HIDE DEF k, s
  <2>3. (k - 1) \div 4 = i /\ (k - 1) % 4 = r
    BY <1>2, <2>1
  <2>4. s[k] = w[r + 1]
    BY <2>2, <2>3
  <2> QED
    BY <2>4 DEF k
<1>4. /\ w[1] = To("SELECT", 0) /\ w[2] = To("CSW", "word") /\ w[3] = To("TAR", dst + 4 * i)
      /\ w[4] = To("DRW", words[i + 1])
  BY WriteIs
<1> HIDE DEF s, w
<1>5. s[4 * i + 0 + 1] = w[0 + 1] /\ s[4 * i + 1 + 1] = w[1 + 1]
      /\ s[4 * i + 2 + 1] = w[2 + 1] /\ s[4 * i + 3 + 1] = w[3 + 1]
  BY <1>3
<1> QED
  BY <1>1, <1>4, <1>5 DEF s

(* A copy sets the port up for each of its words. *)
LEMMA CopyMeant ==
  ASSUME NEW dst \in Nat, NEW words, NEW len \in Nat,
         \A i \in Nat : 4 * i < len /\ dst + 4 * i \in RamWords
                          => words[i + 1] = Wanted(dst + 4 * i)
  PROVE  WellMeant(flm_copy_to_ram(dst, words, len))
<1> DEFINE s == flm_copy_to_ram(dst, words, len)
<1>1. CASE dst % 4 # 0 \/ len % 4 # 0
  BY <1>1, RefusedCopy DEF flm_copy_to_ram
<1>2. CASE dst % 4 = 0 /\ len % 4 = 0
  <2>1. IsSeq(s) /\ Len(s) = len
    BY <1>2, CopyIs
  <2> SUFFICES ASSUME NEW k \in 1..len PROVE Meant(s, k)
    BY <2>1 DEF WellMeant
  <2>2. PICK i \in Nat, r \in 0..3 : k = 4 * i + r + 1
    <3>1. (k - 1) \div 4 \in Nat /\ (k - 1) % 4 \in 0..3
          /\ k = 4 * ((k - 1) \div 4) + ((k - 1) % 4) + 1
      OBVIOUS
    <3> QED
      BY <3>1
  <2>3. 4 * i < len
    BY <2>2
  <2>4. /\ s[4 * i + 1] = To("SELECT", 0) /\ s[4 * i + 2] = To("CSW", "word")
        /\ s[4 * i + 3] = To("TAR", dst + 4 * i) /\ s[4 * i + 4] = To("DRW", words[i + 1])
    BY <1>2, <2>3, CopyOf
  <2>5. dst + 4 * i \in Nat /\ (dst + 4 * i \in RamWords => words[i + 1] = Wanted(dst + 4 * i))
    BY <2>3
  <2> HIDE DEF s
  <2>6. CASE r = 0
    <3>1. s[k] = To("SELECT", 0)
      BY <2>2, <2>4, <2>6
    <3> QED
      BY <3>1 DEF Meant, To, Writes, ToAP
  <2>7. CASE r = 1
    <3>1. k = 4 * i + 2 /\ k - 1 = 4 * i + 1 /\ k > 1
      BY <2>2, <2>7
    <3>2. s[k] = To("CSW", "word") /\ s[k - 1] = To("SELECT", 0)
      BY <2>4, <3>1
    <3> QED
      BY <3>1, <3>2 DEF Meant, To, Writes, ToAP
  <2>8. CASE r = 2
    <3>1. k = 4 * i + 3 /\ k - 1 = 4 * i + 2 /\ k > 1
      BY <2>2, <2>8
    <3>2. s[k] = To("TAR", dst + 4 * i) /\ s[k - 1] = To("CSW", "word")
      BY <2>4, <3>1
    <3> QED
      BY <2>5, <3>1, <3>2 DEF Meant, To, Writes, ToAP
  <2>9. CASE r = 3
    <3>1. k = 4 * i + 4 /\ k - 1 = 4 * i + 3 /\ k > 1
      BY <2>2, <2>9
    <3>2. s[k] = To("DRW", words[i + 1]) /\ s[k - 1] = To("TAR", dst + 4 * i)
      BY <2>4, <3>1
    <3> QED
      BY <2>5, <3>1, <3>2 DEF Meant, To, Writes, ToAP
  <2> QED
    BY <2>6, <2>7, <2>8, <2>9
<1> QED
  BY <1>1, <1>2

Refuses(s) == \E k \in 1..Len(s) : s[k].reg = "EINVAL"
Puts(s, a, v) == \E k \in 2..Len(s) : s[k] = To("DRW", v) /\ s[k - 1] = To("TAR", a)
Begins(s) == Len(s) > 1 /\ s[1].reg = "CTRLSTAT" /\ s[2].reg = "readCTRLSTAT"
Ends(s) == Len(s) > 0 /\ s[Len(s)].reg = "RDBUFF"

(* What two lists in a row refuse, write, begin and end with. *)
LEMMA JoinedLists ==
  ASSUME NEW s, NEW t, IsSeq(s), IsSeq(t)
  PROVE  /\ Refuses(s \o t) <=> Refuses(s) \/ Refuses(t)
         /\ \A a, v : Puts(s, a, v) \/ Puts(t, a, v) => Puts(s \o t, a, v)
         /\ Begins(s) => Begins(s \o t)
         /\ Ends(t) => Ends(s \o t)
<1> DEFINE c == s \o t
<1>1. Joined(c, s, t)
  BY Concatenated
<1> HIDE DEF c
<1>2. /\ Len(s) \in Nat /\ Len(t) \in Nat /\ Len(c) = Len(s) + Len(t)
      /\ \A k \in 1..Len(s) : k \in 1..Len(c) /\ c[k] = s[k]
  BY <1>1 DEF Joined
<1>3. \A k \in 1..Len(t) : Len(s) + k \in 1..Len(c) /\ c[Len(s) + k] = t[k]
  <2> TAKE k \in 1..Len(t)
  <2>1. PICK j \in 1..Len(c) : j = Len(s) + k /\ j > Len(s) /\ j - Len(s) = k
    BY <1>2
  <2> QED
    BY <1>1, <2>1 DEF Joined
<1>4. Refuses(c) => Refuses(s) \/ Refuses(t)
  <2> SUFFICES ASSUME NEW k \in 1..Len(c), c[k].reg = "EINVAL"
               PROVE  Refuses(s) \/ Refuses(t)
    BY DEF Refuses
  <2>1. CASE k <= Len(s)
    BY <1>2, <2>1 DEF Refuses
  <2>2. CASE k > Len(s)
    <3>1. k - Len(s) \in 1..Len(t) /\ c[k] = t[k - Len(s)]
      BY <1>1, <2>2 DEF Joined
    <3> QED
      BY <3>1 DEF Refuses
  <2> QED
    BY <1>2, <2>1, <2>2
<1>5. Refuses(s) \/ Refuses(t) => Refuses(c)
  BY <1>2, <1>3 DEF Refuses
<1>6. \A a, v : Puts(s, a, v) => Puts(c, a, v)
  <2> SUFFICES ASSUME NEW a, NEW v, NEW k \in 2..Len(s),
                      s[k] = To("DRW", v), s[k - 1] = To("TAR", a)
               PROVE  Puts(c, a, v)
    BY DEF Puts
  <2>1. k \in 2..Len(c) /\ k \in 1..Len(s) /\ k - 1 \in 1..Len(s)
    BY <1>2
  <2>2. c[k] = s[k] /\ c[k - 1] = s[k - 1]
    BY <1>2, <2>1
  <2> QED
    BY <2>1, <2>2 DEF Puts
<1>7. \A a, v : Puts(t, a, v) => Puts(c, a, v)
  <2> SUFFICES ASSUME NEW a, NEW v, NEW k \in 2..Len(t),
                      t[k] = To("DRW", v), t[k - 1] = To("TAR", a)
               PROVE  Puts(c, a, v)
    BY DEF Puts
  <2>1. k \in 1..Len(t) /\ k - 1 \in 1..Len(t)
    BY <1>2
  <2>2. PICK j \in 2..Len(c) : j = Len(s) + k /\ j - 1 = Len(s) + (k - 1)
    BY <1>2
  <2>3. c[j] = t[k] /\ c[j - 1] = t[k - 1]
    BY <1>3, <2>1, <2>2
  <2> QED
    BY <2>3 DEF Puts
<1>8. Begins(s) => Begins(c)
  <2>1. Len(s) > 1 => 1 \in 1..Len(s) /\ 2 \in 1..Len(s) /\ Len(c) > 1
    BY <1>2
  <2> QED
    BY <1>2, <2>1 DEF Begins
<1>9. Ends(t) => Ends(c)
  <2>1. Len(t) > 0 => Len(t) \in 1..Len(t) /\ Len(c) > 0
    BY <1>2
  <2> QED
    BY <1>2, <1>3, <2>1 DEF Ends
<1> QED
  BY <1>4, <1>5, <1>6, <1>7, <1>8, <1>9 DEF c

(* mem_write32() writes its one word, and refuses nothing. *)
LEMMA WriteRefuses ==
  ASSUME NEW a, NEW w
  PROVE  ~Refuses(mem_write32(a, w)) /\ Puts(mem_write32(a, w), a, w)
<1> DEFINE s == mem_write32(a, w)
<1>1. /\ Len(s) = 4
      /\ s[1] = To("SELECT", 0) /\ s[2] = To("CSW", "word") /\ s[3] = To("TAR", a)
      /\ s[4] = To("DRW", w)
  BY WriteIs
<1>2. \A k \in 1..4 : k = 1 \/ k = 2 \/ k = 3 \/ k = 4
  OBVIOUS
<1>3. 4 \in 2..4 /\ 4 - 1 = 3
  OBVIOUS
<1> HIDE DEF s
<1>4. ~Refuses(s)
  BY <1>1, <1>2 DEF Refuses, To
<1>5. Puts(s, a, w)
  BY <1>1, <1>3 DEF Puts
<1> QED
  BY <1>4, <1>5 DEF s

(* A copy is refused exactly if it is not aligned. *)
LEMMA CopyRefuses ==
  ASSUME NEW dst \in Nat, NEW words, NEW len \in Nat, dst % 4 = 0
  PROVE  Refuses(flm_copy_to_ram(dst, words, len)) <=> len % 4 # 0
<1> DEFINE s == flm_copy_to_ram(dst, words, len)
<1>1. CASE len % 4 # 0
  <2>1. s = <<From("EINVAL")>>
    BY <1>1 DEF flm_copy_to_ram
  <2> HIDE DEF s
  <2>2. Len(s) = 1 /\ s[1].reg = "EINVAL"
    BY <2>1, RefusedCopy
  <2>3. Refuses(s)
    BY <2>2 DEF Refuses
  <2> QED
    BY <1>1, <2>3 DEF s
<1>2. CASE len % 4 = 0
  <2>1. Len(s) = len
    BY <1>2, CopyIs
  <2> SUFFICES ASSUME NEW k \in 1..len PROVE s[k].reg # "EINVAL"
    BY <1>2, <2>1 DEF Refuses
  <2> DEFINE i == (k - 1) \div 4
             r == (k - 1) % 4
             w == mem_write32(dst + 4 * i, words[i + 1])
  <2>2. s[k] = w[r + 1]
    BY <1>2, CopyIs
  <2>3. Len(w) = 4 /\ ~Refuses(w)
    BY WriteIs, WriteRefuses
  <2>4. r + 1 \in 1..4
    OBVIOUS
  <2> HIDE DEF s, w, r
  <2> QED
    BY <2>2, <2>3, <2>4 DEF Refuses
<1> QED
  BY <1>1, <1>2

(* A copy writes each of its words. *)
LEMMA CopyPuts ==
  ASSUME NEW dst \in Nat, NEW words, NEW len \in Nat, dst % 4 = 0, len % 4 = 0,
         NEW i \in Nat, 4 * i < len
  PROVE  Puts(flm_copy_to_ram(dst, words, len), dst + 4 * i, words[i + 1])
<1> DEFINE s == flm_copy_to_ram(dst, words, len)
<1>1. /\ 4 * i + 4 <= len
      /\ s[4 * i + 3] = To("TAR", dst + 4 * i) /\ s[4 * i + 4] = To("DRW", words[i + 1])
  BY CopyOf
<1>2. Len(s) = len
  BY CopyIs
<1> HIDE DEF s
<1>3. PICK k \in 2..len : k = 4 * i + 4 /\ k - 1 = 4 * i + 3
  BY <1>1
<1>4. Puts(s, dst + 4 * i, words[i + 1])
  BY <1>1, <1>2, <1>3 DEF Puts
<1> QED
  BY <1>4 DEF s

(* cm_halt() refuses nothing and ends with the value of a poll. *)
LEMMA HaltEnds == ~Refuses(cm_halt) /\ Ends(cm_halt)
<1>1. \A k \in 1..9 : k \in {1, 2, 3, 4, 5, 6, 7, 8, 9}
  OBVIOUS
<1> DEFINE s == cm_halt
<1>2. /\ Len(s) = 9
      /\ s[1] = To("SELECT", 0) /\ s[2] = To("CSW", "word") /\ s[3] = To("TAR", DHCSR)
      /\ s[4] = To("DRW", "halt")
      /\ s[5] = To("SELECT", 0) /\ s[6] = To("CSW", "word") /\ s[7] = To("TAR", DHCSR)
      /\ s[8] = From("readDRW") /\ s[9] = From("RDBUFF")
  BY HaltIs
<1> HIDE DEF s
<1> QED
  BY <1>1, <1>2 DEF Refuses, Ends, To, From, s

(* dap_init() refuses nothing and begins with the request for power. *)
LEMMA PowerUpBegins == ~Refuses(dap_init) /\ Begins(dap_init)
<1>1. \A k \in 1..3 : k = 1 \/ k = 2 \/ k = 3
  OBVIOUS
<1> DEFINE s == dap_init
<1>2. /\ Len(s) = 3
      /\ s[1] = To("CTRLSTAT", "powerup") /\ s[2] = From("readCTRLSTAT") /\ s[3] = To("SELECT", 0)
  BY PowerUpIs
<1> HIDE DEF s
<1> QED
  BY <1>1, <1>2 DEF Refuses, Begins, To, From, s

(* fr_attach() powers the debug port up and halts. *)
LEMMA AttachMeant ==
  WellMeant(fr_attach) /\ ~Refuses(fr_attach) /\ Begins(fr_attach) /\ Ends(fr_attach)
<1>1. WellMeant(dap_init) /\ WellMeant(cm_halt)
  BY PowerUpIs, HaltMeant
<1>2. IsSeq(dap_init) /\ IsSeq(cm_halt)
  BY <1>1 DEF WellMeant
<1>3. WellMeant(dap_init \o cm_halt)
  BY <1>1, BothMeant
<1>4. /\ ~Refuses(dap_init \o cm_halt)
      /\ Begins(dap_init \o cm_halt) /\ Ends(dap_init \o cm_halt)
  BY <1>2, JoinedLists, HaltEnds, PowerUpBegins
<1> QED
  BY <1>3, <1>4 DEF fr_attach

WorkFits ==
  /\ img.code_size \in Nat /\ img.data_size \in Nat
  /\ work = fr_work(img.code_size, img.data_size) /\ LaidOut(work)

(* The three parts of the work area do not meet, so Wanted has one value.  *)
LEMMA WantedIs ==
  ASSUME WorkFits
  PROVE  /\ work.code_base \in Nat /\ work.code_base % 4 = 0
         /\ work.data_base \in Nat /\ work.data_base % 4 = 0
         /\ BkptOf(work, img.data_size) \in Nat
         /\ \A i \in Nat : 4 * i < img.code_size
                             => img.code[i + 1] = Wanted(work.code_base + 4 * i)
         /\ \A i \in Nat : 4 * i < img.data_size
                             => img.data[i + 1] = Wanted(work.data_base + 4 * i)
         /\ Wanted(BkptOf(work, img.data_size)) = BKPT
<1> DEFINE cb == work.code_base
           db == work.data_base
           cs == img.code_size
           ds == img.data_size
           bk == BkptOf(work, ds)
<1>1. cb = RAM_BASE /\ db = align4(RAM_BASE + cs) /\ bk = align4(db + ds)
  BY DEF WorkFits, fr_work, BkptOf
<1>2. cs \in Nat /\ ds \in Nat
  BY DEF WorkFits
<1>3. cb \in Nat /\ cb % 4 = 0
  BY <1>1, LayoutAssumption
<1>4. db \in Nat /\ db % 4 = 0
  BY <1>1, <1>2, AlignUp, LayoutAssumption
<1>5. bk \in Nat
  BY <1>1, <1>2, <1>4, AlignUp
<1>6. cb + cs <= db /\ db + ds <= bk
  BY Apart DEF WorkFits
<1>7. ASSUME NEW i \in Nat, 4 * i < cs
      PROVE  img.code[i + 1] = Wanted(cb + 4 * i)
  <2> DEFINE a == cb + 4 * i
  <2>1. a \in cb..(cb + cs - 1) /\ a \notin db..(db + ds - 1) /\ a # bk
    BY <1>2, <1>3, <1>4, <1>5, <1>6, <1>7
  <2>2. (a - cb) \div 4 + 1 = i + 1
    BY <1>3
  <2> HIDE DEF a
  <2>3. Wanted(a) = img.code[i + 1]
    BY <2>1, <2>2 DEF Wanted
  <2> QED
    BY <2>3 DEF a
<1>8. ASSUME NEW i \in Nat, 4 * i < ds
      PROVE  img.data[i + 1] = Wanted(db + 4 * i)
  <2> DEFINE a == db + 4 * i
  <2>1. a \notin cb..(cb + cs - 1) /\ a \in db..(db + ds - 1) /\ a # bk
    BY <1>2, <1>3, <1>4, <1>5, <1>6, <1>8
  <2>2. (a - db) \div 4 + 1 = i + 1
    BY <1>4
  <2> HIDE DEF a
  <2>3. Wanted(a) = img.data[i + 1]
    BY <2>1, <2>2 DEF Wanted
  <2> QED
    BY <2>3 DEF a
<1>9. Wanted(bk) = BKPT
  <2>1. bk \notin cb..(cb + cs - 1) /\ bk \notin db..(db + ds - 1)
    BY <1>2, <1>3, <1>4, <1>5, <1>6
  <2> QED
    BY <2>1 DEF Wanted
<1> QED
  BY <1>3, <1>4, <1>5, <1>7, <1>8, <1>9

(* The words of a region that is aligned are at its multiples of four. *)
LEMMA WordIn ==
  ASSUME NEW base \in Nat, NEW size \in Nat, NEW a \in base..(base + size - 1),
         base % 4 = 0, a % 4 = 0
  PROVE  \E i \in Nat : a = base + 4 * i /\ 4 * i < size
<1>1. PICK b \in Nat : base = 4 * b
  <2>1. base \div 4 \in Nat /\ base = 4 * (base \div 4)
    OBVIOUS
  <2> QED
    BY <2>1
<1>2. PICK c \in Nat : a = 4 * c
  <2>1. a \div 4 \in Nat /\ a = 4 * (a \div 4)
    OBVIOUS
  <2> QED
    BY <2>1
<1>3. c - b \in Nat /\ a = base + 4 * (c - b) /\ 4 * (c - b) < size
  BY <1>1, <1>2
<1> QED
  BY <1>3

(* flm_load(): each write to the RAM is wanted, and unless a size is not   *)
(* one of whole words, all that is wanted is written.                      *)
LEMMA LoadMeant ==
  ASSUME WorkFits
  PROVE  /\ WellMeant(flm_load) /\ Begins(flm_load) /\ Ends(flm_load)
         /\ Refuses(flm_load) <=> img.code_size % 4 # 0 \/ img.data_size % 4 # 0
         /\ ~Refuses(flm_load) =>
              \A a \in RamWords : Wanted(a) # Fw => Puts(flm_load, a, Wanted(a))
<1> DEFINE cb == work.code_base
           db == work.data_base
           cs == img.code_size
           ds == img.data_size
           bk == BkptOf(work, ds)
           code == flm_copy_to_ram(cb, img.code, cs)
           data == flm_copy_to_ram(db, img.data, ds)
           stub == mem_write32(bk, BKPT)
           p1 == dap_init \o code
           p2 == p1 \o data
           p3 == p2 \o stub
           p4 == p3 \o cm_halt
<1>1. /\ cb \in Nat /\ cb % 4 = 0 /\ db \in Nat /\ db % 4 = 0 /\ bk \in Nat
      /\ \A i \in Nat : 4 * i < cs => img.code[i + 1] = Wanted(cb + 4 * i)
      /\ \A i \in Nat : 4 * i < ds => img.data[i + 1] = Wanted(db + 4 * i)
      /\ Wanted(bk) = BKPT
  BY WantedIs
<1>2. cs \in Nat /\ ds \in Nat
  BY DEF WorkFits
<1>3. WellMeant(dap_init) /\ WellMeant(cm_halt)
  BY PowerUpIs, HaltMeant
<1>4. WellMeant(code) /\ WellMeant(data) /\ WellMeant(stub)
  BY <1>1, <1>2, CopyMeant, WriteMeant
<1>5. flm_load = p4
  BY DEF flm_load
<1>6. WellMeant(p1) /\ WellMeant(p2) /\ WellMeant(p3) /\ WellMeant(p4)
  <2> HIDE DEF code, data, stub
  <2>1. WellMeant(p1)
    BY <1>3, <1>4, BothMeant
  <2> HIDE DEF p1
  <2>2. WellMeant(p2)
    BY <1>4, <2>1, BothMeant
  <2> HIDE DEF p2
  <2>3. WellMeant(p3)
    BY <1>4, <2>2, BothMeant
  <2> HIDE DEF p3
  <2>4. WellMeant(p4)
    BY <1>3, <2>3, BothMeant
  <2> QED
    BY <2>1, <2>2, <2>3, <2>4
<1>7. Refuses(code) <=> cs % 4 # 0
  BY <1>1, <1>2, CopyRefuses
<1>8. Refuses(data) <=> ds % 4 # 0
  BY <1>1, <1>2, CopyRefuses
<1>9. /\ ~Refuses(stub) /\ ~Refuses(dap_init) /\ ~Refuses(cm_halt)
      /\ Begins(dap_init) /\ Ends(cm_halt)
      /\ Puts(stub, bk, BKPT)
  BY WriteRefuses, PowerUpBegins, HaltEnds
<1>10. cs % 4 = 0 => \A i \in Nat : 4 * i < cs => Puts(code, cb + 4 * i, Wanted(cb + 4 * i))
  BY <1>1, <1>2, CopyPuts
<1>11. ds % 4 = 0 => \A i \in Nat : 4 * i < ds => Puts(data, db + 4 * i, Wanted(db + 4 * i))
  BY <1>1, <1>2, CopyPuts
<1>12. /\ IsSeq(dap_init) /\ IsSeq(code) /\ IsSeq(data) /\ IsSeq(stub) /\ IsSeq(cm_halt)
       /\ IsSeq(p1) /\ IsSeq(p2) /\ IsSeq(p3)
  BY <1>3, <1>4, <1>6 DEF WellMeant
<1> HIDE DEF code, data, stub
<1>13. /\ Begins(p1)
       /\ Refuses(p1) <=> Refuses(code)
       /\ \A a, v : Puts(code, a, v) => Puts(p1, a, v)
  BY <1>9, <1>12, JoinedLists
<1> HIDE DEF p1
<1>14. /\ Begins(p2)
       /\ Refuses(p2) <=> Refuses(code) \/ Refuses(data)
       /\ \A a, v : Puts(p1, a, v) \/ Puts(data, a, v) => Puts(p2, a, v)
  BY <1>12, <1>13, JoinedLists
<1> HIDE DEF p2
<1>15. /\ Begins(p3)
       /\ Refuses(p3) <=> Refuses(code) \/ Refuses(data)
       /\ \A a, v : Puts(p2, a, v) \/ Puts(stub, a, v) => Puts(p3, a, v)
  BY <1>9, <1>12, <1>14, JoinedLists
<1> HIDE DEF p3
<1>16. /\ Begins(p4) /\ Ends(p4)
       /\ Refuses(p4) <=> Refuses(code) \/ Refuses(data)
       /\ \A a, v : Puts(p3, a, v) => Puts(p4, a, v)
  BY <1>9, <1>12, <1>15, JoinedLists
<1> HIDE DEF p4
<1>17. \A a, v : Puts(code, a, v) \/ Puts(data, a, v) \/ Puts(stub, a, v) => Puts(p4, a, v)
  BY <1>13, <1>14, <1>15, <1>16
<1>18. ASSUME NEW a \in RamWords, Wanted(a) # Fw, cs % 4 = 0, ds % 4 = 0
       PROVE  Puts(p4, a, Wanted(a))
  <2>1. a \in Nat /\ a % 4 = 0
    BY LayoutAssumption DEF RamWords
  <2>2. CASE a \in cb..(cb + cs - 1)
    <3>1. PICK i \in Nat : a = cb + 4 * i /\ 4 * i < cs
      BY <1>1, <1>2, <2>1, <2>2, WordIn
    <3> QED
      BY <1>10, <1>17, <1>18, <3>1
  <2>3. CASE a \in db..(db + ds - 1)
    <3>1. PICK i \in Nat : a = db + 4 * i /\ 4 * i < ds
      BY <1>1, <1>2, <2>1, <2>3, WordIn
    <3> QED
      BY <1>11, <1>17, <1>18, <3>1
  <2>4. CASE a = bk
    BY <1>1, <1>9, <1>17, <2>4
  <2>5. CASE a \notin cb..(cb + cs - 1) /\ a \notin db..(db + ds - 1) /\ a # bk
    <3>1. Wanted(a) = Fw
      BY <2>5 DEF Wanted
    <3> QED
      BY <1>18, <3>1
  <2> QED
    BY <2>2, <2>3, <2>4, <2>5
<1>19. Refuses(p4) <=> cs % 4 # 0 \/ ds % 4 # 0
  BY <1>7, <1>8, <1>16
<1> QED
  BY <1>5, <1>6, <1>16, <1>18, <1>19

-------------------------------------------------------------------------------
(* The invariant *)

(* The image is that of the file on the card, the layout that of the image. *)
ImageInv ==
  /\ file \in Files
  /\ img.code_size \in Nat /\ img.data_size \in Nat
  /\ pc \in {"attach", "layout", "load"} \/ Loaded => Parses(file) /\ img = flm_image(file)
  /\ pc = "load" \/ Loaded => work = fr_work(img.code_size, img.data_size) /\ LaidOut(work)

(* What an access that has been carried out leaves to the next one. *)
PreparedFor(b) ==
  /\ b.reg = "SELECT" => select = 0
  /\ b.reg = "CSW" => select = 0 /\ csw = "word"
  /\ b.reg = "TAR" => select = 0 /\ csw = "word" /\ tar = b.v
  /\ b.reg = "readDRW" /\ rdbuff => core = "halted"

(* No access to the AP before it has power, none after one that is         *)
(* refused, and unless a write was dropped, all before have had an effect. *)
AccessInv ==
  Accesses =>
    /\ n > 2 => power = "on"
    /\ \A k \in 1..(n - 1) : todo[k].reg # "EINVAL"
    /\ ~sticky /\ n > 1 => PreparedFor(todo[n - 1])

(* The RAM is written only while the core is halted, and unless a write    *)
(* was dropped, keeps what was written.                                    *)
MemInv ==
  /\ pc \in {"layout", "load"} \/ Loaded => core = "halted"
  /\ pc = "load" /\ ~sticky =>
       \A k \in 2..(n - 1) :
         todo[k].reg = "DRW" /\ todo[k - 1].v \in RamWords => mem[todo[k - 1].v] = todo[k].v

DoneInv ==
  /\ LoadedExactly /\ FaultFreeLoads
  /\ Loaded => img.code_size % 4 = 0 /\ img.data_size % 4 = 0
  /\ faults = 0 => ~sticky

LoadInv == TypeOK /\ ImageInv /\ AccessInv /\ MemInv /\ DoneInv

(* Every step keeps what is known of image and layout. *)
LEMMA ImageStep ==
  ASSUME ImageInv, [Next]_vars
  PROVE  ImageInv'
<1> USE DEF ImageInv, Loaded
<1>1. CASE Start
  <2>1. CASE Parses(file)
    <3>1. HasSection(file, "PrgCode") /\ HasSection(file, "PrgData")
      BY <2>1 DEF Parses
    <3>2. flm_image(file).code_size \in Nat /\ flm_image(file).data_size \in Nat
      BY <3>1, SectionFound DEF flm_image
    <3> QED
      BY <1>1, <2>1, <3>2 DEF Start
  <2>2. CASE ~Parses(file)
    BY <1>1, <2>2 DEF Start, Return
  <2> QED
    BY <2>1, <2>2
<1>2. CASE Layout
  BY <1>2 DEF Layout, Return
<1>3. CASE Access
  <2>1. Proceed \/ Return("err") \/ UNCHANGED <<pc, rc, img, work>>
    BY <1>3 DEF Access, AccessDone, PollAgain
  <2>2. file' = file /\ Accesses
    BY <1>3 DEF Access, AccessDone
  <2> QED
    BY <2>1, <2>2 DEF Proceed, Return, Accesses
<1>4. CASE AccessDropped
  BY <1>4 DEF AccessDropped, Proceed, Return, Accesses
<1>5. CASE AccessFaults \/ AccessFails
  BY <1>5 DEF AccessFaults, AccessFails, Return
<1>6. CASE NextBoot \/ HostReset
  BY <1>6 DEF NextBoot, HostReset, Boot
<1>7. CASE PowerComes \/ CoreHalts \/ FirmwareWrites \/ UNCHANGED vars
  BY <1>7 DEF PowerComes, CoreHalts, FirmwareWrites, vars, host
<1> QED
  BY <1>1, <1>2, <1>3, <1>4, <1>5, <1>6, <1>7 DEF Next, Driver

(* RegionsApart, for every .FLM and every configuration of the RAM: from   *)
(* fr_work_layout() in fr8016.c to the copies of flm_load() in flm.c, the  *)
(* work area never overlaps itself, the page buffer or the stack.          *)
THEOREM LayoutSafe == Spec => []RegionsApart
<1>1. Init => ImageInv
  BY DEF Init, NoImage, ImageInv, Loaded
<1>2. ImageInv /\ [Next]_vars => ImageInv'
  BY ImageStep
<1>3. ImageInv => RegionsApart
  BY Apart DEF ImageInv, RegionsApart
<1> QED
  BY <1>1, <1>2, <1>3, PTL DEF Spec

-------------------------------------------------------------------------------
(* What the invariant of the image says of the accesses of a function *)

(* fr_attach() writes to no word of the RAM. *)
LEMMA AttachKeepsRam ==
  \A k \in 1..Len(fr_attach) :
    fr_attach[k].reg = "DRW" => k > 1 /\ fr_attach[k - 1].v \notin RamWords
<1> DEFINE s == cm_halt
           p == dap_init
           c == p \o s
<1>1. /\ Len(s) = 9
      /\ s[1] = To("SELECT", 0) /\ s[2] = To("CSW", "word") /\ s[3] = To("TAR", DHCSR)
      /\ s[4] = To("DRW", "halt")
      /\ s[5] = To("SELECT", 0) /\ s[6] = To("CSW", "word") /\ s[7] = To("TAR", DHCSR)
      /\ s[8] = From("readDRW") /\ s[9] = From("RDBUFF")
  BY HaltIs
<1>2. /\ Len(p) = 3
      /\ p[1] = To("CTRLSTAT", "powerup") /\ p[2] = From("readCTRLSTAT") /\ p[3] = To("SELECT", 0)
  BY PowerUpIs
<1>3. Joined(c, p, s)
  BY PowerUpIs, HaltIs, Concatenated DEF WellMeant
<1>4. fr_attach = c
  BY DEF fr_attach
<1>5. DHCSR \notin RamWords
  BY LayoutAssumption, LoadAssumption DEF DHCSR, RamWords
<1> HIDE DEF s, p, c
<1>6. /\ Len(c) = 12
      /\ \A k \in 1..3 : c[k] = p[k]
      /\ \A k \in 4..12 : c[k] = s[k - 3]
  BY <1>1, <1>2, <1>3 DEF Joined
<1>7. \A k \in 1..3 : c[k].reg # "DRW"
  <2>1. \A k \in 1..3 : k = 1 \/ k = 2 \/ k = 3
    OBVIOUS
  <2> QED
    BY <1>2, <1>6, <2>1 DEF To, From
<1>8. \A k \in 1..9 : s[k].reg = "DRW" => k = 4
  <2>1. \A k \in 1..9 : k \in {1, 2, 3, 4, 5, 6, 7, 8, 9}
    OBVIOUS
  <2> QED
    BY <1>1, <2>1 DEF To, From
<1>9. \A k \in 1..12 : c[k].reg = "DRW" => k = 7
  <2> TAKE k \in 1..12
  <2>1. k \in 1..3 \/ (k \in 4..12 /\ k - 3 \in 1..9)
    OBVIOUS
  <2> QED
    BY <1>6, <1>7, <1>8, <2>1
<1>10. c[6] = To("TAR", DHCSR)
  <2>1. 6 \in 4..12 /\ 6 - 3 = 3
    OBVIOUS
  <2> QED
    BY <1>1, <1>6, <2>1
<1> QED
  BY <1>4, <1>5, <1>6, <1>9, <1>10 DEF To

Planned ==
  /\ Accesses => WellMeant(todo) /\ Begins(todo) /\ Ends(todo)
  /\ pc = "attach" =>
       /\ ~Refuses(todo)
       /\ \A k \in 1..Len(todo) :
            todo[k].reg = "DRW" => k > 1 /\ todo[k - 1].v \notin RamWords
  /\ pc = "load" =>
       /\ Refuses(todo) <=> img.code_size % 4 # 0 \/ img.data_size % 4 # 0
       /\ ~Refuses(todo) => \A a \in RamWords : Wanted(a) # Fw => Puts(todo, a, Wanted(a))

(* The list of accesses is meant, in either phase. *)
LEMMA PlanFacts == ImageInv => Planned
<1> SUFFICES ASSUME ImageInv PROVE Planned
  OBVIOUS
<1>1. CASE pc = "attach"
  <2>1. todo = fr_attach
    BY <1>1 DEF todo
  <2> QED
    BY <1>1, <2>1, AttachMeant, AttachKeepsRam DEF Planned
<1>2. CASE pc = "load"
  <2>1. todo = flm_load
    BY <1>2 DEF todo
  <2>2. WorkFits
    BY <1>2 DEF ImageInv, WorkFits
  <2> QED
    BY <1>2, <2>1, <2>2, LoadMeant DEF Planned
<1> QED
  BY <1>1, <1>2 DEF Planned, Accesses

(* It stays the same as long as image and layout do. *)
LEMMA SameTodo ==
  ASSUME UNCHANGED <<pc, img, work>>
  PROVE  todo' = todo /\ Accesses' = Accesses
BY DEF todo, fr_attach, flm_load, Accesses

-------------------------------------------------------------------------------
(* Steps *)

TargetType ==
  /\ power \in {"off", "requested", "on"} /\ select \in {0, 1} /\ csw \in {"byte", "word"}
  /\ tar \in Nat /\ rdbuff \in BOOLEAN /\ sticky \in BOOLEAN
  /\ core \in {"running", "halting", "halted"}
  /\ DOMAIN mem = RamWords

(* What an access does that is meant at its place in the list. *)
LEMMA PerformTyped ==
  ASSUME TargetType, NEW s, NEW k \in Nat, Meant(s, k), Perform(s[k])
  PROVE  TargetType'
<1>1. power' \in {"off", "requested", "on"} /\ select' \in {0, 1} /\ csw' \in {"byte", "word"}
  BY DEF Perform, TargetType, Meant
<1>2. tar' \in Nat
  <2>1. s[k].reg = "TAR" => s[k].v \in Nat
    BY DEF Meant
  <2>2. tar' \in {s[k].v, tar + 4, tar} /\ (s[k].reg # "TAR" => tar' \in {tar + 4, tar})
    BY DEF Perform
  <2> QED
    BY <2>1, <2>2 DEF TargetType
<1>3. /\ rdbuff' \in BOOLEAN /\ sticky' \in BOOLEAN
      /\ core' \in {"running", "halting", "halted"}
  BY DEF Perform, TargetType
<1>4. DOMAIN mem' = RamWords
  BY DEF Perform, TargetType
<1> QED
  BY <1>1, <1>2, <1>3, <1>4 DEF TargetType

(* An access leaves the port prepared for those that are meant after it. *)
LEMMA PerformPrepares ==
  ASSUME TargetType, NEW s, NEW k \in Nat, Meant(s, k), Perform(s[k]),
         k > 1 => PreparedFor(s[k - 1])
  PROVE  PreparedFor(s[k])'
<1>1. CASE s[k].reg = "SELECT"
  BY <1>1 DEF Perform, Meant, PreparedFor
<1>2. CASE s[k].reg = "CSW"
  BY <1>2 DEF Perform, Meant, PreparedFor
<1>3. CASE s[k].reg = "TAR"
  BY <1>3 DEF Perform, Meant, PreparedFor
<1>4. CASE s[k].reg = "readDRW"
  <2>1. k > 1 /\ s[k - 1].reg = "TAR" /\ s[k - 1].v = DHCSR
    BY <1>4 DEF Meant
  <2>2. Transfers
    BY <2>1 DEF PreparedFor, Transfers
  <2>3. rdbuff' => core = "halted"
    BY <1>4, <2>2 DEF Perform
  <2>4. core' = core
    BY <1>4 DEF Perform
  <2> QED
    BY <1>4, <2>3, <2>4 DEF PreparedFor
<1> QED
  BY <1>1, <1>2, <1>3, <1>4 DEF PreparedFor

(* Only a write to DRW changes a word, that at the address in TAR, and     *)
(* only into what is wanted there.                                         *)
LEMMA PerformWrites ==
  ASSUME TargetType, NEW s, NEW k \in Nat, Meant(s, k), Perform(s[k]),
         k > 1 => PreparedFor(s[k - 1])
  PROVE  /\ \A a \in RamWords :
              mem'[a] # mem[a] => /\ s[k].reg = "DRW" /\ k > 1 /\ s[k - 1].v = a
                                  /\ mem'[a] = Wanted(a)
         /\ s[k].reg = "DRW" /\ s[k - 1].v \in RamWords => mem'[s[k - 1].v] = s[k].v
<1>1. CASE s[k].reg = "DRW"
  <2>1. /\ k > 1 /\ s[k - 1].reg = "TAR"
        /\ s[k - 1].v \in RamWords => s[k].v = Wanted(s[k - 1].v)
    BY <1>1 DEF Meant
  <2>2. Transfers /\ tar = s[k - 1].v
    BY <2>1 DEF PreparedFor, Transfers
  <2>3. mem' = IF tar \in RamWords THEN [mem EXCEPT ![tar] = s[k].v] ELSE mem
    BY <1>1, <2>2 DEF Perform
  <2>4. DOMAIN mem = RamWords
    BY DEF TargetType
  <2>5. tar \in RamWords => \A a \in RamWords : mem'[a] = IF a = tar THEN s[k].v ELSE mem[a]
    BY <2>3, <2>4
  <2> QED
    BY <1>1, <2>1, <2>2, <2>3, <2>5
<1>2. CASE s[k].reg # "DRW"
  BY <1>2 DEF Perform
<1> QED
  BY <1>1, <1>2

(* Returning an error keeps the invariant, if the file cannot be loaded or *)
(* a poll has run out, or else an access has failed.                       *)
LEMMA ErrorReturn ==
  ASSUME LoadInv, Return("err"), file' = file, ImageInv', TargetType', faults' \in 0..MaxFaults,
         faults' = 0 => ~sticky' /\ (~Loadable \/ tries = 1)
  PROVE  LoadInv'
<1>1. /\ pc' = "returned" /\ rc' = "err" /\ n' = 1 /\ tries' = tries
      /\ ~Accesses' /\ ~Loaded'
  BY DEF Return, Accesses, Loaded
<1>2. TypeOK'
  BY <1>1 DEF LoadInv, TypeOK, TargetType
<1>3. AccessInv' /\ MemInv'
  BY <1>1 DEF AccessInv, MemInv
<1>4. Loadable' = Loadable
  BY DEF Loadable
<1>5. DoneInv'
  BY <1>1, <1>4 DEF DoneInv, LoadedExactly, FaultFreeLoads
<1> QED
  BY <1>2, <1>3, <1>5 DEF LoadInv

(* Loadable, in the sizes of the image. *)
LEMMA LoadableSizes ==
  ASSUME ImageInv, pc \in {"attach", "layout", "load"} \/ Loaded
  PROVE  Loadable <=> /\ img.code_size % 4 = 0 /\ img.data_size % 4 = 0
                      /\ img.code_size + img.data_size + 4 + FR_PAGE_BUF_SIZE
                           + FLM_REQUIRED_STACK_SIZE <= RAM_SIZE
<1>1. Parses(file) /\ img = flm_image(file)
  BY DEF ImageInv
<1>2. /\ img.code_size = sec_get(file, "PrgCode").size
      /\ img.data_size = sec_get(file, "PrgData").size
  BY <1>1 DEF flm_image
<1> QED
  BY <1>1, <1>2 DEF Loadable

(* Sizes of whole words are laid out without a gap. *)
LEMMA WholeWords ==
  ASSUME NEW c \in Nat, NEW d \in Nat, c % 4 = 0, d % 4 = 0
  PROVE  LaidOut(fr_work(c, d)) <=>
           c + d + 4 + FR_PAGE_BUF_SIZE + FLM_REQUIRED_STACK_SIZE <= RAM_SIZE
<1>1. \A a \in Nat : a % 4 = 0 => align4(a) = a
  BY DEF align4
<1>2. RAM_BASE + c \in Nat /\ (RAM_BASE + c) % 4 = 0
  BY LayoutAssumption
<1>3. RAM_BASE + c + d + 4 \in Nat /\ (RAM_BASE + c + d + 4) % 4 = 0
  BY LayoutAssumption
<1>4. align4(RAM_BASE + c) = RAM_BASE + c
  BY <1>1, <1>2
<1>5. align4(RAM_BASE + c + d + 4) = RAM_BASE + c + d + 4
  BY <1>1, <1>3
<1>6. /\ fr_work(c, d).page_buf = RAM_BASE + c + d + 4
      /\ fr_work(c, d).stack_top = RAM_BASE + RAM_SIZE
  BY <1>4, <1>5 DEF fr_work
<1> HIDE DEF fr_work
<1> QED
  BY <1>6, LayoutAssumption DEF LaidOut

(* The driver goes on with the list, at the next access or at an earlier   *)
(* one: k and j are the values of n before and after.                      *)
LEMMA GoesOn ==
  ASSUME LoadInv, Planned, ImageInv', TargetType', NEW s, NEW k, NEW j,
         s = todo, k = n, j = n', Accesses,
         UNCHANGED <<pc, rc, img, work, file>>, faults' \in 0..MaxFaults,
         j \in 1..Len(s), j <= k + 1, tries' \in 1..Retries, s[k].reg # "EINVAL",
         j > 2 => power' = "on", pc = "load" => core' = "halted",
         faults' = 0 => ~sticky',
         ~sticky' => ~sticky,
         ~sticky' /\ j > 1 => PreparedFor(s[j - 1])',
         ~sticky' => \A a \in RamWords :
           mem'[a] # mem[a] => /\ s[k].reg = "DRW" /\ k > 1 /\ s[k - 1].v = a
                               /\ mem'[a] = Wanted(a),
         ~sticky' /\ j = k + 1 /\ s[k].reg = "DRW" /\ s[k - 1].v \in RamWords
           => mem'[s[k - 1].v] = s[k].v
  PROVE  LoadInv'
<1>1. todo' = s /\ Accesses'
  BY SameTodo
<1>2. k \in 1..Len(s) /\ WellMeant(s) /\ Len(s) \in Nat
  BY DEF LoadInv, TypeOK, Planned
<1>3. TypeOK'
  <2>1. pc' \in {"off", "attach", "layout", "load", "returned"} /\ rc' \in {"ok", "err"}
    BY DEF LoadInv, TypeOK
  <2>2. n' \in 1..Len(todo')
    BY <1>1
  <2> QED
    BY <1>1, <2>1, <2>2 DEF TypeOK, TargetType
<1>4. AccessInv'
  <2>1. n' > 2 => power' = "on"
    OBVIOUS
  <2>2. \A i \in 1..(n' - 1) : s[i].reg # "EINVAL"
    <3>1. \A i \in 1..(k - 1) : s[i].reg # "EINVAL"
      BY DEF LoadInv, AccessInv
    <3>2. k \in Nat /\ j \in Nat /\ j <= k + 1
      BY <1>2
    <3>3. \A i \in 1..(j - 1) : i \in 1..(k - 1) \/ i = k
      BY ONLY <3>2
    <3> QED
      BY <3>1, <3>3
  <2>3. ~sticky' /\ n' > 1 => PreparedFor(todo[n - 1])'
    BY <1>1 DEF PreparedFor
  <2> QED
    BY <1>1, <2>1, <2>2, <2>3 DEF AccessInv
<1>5. MemInv'
  <2>1. pc' # "layout" /\ ~Loaded'
    BY DEF Accesses, Loaded
  <2> SUFFICES ASSUME pc' = "load", ~sticky', NEW i \in 2..(j - 1),
                      s[i].reg = "DRW", s[i - 1].v \in RamWords
               PROVE  mem'[s[i - 1].v] = s[i].v
    BY <1>1, <2>1 DEF MemInv
  <2>2. CASE i = k
    BY <1>2, <2>2
  <2>3. CASE i # k
    <3>1. i \in 2..(k - 1) /\ i \in 1..Len(s)
      BY <1>2, <2>3
    <3>2. mem[s[i - 1].v] = s[i].v
      BY <3>1 DEF LoadInv, MemInv
    <3>3. s[i].v = Wanted(s[i - 1].v)
      BY <1>2, <3>1 DEF WellMeant, Meant
    <3>4. mem'[s[i - 1].v] \in {mem[s[i - 1].v], Wanted(s[i - 1].v)}
      OBVIOUS
    <3> QED
      BY <3>2, <3>3, <3>4
  <2> QED
    BY <2>2, <2>3
<1>6. DoneInv'
  BY DEF DoneInv, LoadedExactly, FaultFreeLoads, Loaded, Accesses
<1> QED
  BY <1>3, <1>4, <1>5, <1>6 DEF LoadInv

(* Facts about the access that is next. *)
LEMMA NextAccess ==
  ASSUME LoadInv, Accesses
  PROVE  /\ Planned /\ TargetType
         /\ n \in 1..Len(todo) /\ Len(todo) \in Nat /\ Len(todo) > 1
         /\ Meant(todo, n)
         /\ ~sticky => (n > 1 => PreparedFor(todo[n - 1]))
         /\ todo[1].reg = "CTRLSTAT" /\ todo[2].reg = "readCTRLSTAT"
         /\ todo[Len(todo)].reg = "RDBUFF"
<1>1. Planned
  BY PlanFacts DEF LoadInv
<1>2. WellMeant(todo) /\ Begins(todo) /\ Ends(todo)
  BY <1>1 DEF Planned
<1>3. TargetType
  BY DEF LoadInv, TypeOK, TargetType
<1>4. n \in 1..Len(todo) /\ Len(todo) > 1
  BY <1>2 DEF LoadInv, TypeOK, Begins
<1>5. Meant(todo, n) /\ IsSeq(todo)
  BY <1>2, <1>4 DEF WellMeant
<1>6. Len(todo) \in Nat
  BY <1>5 DEF IsSeq
<1>7. ~sticky => (n > 1 => PreparedFor(todo[n - 1]))
  BY DEF LoadInv, AccessInv
<1> QED
  BY <1>1, <1>2, <1>3, <1>4, <1>5, <1>6, <1>7 DEF Begins, Ends

(* A dropped write leaves a sticky error, and the invariant. *)
LEMMA DroppedStep ==
  ASSUME LoadInv, AccessDropped, ImageInv'
  PROVE  LoadInv'
<1> PICK s, k : s = todo /\ k = n
  OBVIOUS
<1>1. /\ Accesses /\ s[k].reg \in Writes \cup {"readDRW"} /\ ~Refused(s[k])
      /\ faults' = faults + 1 /\ faults < MaxFaults /\ sticky' = TRUE /\ Proceed
      /\ UNCHANGED <<file, power, select, csw, tar, rdbuff, target>>
  BY DEF AccessDropped, Fault
<1>2. /\ Planned /\ TargetType /\ k \in 1..Len(s) /\ Len(s) \in Nat /\ Meant(s, k)
      /\ s[2].reg = "readCTRLSTAT" /\ s[Len(s)].reg = "RDBUFF"
  BY <1>1, NextAccess
<1>3. s[k].reg \notin {"RDBUFF", "readCTRLSTAT", "EINVAL"}
  BY <1>1 DEF Writes
<1>4. k < Len(s) /\ k # 2
  BY <1>2, <1>3
<1>5. n' = k + 1 /\ tries' = tries /\ UNCHANGED <<pc, rc, img, work>>
  BY <1>1, <1>3, <1>4 DEF Proceed, Polls
<1>6. TargetType'
  BY <1>1, <1>2 DEF TargetType, target
<1>7. faults' \in 0..MaxFaults /\ faults' # 0
  BY <1>1, LoadAssumption DEF LoadInv, TypeOK
<1>8. k + 1 \in 1..Len(s) /\ k + 1 <= k + 1 /\ tries \in 1..Retries
  BY <1>2, <1>4 DEF LoadInv, TypeOK
<1>9. k + 1 > 2 => power' = "on"
  BY <1>1, <1>2, <1>4 DEF LoadInv, AccessInv
<1>10. pc = "load" => core' = "halted"
  BY <1>1 DEF LoadInv, MemInv, target
<1> HIDE DEF Planned
<1> QED
  BY <1>1, <1>2, <1>3, <1>5, <1>6, <1>7, <1>8, <1>9, <1>10, GoesOn

(* A refused access ends the loading. *)
LEMMA FaultsStep ==
  ASSUME LoadInv, AccessFaults, ImageInv'
  PROVE  LoadInv'
<1> PICK s, k : s = todo /\ k = n
  OBVIOUS
<1>1. /\ Accesses /\ Return("err") /\ UNCHANGED <<file, dap, target, faults>>
      /\ s[k].reg = "EINVAL" \/ Refused(s[k])
  BY DEF AccessFaults
<1>2. /\ Planned /\ TargetType /\ k \in 1..Len(s) /\ Len(s) \in Nat
      /\ s[1].reg = "CTRLSTAT" /\ s[2].reg = "readCTRLSTAT"
  BY <1>1, NextAccess
<1>3. TargetType'
  BY <1>1, <1>2 DEF TargetType, target, dap
<1>4. faults' \in 0..MaxFaults
  BY <1>1 DEF LoadInv, TypeOK
<1>5. ASSUME faults' = 0 PROVE ~sticky' /\ ~Loadable
  <2>1. ~sticky /\ ~sticky'
    BY <1>1, <1>5 DEF LoadInv, DoneInv, dap
  <2>2. s[k].reg = "EINVAL"
    <3> SUFFICES ASSUME Refused(s[k]) PROVE FALSE
      BY <1>1
    <3>1. power # "on" /\ s[k].reg \in ToAP
      BY <2>1 DEF Refused
    <3>2. k = 1 \/ k = 2
      BY <1>1, <1>2, <3>1 DEF LoadInv, AccessInv
    <3> QED
      BY <1>2, <3>1, <3>2 DEF ToAP
  <2>3. Refuses(s)
    BY <1>2, <2>2 DEF Refuses
  <2>4. pc = "load" /\ (img.code_size % 4 # 0 \/ img.data_size % 4 # 0)
    BY <1>1, <1>2, <2>3 DEF Planned, Accesses
  <2>5. ~Loadable
    BY <2>4, LoadableSizes DEF LoadInv
  <2> QED
    BY <2>1, <2>5
<1> QED
  BY <1>1, <1>3, <1>4, <1>5, ErrorReturn

(* So does one that fails. *)
LEMMA FailsStep ==
  ASSUME LoadInv, AccessFails, ImageInv'
  PROVE  LoadInv'
<1> PICK s, k : s = todo /\ k = n
  OBVIOUS
<1>1. /\ Accesses /\ Return("err") /\ file' = file /\ faults' = faults + 1 /\ faults < MaxFaults
      /\ Perform(s[k]) \/ UNCHANGED <<dap, target>>
  BY DEF AccessFails, Fault
<1>2. TargetType /\ k \in Nat /\ Meant(s, k)
  BY <1>1, NextAccess
<1>3. TargetType'
  <2>1. CASE Perform(s[k])
    BY <1>2, <2>1, PerformTyped
  <2>2. CASE UNCHANGED <<dap, target>>
    BY <1>2, <2>2 DEF TargetType, target, dap
  <2> QED
    BY <1>1, <2>1, <2>2
<1>4. faults' \in 0..MaxFaults /\ faults' # 0
  BY <1>1, LoadAssumption DEF LoadInv, TypeOK
<1> QED
  BY <1>1, <1>3, <1>4, ErrorReturn

(* The last access of flm_load(): everything that is wanted is written.    *)
LEMMA LoadDone ==
  ASSUME LoadInv, Accesses, pc = "load", n = Len(todo), ~sticky
  PROVE  /\ \A a \in RamWords : Wanted(a) # Fw => mem[a] = Wanted(a)
         /\ img.code_size % 4 = 0 /\ img.data_size % 4 = 0
<1> PICK s, k : s = todo /\ k = n
  OBVIOUS
<1>1. /\ Planned /\ k \in 1..Len(s) /\ Len(s) \in Nat /\ k = Len(s) /\ s[k].reg = "RDBUFF"
  BY NextAccess
<1>2. ~Refuses(s)
  <2>1. \A i \in 1..(k - 1) : s[i].reg # "EINVAL"
    BY DEF LoadInv, AccessInv
  <2>2. \A i \in 1..Len(s) : i = k \/ i \in 1..(k - 1)
    BY <1>1
  <2> QED
    BY <1>1, <2>1, <2>2 DEF Refuses
<1>3. /\ img.code_size % 4 = 0 /\ img.data_size % 4 = 0
      /\ \A a \in RamWords : Wanted(a) # Fw => Puts(s, a, Wanted(a))
  BY <1>1, <1>2 DEF Planned
<1>4. ASSUME NEW a \in RamWords, Wanted(a) # Fw
      PROVE  mem[a] = Wanted(a)
  <2>1. PICK i \in 2..Len(s) : s[i] = To("DRW", Wanted(a)) /\ s[i - 1] = To("TAR", a)
    BY <1>3, <1>4 DEF Puts
  <2>2. i # k
    BY <1>1, <2>1 DEF To
  <2>3. i \in 2..(k - 1)
    BY <1>1, <2>2
  <2>4. s[i].reg = "DRW" /\ s[i].v = Wanted(a) /\ s[i - 1].v = a
    BY <2>1 DEF To
  <2> QED
    BY <2>3, <2>4 DEF LoadInv, MemInv
<1> QED
  BY <1>3, <1>4

(* An access that succeeds. *)
LEMMA AccessStep ==
  ASSUME LoadInv, Access, ImageInv'
  PROVE  LoadInv'
<1> PICK s, k, j : s = todo /\ k = n /\ j = n'
  OBVIOUS
<1>1. /\ Accesses /\ s[k].reg # "EINVAL" /\ ~Refused(s[k]) /\ Perform(s[k])
      /\ UNCHANGED <<file, faults>>
  BY DEF Access, AccessDone
<1>2. \/ s[k].reg = "readCTRLSTAT" /\ power # "on" /\ PollAgain(1)
      \/ s[k].reg = "RDBUFF" /\ ~rdbuff /\ PollAgain(Len(PollHalt))
      \/ /\ ~(s[k].reg = "readCTRLSTAT" /\ power # "on") /\ ~(s[k].reg = "RDBUFF" /\ ~rdbuff)
         /\ Proceed
  BY DEF Access, AccessDone
<1>3. /\ Planned /\ TargetType /\ k \in 1..Len(s) /\ k \in Nat /\ Len(s) \in Nat /\ Meant(s, k)
      /\ ~sticky => (k > 1 => PreparedFor(s[k - 1]))
      /\ s[1].reg = "CTRLSTAT" /\ s[2].reg = "readCTRLSTAT" /\ s[Len(s)].reg = "RDBUFF"
  BY <1>1, NextAccess
<1>4. TargetType'
  BY <1>1, <1>3, PerformTyped
<1>5. faults' \in 0..MaxFaults /\ sticky' = sticky /\ (faults' = 0 => ~sticky')
  BY <1>1 DEF LoadInv, TypeOK, DoneInv, Perform
<1>6. ~sticky' => PreparedFor(s[k])'
  BY <1>1, <1>3, <1>5, PerformPrepares
<1>7. ~sticky' =>
        /\ \A a \in RamWords :
             mem'[a] # mem[a] => /\ s[k].reg = "DRW" /\ k > 1 /\ s[k - 1].v = a
                                 /\ mem'[a] = Wanted(a)
        /\ s[k].reg = "DRW" /\ s[k - 1].v \in RamWords => mem'[s[k - 1].v] = s[k].v
  BY <1>1, <1>3, <1>5, PerformWrites
<1>8. pc = "load" => core' = "halted"
  BY <1>1 DEF LoadInv, MemInv, Perform
<1>9. power = "on" => power' = "on"
  BY <1>1 DEF Perform
<1>10. tries \in 1..Retries /\ Retries \in 1..Retries
  BY LoadAssumption DEF LoadInv, TypeOK
<1> HIDE DEF Planned
<1>11. CASE tries <= 1 /\ Return("err")
  <2>1. tries = 1
    BY <1>10, <1>11
  <2> QED
    BY <1>1, <1>4, <1>5, <1>11, <2>1, ErrorReturn
<1>12. CASE /\ s[k].reg = "readCTRLSTAT" /\ power # "on"
            /\ j = k /\ tries' = tries - 1 /\ tries > 1 /\ UNCHANGED <<pc, rc, img, work>>
  <2>1. k <= 2
    BY <1>1, <1>3, <1>12 DEF LoadInv, AccessInv
  <2>2. ~(j > 2) /\ j \in 1..Len(s) /\ j <= k + 1 /\ tries' \in 1..Retries /\ j # k + 1
    BY <1>3, <1>10, <1>12, <2>1
  <2>3. ~sticky' /\ j > 1 => PreparedFor(s[j - 1])'
    <3>1. UNCHANGED <<select, csw, tar, rdbuff, core>>
      BY <1>1, <1>12 DEF Perform
    <3> QED
      BY <1>3, <1>5, <1>12, <3>1 DEF PreparedFor
  <2> QED
    BY <1>1, <1>3, <1>4, <1>5, <1>7, <1>8, <1>12, <2>2, <2>3, GoesOn
<1>13. CASE /\ s[k].reg = "RDBUFF" /\ ~rdbuff
            /\ j = k - 4 /\ tries' = tries - 1 /\ tries > 1 /\ UNCHANGED <<pc, rc, img, work>>
  <2>1. k > 5 /\ s[k - 5].reg = "DRW"
    BY <1>3, <1>13 DEF Meant
  <2>2. /\ j \in 1..Len(s) /\ j <= k + 1 /\ tries' \in 1..Retries /\ j # k + 1 /\ j - 1 = k - 5
    BY <1>3, <1>10, <1>13, <2>1
  <2>3. PreparedFor(s[j - 1])'
    BY <2>1, <2>2 DEF PreparedFor
  <2>4. power' = "on"
    BY <1>1, <1>9, <1>13 DEF Refused, ToAP
  <2> QED
    BY <1>1, <1>3, <1>4, <1>5, <1>7, <1>8, <1>13, <2>2, <2>3, <2>4, GoesOn
<1>14. CASE Proceed /\ ~(s[k].reg = "readCTRLSTAT" /\ power # "on") /\ k < Len(s)
  <2>1. j = k + 1 /\ tries' \in {tries, Retries} /\ UNCHANGED <<pc, rc, img, work>>
    BY <1>3, <1>14 DEF Proceed
  <2>2. j \in 1..Len(s) /\ j <= k + 1 /\ tries' \in 1..Retries /\ j - 1 = k
    <3>1. k < Len(s) /\ k \in 1..Len(s) /\ Len(s) \in Nat
      BY <1>3, <1>14
    <3>2. tries' \in 1..Retries
      BY <1>10, <2>1
    <3> QED
      BY <2>1, <3>1, <3>2
  <2>3. j > 2 => power' = "on"
    <3>1. CASE k = 2
      BY <1>3, <1>9, <1>14, <3>1
    <3>2. CASE k > 2
      BY <1>1, <1>9, <3>2 DEF LoadInv, AccessInv
    <3> QED
      BY <1>3, <2>1, <3>1, <3>2
  <2>4. ~sticky' => PreparedFor(s[j - 1])'
    BY <1>6, <2>2
  <2> QED
    BY <1>1, <1>3, <1>4, <1>5, <1>7, <1>8, <2>1, <2>2, <2>3, <2>4, GoesOn
<1>15. CASE Proceed /\ ~(s[k].reg = "RDBUFF" /\ ~rdbuff) /\ k = Len(s)
  <2>1. s[k].reg = "RDBUFF" /\ rdbuff
    BY <1>3, <1>15
  <2>2. ~sticky /\ ~sticky'
    BY <1>1, <1>5, <2>1 DEF Refused
  <2>3. mem' = mem /\ core' = core
    BY <1>1, <2>1 DEF Perform
  <2>4. core = "halted"
    BY <1>3, <2>1, <2>2 DEF Meant, PreparedFor
  <2>5. CASE pc = "attach" /\ pc' = "layout" /\ n' = 1 /\ UNCHANGED <<rc, tries, img, work>>
    <3>1. ~Accesses' /\ ~Loaded'
      BY <2>5 DEF Accesses, Loaded
    <3>2. TypeOK'
      BY <1>4, <1>5, <2>5, <3>1 DEF LoadInv, TypeOK, TargetType
    <3>3. AccessInv' /\ MemInv' /\ DoneInv'
      BY <1>5, <2>3, <2>4, <2>5, <3>1
      DEF AccessInv, MemInv, DoneInv, LoadedExactly, FaultFreeLoads
    <3> QED
      BY <3>2, <3>3 DEF LoadInv
  <2>6. CASE pc = "load" /\ Return("ok")
    <3>1. /\ pc' = "returned" /\ rc' = "ok" /\ n' = 1 /\ UNCHANGED <<tries, img, work>>
          /\ ~Accesses' /\ Loaded'
      BY <2>6 DEF Return, Accesses, Loaded
    <3>2. TypeOK'
      BY <1>4, <1>5, <3>1 DEF LoadInv, TypeOK, TargetType
    <3>3. /\ \A a \in RamWords : Wanted(a) # Fw => mem[a] = Wanted(a)
          /\ img.code_size % 4 = 0 /\ img.data_size % 4 = 0
      BY <1>1, <1>15, <2>2, <2>6, LoadDone
    <3>4. \A a \in RamWords : Wanted(a)' = Wanted(a)
      BY <3>1 DEF Wanted
    <3>5. LoadedExactly'
      BY <2>3, <2>4, <3>3, <3>4 DEF LoadedExactly
    <3>6. Loadable
      <4>1. ImageInv /\ LaidOut(fr_work(img.code_size, img.data_size))
        BY <2>6 DEF LoadInv, ImageInv
      <4>2. img.code_size \in Nat /\ img.data_size \in Nat
        BY <4>1 DEF ImageInv
      <4> QED
        BY <2>6, <3>3, <4>1, <4>2, WholeWords, LoadableSizes
    <3>7. Loadable'
      BY <1>1, <3>6 DEF Loadable
    <3>8. FaultFreeLoads'
      BY <3>1, <3>7 DEF FaultFreeLoads
    <3>9. AccessInv' /\ MemInv' /\ DoneInv'
      BY <1>5, <2>3, <2>4, <3>1, <3>3, <3>5, <3>8 DEF AccessInv, MemInv, DoneInv
    <3> QED
      BY <3>2, <3>9 DEF LoadInv
  <2> QED
    BY <1>15, <2>5, <2>6 DEF Proceed
<1> QED
  <2>1. Len(PollHalt) - 1 = 4
    BY PollIs
  <2>2. PollAgain(Len(PollHalt)) =>
          \/ j = k - 4 /\ tries' = tries - 1 /\ tries > 1 /\ UNCHANGED <<pc, rc, img, work>>
          \/ tries <= 1 /\ Return("err")
    <3>1. tries > 1 \/ tries <= 1
      BY <1>10
    <3> DEFINE length == Len(PollHalt)
    <3>2. length - 1 = 4
      BY <2>1
    <3> HIDE DEF length
    <3>3. PollAgain(length) =>
            \/ n' = n - 4 /\ tries' = tries - 1 /\ tries > 1 /\ UNCHANGED <<pc, rc, img, work>>
            \/ ~(tries > 1) /\ Return("err")
      BY <3>2 DEF PollAgain
    <3> QED
      BY <3>1, <3>3 DEF length
  <2>3. PollAgain(1) =>
          \/ j = k /\ tries' = tries - 1 /\ tries > 1 /\ UNCHANGED <<pc, rc, img, work>>
          \/ tries <= 1 /\ Return("err")
    BY <1>3, <1>10 DEF PollAgain
  <2>4. k < Len(s) \/ k = Len(s)
    BY <1>3
  <2> QED
    BY <1>2, <1>11, <1>12, <1>13, <1>14, <1>15, <2>2, <2>3, <2>4

(* The layout, accepted or not. *)
LEMMA LayoutStep ==
  ASSUME LoadInv, Layout, ImageInv'
  PROVE  LoadInv'
<1> DEFINE w == fr_work(img.code_size, img.data_size)
<1>1. pc = "layout" /\ UNCHANGED <<file, dap, target, faults>>
  BY DEF Layout
<1>2. TargetType'
  BY <1>1 DEF LoadInv, TypeOK, TargetType, dap, target
<1>3. ImageInv /\ img.code_size \in Nat /\ img.data_size \in Nat
  BY DEF LoadInv, ImageInv
<1>4. faults' \in 0..MaxFaults /\ (faults' = 0 => ~sticky')
  BY <1>1 DEF LoadInv, TypeOK, DoneInv, dap
<1>5. CASE LaidOut(w) /\ LoadAccepts(w, img.code_size, img.data_size)
  <2>1. pc' = "load" /\ n' = 1 /\ tries' = Retries /\ UNCHANGED <<rc, img>>
    BY <1>5 DEF Layout
  <2>2. Accesses' /\ ~Loaded'
    BY <2>1 DEF Accesses, Loaded
  <2>3. Planned'
    <3>1. (ImageInv => Planned)'
      BY PlanFacts, PTL
    <3> QED
      BY <3>1
  <2>4. n' \in 1..Len(todo')
    <3>1. IsSeq(todo') /\ Len(todo') > 1
      BY <2>2, <2>3 DEF Planned, WellMeant, Begins
    <3>2. Len(todo') \in Nat
      BY <3>1 DEF IsSeq
    <3> QED
      BY <2>1, <3>1, <3>2
  <2>5. rc' \in {"ok", "err"} /\ tries' \in 1..Retries
    BY <2>1, LoadAssumption DEF LoadInv, TypeOK
  <2>6. TypeOK'
    BY <1>2, <1>4, <2>1, <2>2, <2>4, <2>5 DEF TypeOK, TargetType
  <2>7. AccessInv'
    BY <2>1 DEF AccessInv
  <2>8. MemInv'
    BY <1>1, <2>1 DEF LoadInv, MemInv, target
  <2>9. DoneInv'
    BY <1>4, <2>1, <2>2 DEF DoneInv, LoadedExactly, FaultFreeLoads
  <2> QED
    BY <2>6, <2>7, <2>8, <2>9 DEF LoadInv
<1>6. CASE ~(LaidOut(w) /\ LoadAccepts(w, img.code_size, img.data_size))
  <2>1. ~LaidOut(w)
    BY <1>3, <1>6, Apart
  <2>2. ~Loadable
    BY <1>1, <1>3, <2>1, WholeWords, LoadableSizes
  <2>3. Return("err")
    BY <1>6 DEF Layout
  <2> QED
    BY <1>1, <1>2, <1>4, <2>2, <2>3, ErrorReturn
<1> QED
  BY <1>5, <1>6

(* The parser's decision. *)
LEMMA StartStep ==
  ASSUME LoadInv, Start, ImageInv'
  PROVE  LoadInv'
<1>1. pc = "off" /\ UNCHANGED <<file, dap, target, faults>>
  BY DEF Start
<1>2. TargetType'
  BY <1>1 DEF LoadInv, TypeOK, TargetType, dap, target
<1>3. faults' \in 0..MaxFaults /\ (faults' = 0 => ~sticky')
  BY <1>1 DEF LoadInv, TypeOK, DoneInv, dap
<1>4. CASE Parses(file)
  <2>1. pc' = "attach" /\ n' = 1 /\ tries' = Retries /\ UNCHANGED <<rc, work>>
    BY <1>4 DEF Start
  <2>2. Accesses' /\ ~Loaded'
    BY <2>1 DEF Accesses, Loaded
  <2>3. Planned'
    <3>1. (ImageInv => Planned)'
      BY PlanFacts, PTL
    <3> QED
      BY <3>1
  <2>4. n' \in 1..Len(todo')
    <3>1. IsSeq(todo') /\ Len(todo') > 1
      BY <2>2, <2>3 DEF Planned, WellMeant, Begins
    <3>2. Len(todo') \in Nat
      BY <3>1 DEF IsSeq
    <3> QED
      BY <2>1, <3>1, <3>2
  <2>5. rc' \in {"ok", "err"} /\ tries' \in 1..Retries
    BY <2>1, LoadAssumption DEF LoadInv, TypeOK
  <2>6. TypeOK'
    BY <1>2, <1>3, <2>1, <2>2, <2>4, <2>5 DEF TypeOK, TargetType
  <2>7. AccessInv' /\ MemInv'
    BY <2>1, <2>2 DEF AccessInv, MemInv
  <2>8. DoneInv'
    BY <1>3, <2>1, <2>2 DEF DoneInv, LoadedExactly, FaultFreeLoads
  <2> QED
    BY <2>6, <2>7, <2>8 DEF LoadInv
<1>5. CASE ~Parses(file)
  <2>1. Return("err") /\ ~Loadable
    BY <1>5 DEF Start, Loadable
  <2> QED
    BY <1>1, <1>2, <1>3, <2>1, ErrorReturn
<1> QED
  BY <1>4, <1>5

(* The next boot finds the port and the RAM as they are. *)
LEMMA BootStep ==
  ASSUME LoadInv, NextBoot \/ HostReset, ImageInv'
  PROVE  LoadInv'
<1>1. /\ pc' = "off" /\ n' = 1 /\ UNCHANGED <<rc, tries, img, work, file, dap>>
      /\ core' \in {core, "running"} /\ mem' = mem /\ faults' \in 0..MaxFaults
      /\ faults' = 0 => faults = 0
  BY LoadAssumption DEF NextBoot, HostReset, Boot, Fault, target, LoadInv, TypeOK
<1>2. ~Accesses' /\ ~Loaded'
  BY <1>1 DEF Accesses, Loaded
<1>3. TypeOK'
  BY <1>1, <1>2 DEF LoadInv, TypeOK, dap
<1>4. AccessInv' /\ MemInv'
  BY <1>1, <1>2 DEF AccessInv, MemInv
<1>5. DoneInv'
  BY <1>1, <1>2 DEF LoadInv, DoneInv, LoadedExactly, FaultFreeLoads, dap
<1> QED
  BY <1>3, <1>4, <1>5 DEF LoadInv

(* What the FR8016HA does by itself. *)
LEMMA TargetStep ==
  ASSUME LoadInv, PowerComes \/ CoreHalts \/ FirmwareWrites \/ UNCHANGED vars, ImageInv'
  PROVE  LoadInv'
<1>1. /\ UNCHANGED <<host, file, select, csw, tar, rdbuff, sticky, faults>>
      /\ power' \in {power, "on"}
      /\ core' \in {core, "halted"}
      /\ mem' = mem \/ (core # "halted" /\ DOMAIN mem' = RamWords)
  BY DEF PowerComes, CoreHalts, FirmwareWrites, vars, dap, target, host
<1>2. UNCHANGED <<pc, rc, n, tries, img, work>>
  BY <1>1 DEF host
<1>3. todo' = todo /\ Accesses' = Accesses
  BY <1>2, SameTodo
<1>4. TypeOK'
  BY <1>1, <1>2, <1>3 DEF LoadInv, TypeOK
<1>5. AccessInv'
  <2>1. PreparedFor(todo[n - 1]) => PreparedFor(todo[n - 1])'
    BY <1>1, <1>2, <1>3 DEF PreparedFor
  <2> QED
    BY <1>1, <1>2, <1>3, <2>1 DEF LoadInv, AccessInv
<1>6. Loaded' = Loaded
  BY <1>2 DEF Loaded
<1>7. pc \in {"layout", "load"} \/ Loaded => core = "halted" /\ core' = "halted" /\ mem' = mem
  BY <1>1 DEF LoadInv, MemInv
<1>8. MemInv'
  BY <1>1, <1>2, <1>3, <1>6, <1>7 DEF LoadInv, MemInv
<1>9. LoadedExactly'
  <2>1. \A a \in RamWords : Wanted(a)' = Wanted(a)
    BY <1>2 DEF Wanted
  <2> QED
    BY <1>6, <1>7, <2>1 DEF LoadInv, DoneInv, LoadedExactly
<1>10. FaultFreeLoads'
  <2>1. Loadable' = Loadable
    BY <1>1 DEF Loadable
  <2> QED
    BY <1>1, <1>2, <1>6, <2>1 DEF LoadInv, DoneInv, FaultFreeLoads
<1>11. DoneInv'
  BY <1>1, <1>2, <1>6, <1>9, <1>10 DEF LoadInv, DoneInv
<1> QED
  BY <1>4, <1>5, <1>8, <1>11 DEF LoadInv

(* At power-on. *)
LEMMA LoadInit == Init => LoadInv
<1> SUFFICES ASSUME Init PROVE LoadInv
  OBVIOUS
<1>1. ~Accesses /\ ~Loaded
  BY DEF Init, Accesses, Loaded
<1>2. TypeOK
  <2>1. tries \in 1..Retries /\ faults \in 0..MaxFaults /\ tar \in Nat
    BY LayoutAssumption, LoadAssumption DEF Init
  <2>2. DOMAIN mem = RamWords
    BY DEF Init
  <2> QED
    BY <1>1, <2>1, <2>2 DEF Init, TypeOK
<1>3. ImageInv
  BY <1>1 DEF Init, ImageInv, NoImage
<1>4. AccessInv /\ MemInv
  BY <1>1 DEF Init, AccessInv, MemInv
<1>5. DoneInv
  BY <1>1 DEF Init, DoneInv, LoadedExactly, FaultFreeLoads
<1> QED
  BY <1>2, <1>3, <1>4, <1>5 DEF LoadInv

(* Every step keeps the invariant. *)
LEMMA LoadStep == LoadInv /\ [Next]_vars => LoadInv'
<1> SUFFICES ASSUME LoadInv, [Next]_vars PROVE LoadInv'
  OBVIOUS
<1>1. ImageInv'
  BY ImageStep DEF LoadInv
<1> QED
  BY <1>1, AccessStep, DroppedStep, FaultsStep, FailsStep, LayoutStep, StartStep, BootStep,
     TargetStep DEF Next, Driver

(* So it holds throughout. *)
LEMMA LoadInvariant == Spec => []LoadInv
BY LoadInit, LoadStep, PTL DEF Spec

(* TypeOK, for every card, RAM and bound of the polls and faults: the next *)
(* access is always one of the list.                                       *)
THEOREM LoadTyped == Spec => []TypeOK
<1>1. LoadInv => TypeOK
  BY DEF LoadInv
<1> QED
  BY <1>1, LoadInvariant, PTL

(* LoadedExactly: flm_load() returning 0 means a halted core and every     *)
(* word of code, data and stub in place, though a dropped write returns 0. *)
THEOREM LoadIsExact == Spec => []LoadedExactly
<1>1. LoadInv => LoadedExactly
  BY DEF LoadInv, DoneInv
<1> QED
  BY <1>1, LoadInvariant, PTL

(* FaultFreeLoads: without a fault fr_work_layout() and flm_load() accept  *)
(* exactly the files with whole words that fit, unless a poll runs out.    *)
THEOREM FaultFreeLoad == Spec => []FaultFreeLoads
<1>1. LoadInv => FaultFreeLoads
  BY DEF LoadInv, DoneInv
<1> QED
  BY <1>1, LoadInvariant, PTL

(* NoStrayWrite: whatever access of flm_load() fails or is dropped, a word *)
(* written by the STM32 is the right one at its own address.               *)
THEOREM WritesWanted == Spec => NoStrayWrite
<1> DEFINE Wrote == \A a \in RamWords : mem'[a] \notin {mem[a], Fw} =>
                      core = "halted" /\ pc = "load" /\ mem'[a] = Wanted(a)
<1>1. LoadInv /\ [Next]_vars => Wrote
  <2> SUFFICES ASSUME LoadInv, [Next]_vars, NEW a \in RamWords, mem'[a] \notin {mem[a], Fw}
               PROVE  core = "halted" /\ pc = "load" /\ mem'[a] = Wanted(a)
    OBVIOUS
  <2>1. Accesses /\ Perform(todo[n]) /\ ~Refused(todo[n])
    <3>1. \A x \in RamWords : [y \in RamWords |-> Fw][x] = Fw
      OBVIOUS
    <3> QED
      BY <3>1 DEF Next, Driver, Start, Access, AccessDone, AccessFaults, AccessFails,
           AccessDropped, Layout, NextBoot, HostReset, Boot, PowerComes, CoreHalts,
           FirmwareWrites, vars, dap, target
  <2> PICK s, k : s = todo /\ k = n
    OBVIOUS
  <2>2. /\ Planned /\ TargetType /\ k \in 1..Len(s) /\ k \in Nat /\ Meant(s, k)
        /\ ~sticky => (k > 1 => PreparedFor(s[k - 1]))
    BY <2>1, NextAccess
  <2>3. s[k].reg = "DRW"
    BY <2>1 DEF Perform
  <2>4. ~sticky
    BY <2>1, <2>3 DEF Refused
  <2>5. k > 1 /\ s[k - 1].v = a /\ mem'[a] = Wanted(a)
    BY <2>1, <2>2, <2>4, PerformWrites
  <2>6. pc = "load"
    BY <2>1, <2>2, <2>3, <2>5 DEF Planned, Accesses
  <2> QED
    BY <2>5, <2>6 DEF LoadInv, MemInv
<1>2. Wrote => [Wrote]_vars
  OBVIOUS
<1> QED
  BY <1>1, <1>2, LoadInvariant, PTL DEF Spec, NoStrayWrite

(* Bit 0 of an entry is that of its offset. *)
LEMMA SameParity ==
  ASSUME NEW v \in Nat, NEW addr \in Nat, (v - (v % 2) - addr) % 4 = 0
  PROVE  (v - addr) % 2 = v % 2
<1> DEFINE at == v - (v % 2) - addr
<1>1. PICK w \in Int : at = 2 * w
  <2>1. at \div 4 \in Int /\ at = 4 * (at \div 4)
    OBVIOUS
  <2>2. 2 * (at \div 4) \in Int /\ at = 2 * (2 * (at \div 4))
    BY <2>1
  <2> QED
    BY <2>2
<1>2. v % 2 \in {0, 1} /\ v - addr = 2 * w + (v % 2)
  BY <1>1
<1> QED
  BY <1>2

(* CallsTheRoutine: the PC that a call sets is where the first instruction *)
(* of the routine has been written, wherever the linker has put it.        *)
THEOREM CallsRoutine == Spec => []CallsTheRoutine
<1>1. LoadInv => CallsTheRoutine
  <2> SUFFICES ASSUME LoadInv, Loaded, NEW r \in Routines
               PROVE  mem[work.code_base + (img.entry[r] - (img.entry[r] % 2))] = r
    BY DEF CallsTheRoutine
  <2>1. Parses(file) /\ img = flm_image(file) /\ file \in Files /\ WorkFits
    BY DEF LoadInv, ImageInv, WorkFits
  <2> DEFINE i == Min(Symbols(file, r))
             code == sec_get(file, "PrgCode")
             v == file.symbols[i].value
             at == v - (v % 2) - code.addr
  <2>2. i \in Symbols(file, r)
    <3>1. Symbols(file, r) # {} /\ Symbols(file, r) \subseteq Nat
      BY <2>1, LoadAssumption DEF Parses, Symbols
    <3> QED
      BY <3>1, LeastNat
  <2>3. /\ v \in Nat /\ code.addr \in Nat
        /\ at \in 0..(code.size - 1) /\ at % 4 = 0 /\ code.words[(at \div 4) + 1] = r
    <3>1. i \in DOMAIN file.symbols /\ file.symbols[i].global /\ file.symbols[i].name = r
      BY <2>2 DEF Symbols
    <3> QED
      BY <2>1, <3>1, LinkAssumption
  <2>4. img.entry[r] = v - code.addr /\ img.code_size = code.size /\ img.code = code.words
    BY <2>1 DEF flm_image, sym_value
  <2>5. code.size \in Nat
    BY <2>1, <2>4 DEF WorkFits
  <2> HIDE DEF i, code
  <2>6. img.entry[r] - (img.entry[r] % 2) = at
    <3> DEFINE addr == code.addr
    <3>1. (v - addr) % 2 = v % 2
      BY <2>3, SameParity
    <3> HIDE DEF v, at, addr
    <3> QED
      BY <2>3, <2>4, <3>1 DEF addr, at
  <2> HIDE DEF v, at
  <2>7. PICK q \in Nat : at = 4 * q /\ q = at \div 4 /\ 4 * q < img.code_size
    <3>1. at \div 4 \in Nat /\ at = 4 * (at \div 4)
      BY <2>3, <2>5
    <3> QED
      BY <2>3, <2>4, <2>5, <3>1
  <2>8. Wanted(work.code_base + at) = r
    BY <2>1, <2>3, <2>4, <2>7, WantedIs
  <2>9. work.code_base + at \in RamWords
    <3> DEFINE bkpt == BkptOf(work, img.data_size)
    <3>1. /\ work.code_base = RAM_BASE /\ work.data_base \in Nat /\ bkpt \in Nat
          /\ img.data_size \in Nat /\ img.code_size \in Nat
      BY <2>1, WantedIs DEF WorkFits, fr_work
    <3>2. /\ work.code_base + img.code_size <= work.data_base
          /\ work.data_base + img.data_size <= bkpt
          /\ bkpt + 4 <= work.page_buf
          /\ work.page_buf + FR_PAGE_BUF_SIZE <= work.stack_top - FLM_REQUIRED_STACK_SIZE
          /\ work.stack_top <= RAM_BASE + RAM_SIZE
      BY <2>1, Apart DEF WorkFits
    <3>3. work.page_buf \in Nat /\ work.stack_top \in Nat
      BY <2>1, <3>1, LayoutAssumption, AlignUp DEF WorkFits, fr_work
    <3> HIDE DEF bkpt
    <3>4. RAM_BASE + at < RAM_BASE + RAM_SIZE
      BY <2>7, <3>1, <3>2, <3>3, LayoutAssumption
    <3>5. (RAM_BASE + at) % 4 = 0
      BY <2>7, LayoutAssumption
    <3> QED
      BY <2>7, <3>1, <3>4, <3>5, LayoutAssumption DEF RamWords
  <2>10. r # Fw
    BY DEF Routines, Fw
  <2> QED
    BY <2>6, <2>8, <2>9, <2>10 DEF LoadInv, DoneInv, LoadedExactly
<1> QED
  BY <1>1, LoadInvariant, PTL

-------------------------------------------------------------------------------

UntouchedInv ==
  ~Parses(file) => pc \in {"off", "returned"} /\ power = "off" /\ core = "running"

(* UntouchedByBadFile: for every file that flm_elf_parse() refuses, over   *)
(* any number of boots, no access reaches the FR8016HA.                    *)
THEOREM BadFileHarmless == Spec => []UntouchedByBadFile
<1>1. Init => UntouchedInv
  BY DEF Init, UntouchedInv
<1>2. UntouchedInv /\ [Next]_vars => UntouchedInv'
  <2> SUFFICES ASSUME UntouchedInv, [Next]_vars, ~Parses(file')
               PROVE  UntouchedInv'
    BY DEF UntouchedInv
  <2>1. file' = file
    BY DEF Next, Driver, Start, Access, AccessDone, AccessFaults, AccessFails, AccessDropped,
           Layout, NextBoot, HostReset, Boot, PowerComes, CoreHalts, FirmwareWrites, vars
  <2>2. pc \in {"off", "returned"} /\ power = "off" /\ core = "running"
    BY <2>1 DEF UntouchedInv
  <2>3. CASE Start
    BY <2>1, <2>2, <2>3 DEF Start, Return, dap, target, UntouchedInv
  <2>4. CASE NextBoot
    BY <2>2, <2>4 DEF NextBoot, Boot, dap, target, UntouchedInv
  <2>5. CASE UNCHANGED vars
    BY <2>2, <2>5 DEF vars, host, dap, target, UntouchedInv
  <2>6. CASE FirmwareWrites
    BY <2>2, <2>6 DEF FirmwareWrites, host, dap, UntouchedInv
  <2> QED
    BY <2>2, <2>3, <2>4, <2>5, <2>6
    DEF Next, Driver, Access, AccessFaults, AccessFails, AccessDropped, Accesses, Layout,
        HostReset, PowerComes, CoreHalts
<1>3. UntouchedInv => UntouchedByBadFile
  BY DEF UntouchedInv, UntouchedByBadFile
<1> QED
  BY <1>1, <1>2, <1>3, PTL DEF Spec
===============================================================================
