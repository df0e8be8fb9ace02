---------------------------- MODULE PageTableProofs -----------------------------
(***************************************************************************)
(* Proofs of the invariants of PageTable, for any size of page and table,  *)
(* any memory and any number of page tables, and that it implements        *)
(* AddressMap, until phalloc serves a block that is not clear.  Freed      *)
(* blocks are served again: one that was never written may be, but one     *)
(* that holds what was left in it makes a table that does not start empty. *)
(***************************************************************************)
EXTENDS PageTable, NaturalsInduction, WellFoundedInduction, TLAPS

(* A non-empty set of natural numbers has a least element. *)
LEMMA LeastNat ==
  ASSUME NEW S \in SUBSET Nat, S # {}
  PROVE  \E m \in S : \A k \in S : m <= k
<1>1. IsWellFoundedOn(OpToRel(<, Nat), Nat)
  BY Zenon, NatLessThanWellFounded
<1>2. PICK m \in S : \A k \in S : ~ (<<k, m>> \in OpToRel(<, Nat))
  BY <1>1, WFMin, Zenon
<1>3. \A k \in S : ~ (k < m)
  BY Zenon, <1>2 DEF OpToRel
<1> QED
  BY <1>3

Vec == [ptr : Nat, cap : Nat, size : Nat]

TypeOK ==
  /\ words \in [Pages -> [Index -> Nat]]
  /\ vecs \in [Arrays -> [Index -> Vec]]
  /\ used \subseteq Pages \cup Arrays
  /\ table \in [Owner -> [root : Nat, second : Nat]]
  /\ status \in {"run", "memory_panic", "align_panic"}

(* The i-th second-level table of o, in the root's record and in the
   owner's: none, or the same allocated block of one page. *)
Agrees(o, i) ==
  LET e == words[table[o].root][i]
      s == Elements(o)[i]
  IN  \/ e = 0 /\ s = ZeroVec
      \/ \E p \in Pages \cap used : e = Pte(p, 0) /\ s = TableAt(p)

(* Every live page table has a root and a second_pts, and all its tables. *)
Built ==
  \A o \in Live :
    /\ table[o].root \in Pages \cap used /\ table[o].second \in Arrays \cap used
    /\ \A i \in Index : Agrees(o, i)

(* No block is the root, the second_pts or a second-level table twice. *)
Apart ==
  \A o, q \in Live :
    /\ o # q => table[o].root # table[q].root /\ table[o].second # table[q].second
    /\ \A i, j \in Index :
         LET p == Elements(o)[i].ptr
         IN  p # 0 => /\ p # table[q].root
                      /\ p = Elements(q)[j].ptr => o = q /\ i = j

NoLeak == status = "run" => used \subseteq UNION {Blocks(o) : o \in Live}

Inv == TypeOK /\ Built /\ Apart /\ NoLeak

-----------------------------------------------------------------------------
(* Arithmetic: page-table entries and the parts of a virtual address *)

(* Quotient and remainder are unique. *)
LEMMA DivUnique ==
  ASSUME NEW n \in Nat \ {0}, NEW q \in Int, NEW r \in 0..(n - 1)
  PROVE  (n * q + r) \div n = q /\ (n * q + r) % n = r
<1> DEFINE a == n * q + r
           x == a \div n
           y == a % n
<1>1. a \in Int /\ x \in Int /\ y \in 0..(n - 1) /\ a = n * x + y
  BY SMT
<1> HIDE DEF x, y
<1>2. n * (x - q) = r - y
  BY <1>1, SMT
<1>3. x = q
  <2>1. CASE x >= q + 1
    <3>1. n * (x - q) >= n
      BY <1>1, <2>1, SMT
    <3> QED
      BY <1>1, <1>2, <3>1
  <2>2. CASE x <= q - 1
    <3>1. n * (q - x) >= n
      BY <1>1, <2>2, SMT
    <3>2. n * (x - q) = -(n * (q - x))
      BY <1>1, SMT
    <3> QED
      BY <1>1, <1>2, <3>1, <3>2
  <2> QED
    BY <1>1, <2>1, <2>2
<1>4. y = r
  BY <1>1, <1>3, <1>2, SMT
<1> QED
  BY Zenon, <1>3, <1>4 DEF x, y

(* Quotient and remainder of a natural number. *)
LEMMA DivNat ==
  ASSUME NEW a \in Nat, NEW n \in Nat \ {0}
  PROVE  /\ a \div n \in Nat /\ a % n \in 0..(n - 1)
         /\ a = n * (a \div n) + (a % n)
BY SMT

(* The entry that map_page writes for a second-level table is valid, and the
   hardware finds in it the address of the table. *)
LEMMA PteOfTable ==
  ASSUME NEW p \in Pages
  PROVE  /\ Pte(p, 0) \in Nat /\ Valid(Pte(p, 0))
         /\ (Pte(p, 0) \div 1024) * PAGE_SIZE = p
<1> DEFINE k == p \div PAGE_SIZE
<1>1. /\ p \in Nat /\ PAGE_SIZE \in Nat \ {0} /\ p % PAGE_SIZE = 0
  BY PageTableAssumption
<1>2. k \in Nat /\ p = PAGE_SIZE * k
  BY <1>1, DivNat
<1>3. Pte(p, 0) = 1024 * k + 1
  <2>1. ~ Valid(0)
    BY DEF Valid
  <2> QED
    BY <1>2, <2>1 DEF Pte
<1> HIDE DEF k
<1>4. Pte(p, 0) \div 1024 = k
  <2> DEFINE n == 1024
             one == 1
  <2>1. k \in Int /\ n \in Nat \ {0} /\ one \in 0..(n - 1) /\ Pte(p, 0) = n * k + one
    BY <1>2, <1>3
  <2>2. Pte(p, 0) \div n = k
    <3> HIDE DEF n, one
    <3> QED
      BY Zenon, <2>1, DivUnique
  <2> QED
    BY ZenonT(30), <2>2
<1>5. Pte(p, 0) = 2 * (512 * k) + 1 /\ 512 * k \in Nat
  BY <1>2, <1>3
<1>6. Pte(p, 0) % 2 = 1
  <2> DEFINE h == 512 * k
  <2>1. h \in Int
    BY <1>5
  <2> HIDE DEF h
  <2>2. (2 * h + 1) % 2 = 1
    BY <2>1, DivUnique
  <2> QED
    BY ZenonT(30), <1>5, <2>2 DEF h
<1>7. k * PAGE_SIZE = p
  BY <1>1, <1>2, SMT
<1> QED
  BY <1>2, <1>3, <1>4, <1>6, <1>7 DEF Valid

(* What map_page writes for a page is a natural number. *)
LEMMA PteOfPage ==
  ASSUME NEW pa \in Targets, NEW flags \in Flags
  PROVE  Pte(pa, flags) \in Nat
<1>1. pa \in Nat /\ PAGE_SIZE \in Nat \ {0} /\ flags \in Nat
  BY PageTableAssumption
<1>2. pa \div PAGE_SIZE \in Nat
  BY Zenon, <1>1, DivNat
<1> QED
  BY <1>1, <1>2 DEF Pte

(* map_page takes the same two indices out of an address as the hardware. *)
LEMMA Vpn ==
  ASSUME NEW v \in VAddr
  PROVE  /\ vpn1(v) \in Index /\ vpn0(v) \in Index
         /\ vpn1(v) = (v \div PAGE_SIZE) \div Entries
         /\ vpn0(v) = (v \div PAGE_SIZE) % Entries
<1> DEFINE P == PAGE_SIZE
           N == Entries
           k == v \div P
           r == v % P
           m == k \div N
           s == k % N
<1>1. P \in Nat \ {0} /\ N \in Nat \ {0} /\ v \in Nat /\ v < P * N * N
  BY PageTableAssumption, SMT DEF VAddr
<1> HIDE DEF P, N
<1>2. k \in Nat /\ r \in 0..(P - 1) /\ v = P * k + r
  BY Zenon, <1>1, DivNat
<1> HIDE DEF k, r
<1>3. m \in Nat /\ s \in 0..(N - 1) /\ k = N * m + s
  BY Zenon, <1>1, <1>2, DivNat
<1> HIDE DEF m, s
<1> DEFINE n == P * N
           t == P * s + r
<1>4. n \in Nat \ {0} /\ v = n * m + t
  BY <1>1, <1>2, <1>3, SMT
<1>5. t \in 0..(n - 1)
  <2>1. P * s <= P * (N - 1) /\ P * s \in Nat
    BY <1>1, <1>3, SMT
  <2>2. P * (N - 1) = n - P /\ n \in Nat
    BY <1>1, SMT
  <2> HIDE DEF n
  <2>3. P * s + r <= n - 1
    BY <1>1, <1>2, <2>1, <2>2
  <2> QED
    BY <1>1, <1>2, <2>1, <2>2, <2>3
<1>6. m < N
  <2>1. ASSUME m >= N PROVE FALSE
    <3>1. n * m >= n * N /\ n * N = P * N * N /\ n * m \in Nat
      BY <1>1, <1>3, <1>4, <2>1, SMT
    <3> HIDE DEF n, t
    <3> QED
      BY <1>1, <1>4, <1>5, <3>1
  <2> QED
    BY <1>1, <1>3, <2>1
<1> HIDE DEF n, t
<1>7. v \div n = m
  <2>1. m \in Int
    BY <1>3
  <2>2. (n * m + t) \div n = m
    BY <1>4, <1>5, <2>1, DivUnique, Zenon
  <2> QED
    BY Zenon, <1>4, <2>2
<1>8. m % N = m
  BY <1>1, <1>3, <1>6
<1> QED
  BY <1>1, <1>3, <1>6, <1>7, <1>8 DEF vpn1, vpn0, Index, n, m, s, k, P, N

(* An aligned address is given by its two indices. *)
LEMMA VpnInjective ==
  ASSUME NEW v \in VPage, NEW w \in VPage, vpn1(v) = vpn1(w), vpn0(v) = vpn0(w)
  PROVE  v = w
<1>1. PAGE_SIZE \in Nat \ {0} /\ Entries \in Nat \ {0}
  BY ZenonT(30), PageTableAssumption
<1>2. ASSUME NEW u \in VPage
      PROVE  u = PAGE_SIZE * (Entries * vpn1(u) + vpn0(u))
  <2>1. u \in VAddr /\ u \in Nat /\ u % PAGE_SIZE = 0
    BY <1>1 DEF VPage, VAddr
  <2> DEFINE k == u \div PAGE_SIZE
  <2>2. k \in Nat /\ u = PAGE_SIZE * k
    BY <1>1, <2>1, DivNat
  <2>3. vpn1(u) = k \div Entries /\ vpn0(u) = k % Entries
    BY Zenon, <2>1, Vpn
  <2> HIDE DEF k
  <2>4. k = Entries * (k \div Entries) + (k % Entries)
    BY Zenon, <1>1, <2>2, DivNat
  <2> QED
    BY Zenon, <2>2, <2>3, <2>4
<1> QED
  BY Zenon, <1>2

-----------------------------------------------------------------------------
(* The steps preserve the invariant *)

(* phalloc returns one of the blocks that are available. *)
LEMMA PhallocAvail ==
  ASSUME NEW B \in SUBSET Nat, Avail(B) # {}
  PROVE  phalloc(B) \in Avail(B)
<1>1. Avail(B) \in SUBSET Nat
  BY Zenon DEF Avail
<1>2. \E b \in Avail(B) : \A c \in Avail(B) : b <= c
  BY Zenon, <1>1, LeastNat
<1> QED
  BY <1>2, Zenon DEF phalloc

(* What phalloc returns is a block that is not in use. *)
LEMMA FreeBlock ==
  /\ Avail(Pages) # {} => phalloc(Pages) \in Pages \ used /\ phalloc(Pages) # 0
  /\ Avail(Arrays) # {} => phalloc(Arrays) \in Arrays \ used /\ phalloc(Arrays) # 0
<1>1. Pages \in SUBSET Nat /\ Arrays \in SUBSET Nat /\ 0 \notin Pages \cup Arrays
  BY ZenonT(30), PageTableAssumption
<1>2. ASSUME NEW B \in {Pages, Arrays}, Avail(B) # {}
      PROVE  phalloc(B) \in B \ used /\ phalloc(B) # 0
  <2>1. phalloc(B) \in Avail(B)
    BY Zenon, <1>1, <1>2, PhallocAvail
  <2>2. Avail(B) = B \ used /\ 0 \notin B
    BY Zenon, <1>1 DEF Avail
  <2> QED
    BY Zenon, <2>1, <2>2
<1> QED
  BY Zenon, <1>2

(* The contents of a block that is clear. *)
LEMMA ClearRows ==
  ASSUME TypeOK
  PROVE  /\ \A p \in Pages : ClearPage(p) => words[p] = [i \in Index |-> 0]
         /\ \A a \in Arrays : ClearArray(a) => vecs[a] = [i \in Index |-> ZeroVec]
<1>1. ASSUME NEW p \in Pages, ClearPage(p) PROVE words[p] = [i \in Index |-> 0]
  <2>1. words[p] \in [Index -> Nat]
    BY Zenon DEF TypeOK
  <2> QED
    BY Zenon, <1>1, <2>1 DEF ClearPage
<1>2. ASSUME NEW a \in Arrays, ClearArray(a) PROVE vecs[a] = [i \in Index |-> ZeroVec]
  <2>1. vecs[a] \in [Index -> Vec]
    BY Zenon DEF TypeOK
  <2> QED
    BY Zenon, <1>2, <2>1 DEF ClearArray
<1> QED
  BY Zenon, <1>1, <1>2

(* What Built says of one second-level table. *)
LEMMA TableFacts ==
  ASSUME Inv, NEW o \in Live, NEW i \in Index
  PROVE  LET s == Elements(o)[i]
         IN  /\ s.ptr = 0 => s = ZeroVec /\ words[table[o].root][i] = 0
             /\ s.ptr # 0 => /\ s.ptr \in Pages \cap used /\ s = TableAt(s.ptr)
                             /\ words[table[o].root][i] = Pte(s.ptr, 0)
             /\ Valid(words[table[o].root][i]) <=> s.ptr # 0
<1>1. Agrees(o, i) /\ 0 \notin Pages /\ ~ Valid(0)
  BY PageTableAssumption DEF Inv, Built, Valid
<1>2. CASE words[table[o].root][i] = 0 /\ Elements(o)[i] = ZeroVec
  BY <1>1, <1>2 DEF ZeroVec
<1>3. CASE \E p \in Pages \cap used :
             words[table[o].root][i] = Pte(p, 0) /\ Elements(o)[i] = TableAt(p)
  BY <1>1, <1>3, PteOfTable DEF TableAt
<1> QED
  BY Zenon, <1>1, <1>2, <1>3 DEF Agrees

(* The initial state. *)
LEMMA InitInv == Init => Inv
<1> SUFFICES ASSUME Init PROVE Inv
  BY Zenon
<1>1. Live = {}
  BY Zenon DEF Init, Live
<1>2. TypeOK
  BY Zenon DEF Init, TypeOK, Vec, ZeroVec, NoTable
<1> QED
  BY Zenon, <1>1, <1>2 DEF Init, Inv, Built, Apart, NoLeak

(* PageTable::new: root_pt and second_pts are clear, and therefore empty. *)
LEMMA NewInv ==
  ASSUME ~dirty', Inv, NEW o \in Owner, new(o)
  PROVE  /\ Inv'
         /\ o \notin Live /\ Live' = Live \cup {o}
         /\ words' = words /\ last' = NoCall
         /\ \A q \in Live : Elements(q)' = Elements(q)
         /\ \A i \in Index : Elements(o)'[i] = ZeroVec
<1> DEFINE r == phalloc(Pages)
           s == phalloc(Arrays)
           pt == [root |-> r, second |-> s]
<1>0. r \in Pages \ used /\ r # 0 /\ s \in Arrays \ used
  BY Zenon, FreeBlock DEF new
<1>1. /\ r \in Pages /\ r \notin used /\ r # 0
      /\ s \in Arrays /\ s \notin used
      /\ words[r] = [i \in Index |-> 0] /\ vecs[s] = [i \in Index |-> ZeroVec]
  <2>1. ClearPage(r) /\ ClearArray(s)
    BY Zenon DEF new
  <2> HIDE DEF r, s
  <2> QED
    BY Zenon, <1>0, <2>1, ClearRows DEF Inv
<1>2. /\ table' = [table EXCEPT ![o] = pt] /\ used' = used \cup {r, s}
      /\ words' = words /\ vecs' = vecs /\ status' = status
      /\ o \notin Live
  BY Zenon DEF new, Live
<1> HIDE DEF r, s
<1>3. TypeOK'
  <2>1. Pages \subseteq Nat /\ Arrays \subseteq Nat
    BY ZenonT(30), PageTableAssumption
  <2>2. pt \in [root : Nat, second : Nat]
    BY Zenon, <1>1, <2>1
  <2> HIDE DEF pt
  <2> QED
    BY Zenon, <1>1, <1>2, <2>2 DEF Inv, TypeOK
<1>4. /\ table'[o] = pt
      /\ \A q \in Owner : q # o => table'[q] = table[q]
  BY Zenon, <1>2 DEF Inv, TypeOK
<1>5. /\ Live' = Live \cup {o}
      /\ \A q \in Live : q # o /\ table'[q] = table[q] /\ Elements(q)' = Elements(q)
  BY <1>1, <1>2, <1>4 DEF Live, NoTable, Elements
<1>6. /\ table'[o].root = r /\ table'[o].second = s
      /\ \A i \in Index : Elements(o)'[i] = ZeroVec /\ words'[r][i] = 0
  BY <1>1, <1>2, <1>4 DEF Elements
<1>7. Built'
  <2>1. ASSUME NEW q \in Live, NEW i \in Index PROVE Agrees(q, i)'
    <3>1. Agrees(q, i)
      BY Zenon, <2>1 DEF Inv, Built
    <3> QED
      BY Zenon, <1>2, <1>5, <3>1 DEF Agrees
  <2>2. \A i \in Index : Agrees(o, i)'
    BY Zenon, <1>6 DEF Agrees
  <2> QED
    BY <1>1, <1>2, <1>5, <1>6, <2>1, <2>2 DEF Inv, Built
<1>8. Apart'
  <2>1. \A q \in Live : table[q].root # r /\ table[q].second # s
    BY Zenon, <1>1 DEF Inv, Built
  <2>2. \A q \in Live, i \in Index : Elements(q)[i].ptr # r
    BY <1>1, TableFacts
  <2>3. ZeroVec.ptr = 0
    BY Zenon DEF ZeroVec
  <2> QED
    BY <1>5, <1>6, <2>1, <2>2, <2>3 DEF Inv, Apart
<1>9. NoLeak'
  <2>1. \A q \in Live : Blocks(q)' = Blocks(q)
    BY Zenon, <1>5 DEF Blocks
  <2>2. r \in Blocks(o)' /\ s \in Blocks(o)'
    BY Zenon, <1>6 DEF Blocks
  <2> QED
    BY ZenonT(30), <1>2, <1>5, <2>1, <2>2 DEF Inv, NoLeak
<1>10. last' = NoCall
  BY Zenon DEF new
<1> QED
  BY Zenon, <1>2, <1>3, <1>5, <1>6, <1>7, <1>8, <1>9, <1>10 DEF Inv

(* A panic for want of memory or of alignment. *)
LEMMA PanicInv ==
  ASSUME Inv, NEW o \in Owner,
         \/ new_no_memory(o)
         \/ \E v \in VAddr, pa \in Targets :
              map_page_unaligned(o, v, pa) \/ map_page_no_memory(o, v, pa)
  PROVE  Inv' /\ UNCHANGED <<words, vecs, table, last>>
<1>1. /\ UNCHANGED <<words, vecs, table, last>>
      /\ status' \in {"memory_panic", "align_panic"}
      /\ used \subseteq used' /\ used' \subseteq used \cup Pages
  <2>1. Avail(Pages) # {} => phalloc(Pages) \in Pages
    BY Zenon, FreeBlock
  <2> QED
    BY Zenon, <2>1 DEF new_no_memory, map_page_unaligned, map_page_no_memory
<1>2. TypeOK' /\ NoLeak'
  BY Zenon, <1>1 DEF Inv, TypeOK, NoLeak
<1>3. Live' = Live /\ \A q \in Owner : Elements(q)' = Elements(q)
  BY Zenon, <1>1 DEF Live, Elements
<1>4. \A q \in Live, i \in Index : Agrees(q, i) => Agrees(q, i)'
  BY Zenon, <1>1, <1>3 DEF Agrees, Live
<1>5. Built' /\ Apart'
  BY <1>1, <1>3, <1>4 DEF Inv, Built, Apart, Live
<1> QED
  BY Zenon, <1>1, <1>2, <1>5 DEF Inv

(* What map_page does when it creates a second-level table: it takes a clear
   page, drops nothing, and enters the page in both records. *)
Creates(o, v, e, p) ==
  /\ o \in Live /\ v \in VPage /\ Elements(o)[vpn1(v)].ptr = 0
  /\ words[p] = [i \in Index |-> 0]
  /\ vecs' = [vecs EXCEPT ![table[o].second][vpn1(v)] = TableAt(p)]
  /\ words' = [[words EXCEPT ![table[o].root][vpn1(v)] = Pte(p, 0)]
                 EXCEPT ![p][vpn0(v)] = e]
  /\ used' = used \cup {p}
  /\ last' = Call(o, v, e)
  /\ UNCHANGED <<status, table>>

(* map_page does that. *)
LEMMA CreateEffect ==
  ASSUME ~dirty', Inv, NEW o \in Owner, NEW v \in VAddr, NEW pa \in Targets,
         NEW flags \in Flags, map_page_create(o, v, pa, flags)
  PROVE  \E p \in Pages \ used : Creates(o, v, Pte(pa, flags), p)
<1> DEFINE p == phalloc(Pages)
<1>1. p \in Pages \ used /\ words[p] = [i \in Index |-> 0]
  <2>1. p \in Pages \ used /\ ClearPage(p)
    BY Zenon, FreeBlock DEF map_page_create
  <2> HIDE DEF p
  <2> QED
    BY Zenon, <2>1, ClearRows DEF Inv
<1>2. o \in Live /\ v \in VPage
  BY Zenon DEF map_page_create, Live, VPage, Unaligned
<1>3. Elements(o)[vpn1(v)] = ZeroVec
  <2>1. ~ Valid(words[table[o].root][vpn1(v)]) /\ vpn1(v) \in Index
    BY Zenon, Vpn DEF map_page_create, RootEntry
  <2> QED
    BY Zenon, <1>2, <2>1, TableFacts
<1>4. Freed(Second(o, v)) = {}
  BY <1>3 DEF Freed, Second, Elements, ZeroVec
<1>5. Elements(o)[vpn1(v)].ptr = 0
  BY <1>3 DEF ZeroVec
<1>6. /\ vecs' = NewSecond(o, v, p)
      /\ words' = [SetRoot(o, v, p) EXCEPT ![p][vpn0(v)] = Pte(pa, flags)]
      /\ used' = used \cup {p}
      /\ last' = Call(o, v, Pte(pa, flags))
      /\ UNCHANGED <<status, table>>
  BY Zenon, <1>4 DEF map_page_create
<1> HIDE DEF p
<1> p \in Pages \ used
  BY Zenon, <1>1
<1> WITNESS p \in Pages \ used
<1> QED
  BY Zenon, <1>1, <1>2, <1>5, <1>6 DEF NewSecond, SetRoot, Creates

(* The same, place by place: who else has a table keeps it as it was. *)
CreatedRows(o, v, e, p) ==
  /\ o \in Live /\ v \in VPage /\ Elements(o)[vpn1(v)].ptr = 0
  /\ words' \in [Pages -> [Index -> Nat]] /\ vecs' \in [Arrays -> [Index -> Vec]]
  /\ \A q \in Live, i \in Index :
       /\ q # o \/ i # vpn1(v) =>
            /\ words'[table[q].root][i] = words[table[q].root][i]
            /\ Elements(q)'[i] = Elements(q)[i]
       /\ p # table[q].root /\ p # Elements(q)[i].ptr
  /\ words'[table[o].root][vpn1(v)] = Pte(p, 0)
  /\ Elements(o)'[vpn1(v)] = TableAt(p)
  /\ words'[p] = [i \in Index |-> IF i = vpn0(v) THEN e ELSE 0]
  /\ \A x \in Pages : x # p /\ x # table[o].root => words'[x] = words[x]
  /\ \A a \in Arrays : a # table[o].second => vecs'[a] = vecs[a]
  /\ used' = used \cup {p}
  /\ last' = Call(o, v, e)
  /\ UNCHANGED <<status, table>> /\ Live' = Live

(* map_page does that. *)
LEMMA CreateRows ==
  ASSUME ~dirty', Inv, NEW o \in Owner, NEW v \in VAddr, NEW pa \in Targets,
         NEW flags \in Flags, map_page_create(o, v, pa, flags)
  PROVE  \E p \in Pages \ used : CreatedRows(o, v, Pte(pa, flags), p)
<1> DEFINE r == table[o].root
           s == table[o].second
           i1 == vpn1(v)
           i0 == vpn0(v)
           e == Pte(pa, flags)
           T(p) == TableAt(p)
           Row == [Index -> Nat]
           VRow == [Index -> Vec]
<1>0. PICK p \in Pages \ used : Creates(o, v, Pte(pa, flags), p)
  BY Zenon, CreateEffect
<1>1. /\ o \in Live /\ v \in VPage /\ Elements(o)[i1].ptr = 0
      /\ words[p] = [i \in Index |-> 0]
      /\ vecs' = [vecs EXCEPT ![s][i1] = T(p)]
      /\ words' = [[words EXCEPT ![r][i1] = Pte(p, 0)] EXCEPT ![p][i0] = e]
      /\ used' = used \cup {p}
      /\ last' = Call(o, v, e)
      /\ UNCHANGED <<status, table>>
      /\ p \in Pages \ used
  BY Zenon, <1>0 DEF Creates
<1>2. /\ r \in Pages /\ r \in used /\ s \in Arrays /\ i1 \in Index /\ i0 \in Index
      /\ words \in [Pages -> Row] /\ vecs \in [Arrays -> VRow]
  BY Zenon, <1>1, Vpn DEF Inv, Built, TypeOK
<1>3. p # r /\ p \in Pages
  BY Zenon, <1>1, <1>2
<1>4. Pte(p, 0) \in Nat /\ e \in Nat /\ T(p) \in Vec
  BY <1>1, PteOfTable, PteOfPage, PageTableAssumption DEF TableAt, Vec
<1> HIDE DEF r, s, i1, i0, e, T
<1>5. /\ words'[r] = [words[r] EXCEPT ![i1] = Pte(p, 0)]
      /\ words'[p] = [words[p] EXCEPT ![i0] = e]
      /\ \A x \in Pages : x # p /\ x # r => words'[x] = words[x]
      /\ words' \in [Pages -> Row]
  <2> DEFINE w == [words EXCEPT ![r][i1] = Pte(p, 0)]
             row == [words[r] EXCEPT ![i1] = Pte(p, 0)]
             last_row == [words[p] EXCEPT ![i0] = e]
  <2>1. row \in Row /\ last_row \in Row
    BY Zenon, <1>2, <1>3, <1>4
  <2>2. w = [words EXCEPT ![r] = row]
    BY Zenon
  <2>3. words' = [w EXCEPT ![p] = [w[p] EXCEPT ![i0] = e]]
    BY Zenon, <1>1
  <2> HIDE DEF row, Row
  <2>4. w \in [Pages -> Row] /\ w[r] = row /\ \A x \in Pages : x # r => w[x] = words[x]
    BY Zenon, <1>2, <2>1, <2>2
  <2> HIDE DEF w
  <2>5. [w[p] EXCEPT ![i0] = e] = last_row
    BY Zenon, <1>3, <2>4
  <2> HIDE DEF last_row
  <2>6. words' = [w EXCEPT ![p] = last_row]
    BY Zenon, <2>3, <2>5
  <2>7. /\ words' \in [Pages -> Row] /\ words'[p] = last_row
        /\ \A x \in Pages : x # p => words'[x] = w[x]
    BY Zenon, <1>3, <2>1, <2>4, <2>6
  <2> QED
    BY Zenon, <1>2, <1>3, <2>4, <2>7 DEF row, last_row
<1>6. /\ vecs'[s] = [vecs[s] EXCEPT ![i1] = T(p)]
      /\ \A a \in Arrays : a # s => vecs'[a] = vecs[a]
      /\ vecs' \in [Arrays -> VRow]
  <2> DEFINE row == [vecs[s] EXCEPT ![i1] = T(p)]
  <2>1. row \in VRow
    BY Zenon, <1>2, <1>4
  <2>2. vecs' = [vecs EXCEPT ![s] = row]
    BY Zenon, <1>1
  <2> HIDE DEF row, VRow
  <2>3. /\ vecs'[s] = row /\ vecs' \in [Arrays -> VRow]
        /\ \A a \in Arrays : a # s => vecs'[a] = vecs[a]
    BY Zenon, <1>2, <2>1, <2>2
  <2> QED
    BY Zenon, <2>3 DEF row
<1>7. /\ words'[r][i1] = Pte(p, 0) /\ \A i \in Index : i # i1 => words'[r][i] = words[r][i]
      /\ vecs'[s][i1] = T(p) /\ \A i \in Index : i # i1 => vecs'[s][i] = vecs[s][i]
      /\ words'[p] = [i \in Index |-> IF i = i0 THEN e ELSE 0]
  BY <1>1, <1>2, <1>5, <1>6
<1>8. Live' = Live /\ table' = table
  BY Zenon, <1>1 DEF Live
<1>9. ASSUME NEW q \in Live, NEW i \in Index
      PROVE  /\ q # o \/ i # i1 =>
                  /\ words'[table[q].root][i] = words[table[q].root][i]
                  /\ Elements(q)'[i] = Elements(q)[i]
             /\ p # table[q].root /\ p # Elements(q)[i].ptr
  <2>1. table[q].root \in Pages \cap used /\ table[q].second \in Arrays
    BY Zenon DEF Inv, Built
  <2>2. p # table[q].root /\ p # Elements(q)[i].ptr
    <3>1. Elements(q)[i].ptr = 0 \/ Elements(q)[i].ptr \in used
      BY Zenon, TableFacts
    <3>2. p # 0
      BY <1>3, PageTableAssumption
    <3> QED
      BY Zenon, <1>1, <2>1, <3>1, <3>2
  <2>3. q # o => table[q].root # r /\ table[q].second # s
    BY Zenon, <1>1 DEF Inv, Apart, r, s
  <2>4. q # o \/ i # i1 =>
          /\ words'[table[q].root][i] = words[table[q].root][i]
          /\ vecs'[table[q].second][i] = vecs[table[q].second][i]
    BY Zenon, <1>5, <1>6, <1>7, <2>1, <2>2, <2>3 DEF r, s
  <2> QED
    BY Zenon, <1>8, <2>2, <2>4 DEF Elements
<1>10. Elements(o)'[i1] = T(p)
  BY Zenon, <1>7, <1>8 DEF Elements, s
<1> QED
  BY Zenon, <1>1, <1>5, <1>6, <1>7, <1>8, <1>9, <1>10 DEF r, s, i1, i0, e, T, CreatedRows

(* map_page when it creates a table. *)
LEMMA CreateInv ==
  ASSUME ~dirty', Inv, NEW o \in Owner, NEW v \in VAddr, NEW pa \in Targets,
         NEW flags \in Flags, map_page_create(o, v, pa, flags)
  PROVE  Inv'
<1> DEFINE e == Pte(pa, flags)
           i1 == vpn1(v)
<1>1. PICK p \in Pages \ used : CreatedRows(o, v, e, p)
  BY Zenon, CreateRows
<1>2. /\ o \in Live /\ Live' = Live /\ table' = table /\ used' = used \cup {p}
      /\ status' = status
      /\ i1 \in Index /\ p # 0
      /\ table[o].root \in used /\ table[o].second \in used
  BY <1>1, Vpn, PageTableAssumption DEF CreatedRows, Inv, Built
<1>3. TypeOK'
  BY Zenon, <1>1, <1>2 DEF CreatedRows, Inv, TypeOK
<1>4. /\ \A q \in Live, i \in Index : q # o \/ i # i1 =>
           /\ words'[table[q].root][i] = words[table[q].root][i]
           /\ Elements(q)'[i] = Elements(q)[i]
      /\ \A q \in Live, i \in Index : p # table[q].root /\ p # Elements(q)[i].ptr
      /\ words'[table[o].root][i1] = Pte(p, 0)
      /\ Elements(o)'[i1] = TableAt(p) /\ TableAt(p).ptr = p
      /\ Elements(o)[i1].ptr = 0
  BY Zenon, <1>1 DEF CreatedRows, TableAt
<1> HIDE DEF i1
<1>5. Built'
  <2>1. ASSUME NEW q \in Live, NEW i \in Index PROVE Agrees(q, i)'
    <3>1. CASE q = o /\ i = i1
      BY Zenon, <1>1, <1>2, <1>4, <3>1 DEF Agrees
    <3>2. CASE q # o \/ i # i1
      <4>1. Agrees(q, i)
        BY Zenon DEF Inv, Built
      <4> QED
        BY Zenon, <1>2, <1>4, <3>2, <4>1 DEF Agrees
    <3> QED
      BY Zenon, <3>1, <3>2
  <2> QED
    BY Zenon, <1>2, <2>1 DEF Inv, Built
<1>6. Apart'
  <2>1. ASSUME NEW q \in Live, NEW x \in Live, NEW i \in Index, NEW j \in Index,
               Elements(q)'[i].ptr # 0
        PROVE  /\ Elements(q)'[i].ptr # table[x].root
               /\ Elements(q)'[i].ptr = Elements(x)'[j].ptr => q = x /\ i = j
    <3>1. CASE q = o /\ i = i1
      BY <1>4, <3>1
    <3>2. CASE q # o \/ i # i1
      <4>1. /\ Elements(q)[i].ptr # table[x].root
            /\ Elements(q)[i].ptr = Elements(x)[j].ptr => q = x /\ i = j
        BY <1>4, <2>1, <3>2 DEF Inv, Apart
      <4> QED
        BY ZenonT(30), <1>4, <3>2, <4>1
    <3> QED
      BY Zenon, <3>1, <3>2
  <2> QED
    BY <1>2, <2>1 DEF Inv, Apart
<1>7. NoLeak'
  <2>1. \A q \in Live : Blocks(q) \subseteq Blocks(q)'
    <3> SUFFICES ASSUME NEW q \in Live, NEW b \in Blocks(q) PROVE b \in Blocks(q)'
      BY Zenon
    <3>1. CASE b \in {table[q].root, table[q].second}
      BY Zenon, <1>2, <3>1 DEF Blocks
    <3>2. CASE \E i \in Index : b = Elements(q)[i].ptr /\ b # 0
      BY <1>4, <3>2 DEF Blocks
    <3> QED
      BY Zenon, <3>1, <3>2 DEF Blocks
  <2>2. p \in Blocks(o)'
    BY SMTT(30), <1>2, <1>4 DEF Blocks
  <2> QED
    BY <1>2, <2>1, <2>2 DEF Inv, NoLeak
<1> QED
  BY Zenon, <1>3, <1>5, <1>6, <1>7 DEF Inv

(* map_page when the table is there: the write goes into a second-level table
   of o, which is nobody's root, and the index is within its capacity. *)
MappedRow(o, v, e, p) ==
  /\ o \in Live /\ v \in VPage /\ p = Elements(o)[vpn1(v)].ptr /\ p \in Pages \cap used
  /\ words' \in [Pages -> [Index -> Nat]]
  /\ words'[p] = [words[p] EXCEPT ![vpn0(v)] = e]
  /\ \A x \in Pages : x # p => words'[x] = words[x]
  /\ \A q \in Live : p # table[q].root
  /\ last' = Call(o, v, e)
  /\ UNCHANGED <<status, table, used, vecs>> /\ Live' = Live

(* map_page does that. *)
LEMMA MapRow ==
  ASSUME Inv, NEW o \in Owner, NEW v \in VAddr, NEW pa \in Targets,
         NEW flags \in Flags, map_page(o, v, pa, flags)
  PROVE  \E p \in Pages : MappedRow(o, v, Pte(pa, flags), p)
<1> DEFINE i1 == vpn1(v)
           i0 == vpn0(v)
           p == Elements(o)[i1].ptr
           e == Pte(pa, flags)
           Row == [Index -> Nat]
<1>1. o \in Live /\ v \in VPage /\ i1 \in Index /\ i0 \in Index /\ e \in Nat
  BY Zenon, Vpn, PteOfPage DEF map_page, Live, VPage, Unaligned
<1>2. /\ p # 0 /\ p \in Pages \cap used /\ Elements(o)[i1] = TableAt(p)
  <2>1. Valid(words[table[o].root][i1])
    BY Zenon DEF map_page, RootEntry
  <2> QED
    BY Zenon, <1>1, <2>1, TableFacts
<1>3. Second(o, v).cap = Entries /\ Second(o, v).ptr = p
  BY <1>2 DEF Second, Elements, TableAt
<1>4. i0 < Entries
  BY <1>1, PageTableAssumption DEF Index
<1>5. /\ words' = [words EXCEPT ![p][i0] = e]
      /\ last' = Call(o, v, e)
      /\ UNCHANGED <<status, table, used, vecs>>
  BY Zenon, <1>3, <1>4 DEF map_page
<1>6. \A q \in Live : p # table[q].root
  BY <1>1, <1>2 DEF Inv, Apart
<1>7. words \in [Pages -> Row]
  BY Zenon DEF Inv, TypeOK
<1> HIDE DEF p, i0, e
<1>8. /\ words' \in [Pages -> Row] /\ words'[p] = [words[p] EXCEPT ![i0] = e]
      /\ \A x \in Pages : x # p => words'[x] = words[x]
  <2> DEFINE row == [words[p] EXCEPT ![i0] = e]
  <2>1. row \in Row
    BY Zenon, <1>1, <1>2, <1>7
  <2>2. words' = [words EXCEPT ![p] = row]
    BY Zenon, <1>5
  <2> HIDE DEF row, Row
  <2>3. /\ words' \in [Pages -> Row] /\ words'[p] = row
        /\ \A x \in Pages : x # p => words'[x] = words[x]
    BY Zenon, <1>2, <1>7, <2>1, <2>2
  <2> QED
    BY Zenon, <2>3 DEF row
<1>9. Live' = Live
  BY Zenon, <1>5 DEF Live
<1> p \in Pages
  BY Zenon, <1>2
<1> WITNESS p \in Pages
<1> QED
  BY Zenon, <1>1, <1>2, <1>5, <1>6, <1>8, <1>9 DEF MappedRow, p, i0, e

(* map_page when the table is there. *)
LEMMA MapInv ==
  ASSUME Inv, NEW o \in Owner, NEW v \in VAddr, NEW pa \in Targets,
         NEW flags \in Flags, map_page(o, v, pa, flags)
  PROVE  Inv'
<1>1. PICK p \in Pages : MappedRow(o, v, Pte(pa, flags), p)
  BY Zenon, MapRow
<1>2. /\ p \in used /\ \A q \in Live : p # table[q].root
      /\ words' \in [Pages -> [Index -> Nat]]
      /\ \A x \in Pages : x # p => words'[x] = words[x]
      /\ status' = status /\ table' = table /\ used' = used
      /\ vecs' = vecs /\ Live' = Live
  BY Zenon, <1>1 DEF MappedRow
<1>3. TypeOK'
  BY Zenon, <1>2 DEF Inv, TypeOK
<1>4. \A q \in Live : Elements(q)' = Elements(q) /\ Blocks(q)' = Blocks(q)
  BY Zenon, <1>2 DEF Elements, Blocks
<1>5. \A q \in Live, i \in Index : Agrees(q, i)'
  BY Zenon, <1>2, <1>4 DEF Inv, Built, Agrees
<1>6. Built' /\ Apart' /\ NoLeak'
  BY <1>2, <1>4, <1>5 DEF Inv, Built, Apart, NoLeak
<1> QED
  BY Zenon, <1>3, <1>6 DEF Inv

(* What drop_in_place frees for the elements of second_pts are the o's
   second-level tables, each one once. *)
LEMMA InnerTables ==
  ASSUME Inv, NEW o \in Live
  PROVE  /\ Inner(o) = {Elements(o)[i].ptr : i \in Index} \ {0}
         /\ Inner(o) \subseteq Pages \cap used
         /\ ~Doubled(o)
         /\ table[o].root \notin Inner(o)
<1>1. 0 \notin Pages /\ PAGE_SIZE # 0
  BY ZenonT(30), PageTableAssumption
<1>2. \A i \in Index : Freed(Elements(o)[i]) = {Elements(o)[i].ptr} \ {0}
  <2> SUFFICES ASSUME NEW i \in Index
               PROVE  Freed(Elements(o)[i]) = {Elements(o)[i].ptr} \ {0}
    BY Zenon
  <2>1. CASE Elements(o)[i].ptr = 0
    <3>1. Elements(o)[i].size = 0
      BY <2>1, TableFacts DEF ZeroVec
    <3> QED
      BY Zenon, <2>1, <3>1 DEF Freed
  <2>2. CASE Elements(o)[i].ptr # 0
    <3>1. Elements(o)[i].size # 0
      <4>1. Elements(o)[i] = TableAt(Elements(o)[i].ptr)
        BY Zenon, <2>2, TableFacts
      <4> QED
        BY <1>1, <4>1 DEF TableAt
    <3> QED
      BY Zenon, <2>2, <3>1 DEF Freed
  <2> QED
    BY Zenon, <2>1, <2>2
<1>3. Inner(o) = {Elements(o)[i].ptr : i \in Index} \ {0}
  BY <1>2 DEF Inner
<1>4. \A i \in Index : Elements(o)[i].ptr # 0 => Elements(o)[i].ptr \in Pages \cap used
  BY Zenon, TableFacts
<1>5. \A i, j \in Index : Elements(o)[i].ptr # 0 =>
        /\ Elements(o)[i].ptr # table[o].root
        /\ Elements(o)[i].ptr = Elements(o)[j].ptr => i = j
  BY Zenon DEF Inv, Apart
<1>6. ~Doubled(o)
  BY <1>2, <1>5 DEF Doubled
<1> QED
  BY Zenon, <1>3, <1>4, <1>5, <1>6

(* The drop of a page table frees its blocks and nobody else's. *)
LEMMA DropInv ==
  ASSUME Inv, NEW o \in Owner, drop(o)
  PROVE  /\ Inv'
         /\ o \in Live /\ Live' = Live \ {o}
         /\ \A q \in Live' : table'[q] = table[q]
         /\ words' = words /\ vecs' = vecs /\ last' = NoCall
<1> DEFINE B == Blocks(o)
<1>1. o \in Live /\ words' = words /\ vecs' = vecs
  BY Zenon DEF drop, Live
<1>2. B = Inner(o) \cup {table[o].root, table[o].second} /\ B \subseteq used
  BY Zenon, <1>1, InnerTables DEF Blocks, Inv, Built
<1>3. /\ used' = used \ B
      /\ table' = [table EXCEPT ![o] = NoTable] /\ last' = NoCall /\ status' = status
  BY Zenon, <1>1, <1>2, InnerTables DEF drop
<1>4. table'[o] = NoTable /\ \A q \in Owner : q # o => table'[q] = table[q]
  BY Zenon, <1>3 DEF Inv, TypeOK
<1>5. /\ Live' = Live \ {o}
      /\ \A q \in Live' : /\ q \in Live /\ q # o /\ table'[q] = table[q]
                          /\ Elements(q)' = Elements(q) /\ Blocks(q)' = Blocks(q)
  BY Zenon, <1>1, <1>4 DEF Live, Elements, Blocks
<1> HIDE DEF B
<1>6. TypeOK'
  <2>1. NoTable \in [root : Nat, second : Nat]
    BY Zenon DEF NoTable
  <2> QED
    BY Zenon, <1>1, <1>3, <2>1 DEF Inv, TypeOK
<1>7. ASSUME NEW q \in Live, q # o
      PROVE  /\ table[q].root \notin B /\ table[q].second \notin B
             /\ \A i \in Index : Elements(q)[i].ptr \notin B
  <2>1. Inner(o) = {Elements(o)[i].ptr : i \in Index} \ {0} /\ Inner(o) \subseteq Pages
    BY Zenon, <1>1, InnerTables
  <2>2. /\ table[o].root \in Pages /\ table[o].second \in Arrays
        /\ table[q].root \in Pages /\ table[q].second \in Arrays
        /\ Pages \cap Arrays = {} /\ 0 \notin Pages \cup Arrays
        /\ \A i \in Index : Elements(q)[i].ptr # 0 => Elements(q)[i].ptr \in Pages
    BY <1>1, TableFacts, PageTableAssumption DEF Inv, Built
  <2>3. /\ table[q].root # table[o].root /\ table[q].second # table[o].second
        /\ \A i \in Index : Elements(o)[i].ptr # 0 => Elements(o)[i].ptr # table[q].root
        /\ \A i \in Index : Elements(q)[i].ptr # 0 => Elements(q)[i].ptr # table[o].root
        /\ \A i, j \in Index : Elements(q)[i].ptr # 0 =>
                                 Elements(q)[i].ptr # Elements(o)[j].ptr
    BY <1>1, <1>7 DEF Inv, Apart
  <2>4. table[q].root \notin Inner(o) /\ table[q].second \notin Inner(o)
    BY Zenon, <2>1, <2>2, <2>3
  <2>5. \A i \in Index : Elements(q)[i].ptr \notin Inner(o)
    BY Zenon, <2>1, <2>3
  <2>6. \A i \in Index : Elements(q)[i].ptr # table[o].root
                         /\ Elements(q)[i].ptr # table[o].second
    BY Zenon, <2>2, <2>3
  <2> QED
    BY Zenon, <1>2, <2>2, <2>3, <2>4, <2>5, <2>6
<1>8. Built'
  <2>1. ASSUME NEW q \in Live', NEW i \in Index PROVE Agrees(q, i)'
    <3>1. Agrees(q, i) /\ Elements(q)[i].ptr \notin B
      BY Zenon, <1>5, <1>7 DEF Inv, Built
    <3>2. \A p : TableAt(p).ptr = p
      BY Zenon DEF TableAt
    <3> QED
      BY <1>1, <1>3, <1>5, <3>1, <3>2 DEF Agrees
  <2> QED
    BY SMTT(30), <1>3, <1>5, <1>7, <2>1 DEF Inv, Built
<1>9. Apart'
  BY <1>5 DEF Inv, Apart
<1>10. NoLeak'
  BY Zenon, <1>3, <1>5 DEF Inv, NoLeak, B
<1> QED
  BY Zenon, <1>1, <1>3, <1>5, <1>6, <1>8, <1>9, <1>10 DEF Inv

(* Every step preserves the invariant. *)
LEMMA NextInv ==
  ASSUME ~dirty', Inv, [Next]_vars
  PROVE  Inv'
<1>1. ASSUME NEW o \in Owner, NEW v \in VAddr, NEW pa \in Targets, NEW flags \in Flags,
             map_page_create(o, v, pa, flags) \/ map_page(o, v, pa, flags)
      PROVE  Inv'
  BY Zenon, <1>1, CreateInv, MapInv
<1>2. ASSUME NEW o \in Owner, NEW v \in VAddr, NEW pa \in Targets,
             map_page_unaligned(o, v, pa) \/ map_page_no_memory(o, v, pa)
      PROVE  Inv'
  BY Zenon, <1>2, PanicInv
<1>3. ASSUME NEW o \in Owner, new(o) \/ new_no_memory(o) \/ drop(o)
      PROVE  Inv'
  BY Zenon, <1>3, NewInv, PanicInv, DropInv
<1>4. CASE UNCHANGED vars
  <2>1. \A q \in Live, i \in Index : Agrees(q, i) => Agrees(q, i)'
    BY Zenon, <1>4 DEF vars, Agrees, Elements
  <2>2. /\ \A q \in Live : Elements(q)' = Elements(q) /\ Blocks(q)' = Blocks(q)
        /\ Live' = Live /\ table' = table /\ used' = used /\ status' = status
    BY Zenon, <1>4 DEF vars, Live, Elements, Blocks
  <2>3. TypeOK'
    BY Zenon, <1>4 DEF vars, Inv, TypeOK
  <2>4. Built'
    BY Zenon, <2>1, <2>2 DEF Inv, Built
  <2>5. Apart'
    BY <2>2 DEF Inv, Apart
  <2>6. NoLeak'
    BY Zenon, <2>2 DEF Inv, NoLeak
  <2> QED
    BY Zenon, <2>3, <2>4, <2>5, <2>6 DEF Inv
<1> QED
  BY Zenon, <1>1, <1>2, <1>3, <1>4 DEF Next, Halt

-----------------------------------------------------------------------------
(* The theorems *)

(* A block that is not clear is never forgotten. *)
LEMMA StaysDirty ==
  ASSUME dirty, [Next]_vars
  PROVE  dirty'
<1>1. ASSUME NEW o \in Owner, new(o) \/ new_no_memory(o) \/ drop(o)
      PROVE  dirty'
  BY Zenon, <1>1 DEF new, new_no_memory, drop
<1>2. ASSUME NEW o \in Owner, NEW v \in VAddr, NEW pa \in Targets,
             map_page_unaligned(o, v, pa) \/ map_page_no_memory(o, v, pa)
      PROVE  dirty'
  BY Zenon, <1>2 DEF map_page_unaligned, map_page_no_memory
<1>3. ASSUME NEW o \in Owner, NEW v \in VAddr, NEW pa \in Targets, NEW flags \in Flags,
             map_page_create(o, v, pa, flags) \/ map_page(o, v, pa, flags)
      PROVE  dirty'
  BY Zenon, <1>3 DEF map_page_create, map_page
<1>4. CASE UNCHANGED vars
  BY Zenon, <1>4 DEF vars
<1> QED
  BY Zenon, <1>1, <1>2, <1>3, <1>4 DEF Next, Halt

(* The invariant holds in every state up to the first in which phalloc has
   served a block that was not clear. *)
THEOREM PageTableInv == Spec => [](dirty \/ Inv)
<1>1. (dirty \/ Inv) /\ [Next]_vars => (dirty \/ Inv)'
  BY Zenon, NextInv, StaysDirty
<1> QED
  BY <1>1, InitInv, PTL DEF Spec

(* The root and second_pts agree on every second-level table: as long as
   phalloc has served only clear blocks, whatever was mapped and dropped
   before, the table that map_page writes through is the one that the hardware
   walks. *)
THEOREM RootMatchesOwnerAlways == Spec => []RootMatchesOwner
<1>1. dirty \/ Inv => RootMatchesOwner
  <2> SUFFICES ASSUME Inv, NEW o \in Live, NEW v \in VPage
               PROVE  /\ Valid(RootEntry(o, v)) =>
                           Second(o, v) = TableAt((RootEntry(o, v) \div 1024) * PAGE_SIZE)
                      /\ ~Valid(RootEntry(o, v)) => Second(o, v) = ZeroVec
    BY Zenon DEF RootMatchesOwner
  <2>1. vpn1(v) \in Index
    BY Zenon, Vpn DEF VPage
  <2>2. /\ Second(o, v) = Elements(o)[vpn1(v)]
        /\ RootEntry(o, v) = words[table[o].root][vpn1(v)]
    BY Zenon DEF Second, Elements, RootEntry
  <2> QED
    BY <2>1, <2>2, TableFacts, PteOfTable
<1> QED
  BY <1>1, PageTableInv, PTL

(* As long as phalloc has served only clear blocks, every allocated block
   belongs to exactly one page table, in exactly one role: none is shared,
   leaked or freed twice.  So buddy_free and FixedVec's bounds check panic
   only when a block has come back with its old contents. *)
THEOREM BlocksOwnedOnceAlways == Spec => []BlocksOwnedOnce
<1>1. dirty \/ Inv => BlocksOwnedOnce
  <2> SUFFICES ASSUME Inv PROVE BlocksOwnedOnce
    BY Zenon DEF BlocksOwnedOnce
  <2>1. status \notin {"index_panic", "free_panic"}
    BY Zenon DEF Inv, TypeOK
  <2>2. ASSUME NEW o \in Live
        PROVE  /\ Blocks(o) = Inner(o) \cup {table[o].root, table[o].second}
               /\ Inner(o) = {Elements(o)[i].ptr : i \in Index} \ {0}
               /\ Inner(o) \subseteq Pages \cap used
               /\ table[o].root \in Pages \cap used /\ table[o].second \in Arrays \cap used
    BY Zenon, InnerTables DEF Blocks, Inv, Built
  <2>3. \A o \in Live : Blocks(o) \subseteq used
    BY Zenon, <2>2
  <2>4. status = "run" => used = UNION {Blocks(o) : o \in Live}
    BY Zenon, <2>3 DEF Inv, NoLeak
  <2>5. ASSUME NEW o \in Live, NEW q \in Live, o # q PROVE Blocks(o) \cap Blocks(q) = {}
    <3>1. /\ table[o].root # table[q].root /\ table[o].second # table[q].second
          /\ Inner(o) \cap Inner(q) = {}
          /\ table[q].root \notin Inner(o) /\ table[o].root \notin Inner(q)
      BY <2>2, <2>5 DEF Inv, Apart
    <3>2. Pages \cap Arrays = {}
      BY ZenonT(30), PageTableAssumption
    <3> QED
      BY <2>2, <3>1, <3>2
  <2>6. \A o \in Live, i, j \in Index :
          LET p == Elements(o)[i].ptr
          IN  p # 0 => p # table[o].root /\ (i # j => p # Elements(o)[j].ptr)
    BY ZenonT(30) DEF Inv, Apart
  <2> QED
    BY Zenon, <2>1, <2>4, <2>5, <2>6 DEF BlocksOwnedOnce
<1> QED
  BY <1>1, PageTableInv, PTL

-----------------------------------------------------------------------------
(* PageTable implements AddressMap: what the hardware's walk finds is the map *)

(* The map of o that the walk of the hardware reads off. *)
Seen(o) == [v \in VPage |-> Walk(o, v)]

Nothing == [v \in {} |-> 0]

Space == [o \in Owner |-> IF o \in Live THEN Seen(o) ELSE Nothing]

(* The walk goes through the tables that second_pts owns. *)
Ptr(o, i) == Elements(o)[i].ptr

WalksOwned ==
  \A o \in Live, v \in VPage :
    Walk(o, v) = IF Ptr(o, vpn1(v)) = 0 THEN 0 ELSE words[Ptr(o, vpn1(v))][vpn0(v)]

(* The walk with the two indices. *)
WalkFrom(o, i1, i0) ==
  LET pte  == words[table[o].root][i1]
      next == (pte \div 1024) * PAGE_SIZE
  IN  IF pte % 2 = 1 /\ next \in Pages THEN words[next][i0] ELSE 0

(* The invariant implies it. *)
LEMMA WalkIs == Inv => WalksOwned
<1> SUFFICES ASSUME Inv, NEW o \in Live, NEW v \in VPage
             PROVE  Walk(o, v) = IF Ptr(o, vpn1(v)) = 0 THEN 0
                                 ELSE words[Ptr(o, vpn1(v))][vpn0(v)]
  BY Zenon DEF WalksOwned
<1> DEFINE p == Ptr(o, vpn1(v))
           pte == words[table[o].root][vpn1(v)]
           next == (pte \div 1024) * PAGE_SIZE
<1>1. /\ vpn1(v) \in Index
      /\ vpn1(v) = (v \div PAGE_SIZE) \div Entries
      /\ vpn0(v) = (v \div PAGE_SIZE) % Entries
  BY Zenon, Vpn DEF VPage
<1>2. Walk(o, v) = IF Valid(pte) /\ next \in Pages THEN words[next][vpn0(v)] ELSE 0
  <2>1. Walk(o, v) = WalkFrom(o, (v \div PAGE_SIZE) \div Entries, (v \div PAGE_SIZE) % Entries)
    BY Zenon DEF Walk, WalkFrom
  <2>2. Walk(o, v) = WalkFrom(o, vpn1(v), vpn0(v))
    BY Zenon, <1>1, <2>1
  <2> QED
    BY Zenon, <2>2 DEF WalkFrom, Valid
<1>3. /\ Valid(pte) <=> p # 0
      /\ p # 0 => pte = Pte(p, 0) /\ p \in Pages
  BY Zenon, <1>1, TableFacts DEF Ptr
<1>4. p # 0 => next = p
  <2> HIDE DEF p, pte
  <2> QED
    BY <1>3, PteOfTable
<1> HIDE DEF p, pte, next
<1>5. Walk(o, v) = IF p = 0 THEN 0 ELSE words[p][vpn0(v)]
  BY Zenon, <1>2, <1>3, <1>4
<1> QED
  BY Zenon, <1>5 DEF p

(* A page table's map is never the absent one: there is a page at address 0. *)
LEMMA SeenIsThere == 0 \in VPage /\ \A o : Seen(o) # Nothing
<1>1. 0 \in VPage
  <2>1. PAGE_SIZE \in Nat \ {0} /\ Entries \in Nat \ {0}
    BY ZenonT(30), PageTableAssumption
  <2>2. PAGE_SIZE * Entries * Entries >= 1 /\ PAGE_SIZE * Entries * Entries \in Nat
    BY <2>1, SMT
  <2>3. 0 % PAGE_SIZE = 0
    BY <2>1, SMT
  <2> QED
    BY <2>2, <2>3 DEF VPage, VAddr
<1>2. \A o : DOMAIN Seen(o) = VPage /\ DOMAIN Nothing = {}
  BY Zenon DEF Seen, Nothing
<1> QED
  BY Zenon, <1>1, <1>2

(* A page table whose tables are where they were, with what they held, is
   seen as it was. *)
LEMMA SeenSame ==
  ASSUME Inv, Inv', NEW q \in Live, q \in Live',
         \A i \in Index : /\ Ptr(q, i)' = Ptr(q, i)
                          /\ Ptr(q, i) # 0 => words'[Ptr(q, i)] = words[Ptr(q, i)]
  PROVE  Seen(q)' = Seen(q)
<1>1. WalksOwned /\ WalksOwned'
  <2>1. (Inv => WalksOwned)'
    BY WalkIs, PTL
  <2> QED
    BY Zenon, <2>1, WalkIs
<1>2. ASSUME NEW v \in VPage PROVE Walk(q, v)' = Walk(q, v)
  <2> DEFINE p == Ptr(q, vpn1(v))
  <2>1. vpn1(v) \in Index
    BY Zenon, Vpn DEF VPage
  <2>2. Walk(q, v) = IF p = 0 THEN 0 ELSE words[p][vpn0(v)]
    BY Zenon, <1>1 DEF WalksOwned
  <2>3. Walk(q, v)' = IF p = 0 THEN 0 ELSE words'[p][vpn0(v)]
    BY Zenon, <1>1, <2>1 DEF WalksOwned
  <2> QED
    BY <2>1, <2>2, <2>3
<1> QED
  BY Zenon, <1>2 DEF Seen

(* What a step does to one page table, if it leaves the others alone. *)
LEMMA SpaceStep ==
  ASSUME NEW o \in Owner,
         \A q \in Owner : q # o => /\ q \in Live' <=> q \in Live
                                   /\ q \in Live => Seen(q)' = Seen(q)
  PROVE  /\ Space' = [Space EXCEPT ![o] = IF o \in Live' THEN Seen(o)' ELSE Nothing]
         /\ Space[o] = IF o \in Live THEN Seen(o) ELSE Nothing
<1> QED
  BY Zenon DEF Space, Nothing

(* The operations of AddressMap, of Space. *)
LEMMA AbsSteps ==
  ASSUME NEW o \in Owner
  PROVE  /\ /\ Space[o] = Nothing
            /\ Space' = [Space EXCEPT ![o] = [v \in VPage |-> 0]]
            /\ last' = NoCall
            => Abs!New(o)
         /\ \A v, e : /\ Space[o] # Nothing
                      /\ Space' = [Space EXCEPT ![o] = [Space[o] EXCEPT ![v] = e]]
                      /\ last' = Call(o, v, e)
                      => Abs!Map(o, v, e)
         /\ /\ Space[o] # Nothing
            /\ Space' = [Space EXCEPT ![o] = Nothing]
            /\ last' = NoCall
            => Abs!Drop(o)
BY Zenon DEF Abs!New, Abs!Map, Abs!Drop, Abs!NoCall, Abs!Call, NoCall, Call, Space, Seen, Nothing

(* PageTable::new adds a page table that maps nothing. *)
LEMMA NewStep ==
  ASSUME ~dirty', Inv, NEW o \in Owner, new(o)
  PROVE  /\ Abs!New(o)
         /\ Seen(o)' = [v \in VPage |-> 0]
         /\ \A q \in Owner : q # o => (q \in Live' <=> q \in Live)
<1>1. /\ Inv'
      /\ o \notin Live /\ Live' = Live \cup {o}
      /\ words' = words /\ last' = NoCall
      /\ \A q \in Live : Elements(q)' = Elements(q)
      /\ \A i \in Index : Elements(o)'[i] = ZeroVec
  BY Zenon, NewInv
<1>2. \A q \in Live : Seen(q)' = Seen(q)
  BY Zenon, <1>1, SeenSame DEF Ptr
<1>3. WalksOwned'
  <2>1. (Inv => WalksOwned)'
    BY WalkIs, PTL
  <2> QED
    BY Zenon, <1>1, <2>1
<1>4. \A v \in VPage : Walk(o, v)' = 0
  <2>1. \A v \in VPage : vpn1(v) \in Index
    BY Zenon, Vpn DEF VPage
  <2> QED
    BY <1>1, <1>3, <2>1 DEF ZeroVec, WalksOwned, Ptr
<1>5. Seen(o)' = [v \in VPage |-> 0]
  BY Zenon, <1>4 DEF Seen
<1>6. Space[o] = Nothing /\ Space' = [Space EXCEPT ![o] = [v \in VPage |-> 0]]
  BY Zenon, <1>1, <1>2, <1>5, SpaceStep
<1> QED
  BY Zenon, <1>1, <1>5, <1>6, AbsSteps

(* A write to one word of one second-level table changes what one page of its
   page table is mapped to. *)
LEMMA OneEntry ==
  ASSUME WalksOwned, WalksOwned', Live' = Live, NEW o \in Live, NEW v \in VPage, NEW e,
         NEW p, p # 0, Ptr(o, vpn1(v))' = p,
         \A i \in Index : i # vpn1(v) =>
           /\ Ptr(o, i)' = Ptr(o, i)
           /\ Ptr(o, i) # 0 => words'[Ptr(o, i)] = words[Ptr(o, i)],
         \A w \in VPage : vpn1(w) = vpn1(v) =>
           words'[p][vpn0(w)] = IF vpn0(w) = vpn0(v) THEN e ELSE Walk(o, w),
         NEW w \in VPage
  PROVE  Walk(o, w)' = IF w = v THEN e ELSE Walk(o, w)
<1>1. vpn1(w) \in Index
  BY Zenon, Vpn DEF VPage
<1>2. /\ Walk(o, w) = IF Ptr(o, vpn1(w)) = 0 THEN 0
                      ELSE words[Ptr(o, vpn1(w))][vpn0(w)]
      /\ Walk(o, w)' = IF Ptr(o, vpn1(w))' = 0 THEN 0
                       ELSE words'[Ptr(o, vpn1(w))'][vpn0(w)]
  BY Zenon, SMTT(30) DEF WalksOwned
<1>3. CASE vpn1(w) # vpn1(v)
  BY Zenon, <1>1, <1>2, <1>3
<1>4. CASE vpn1(w) = vpn1(v)
  <2>1. Ptr(o, vpn1(w))' = p
    BY Zenon, <1>4
  <2>2. Walk(o, w)' = IF vpn0(w) = vpn0(v) THEN e ELSE Walk(o, w)
    BY Zenon, <1>2, <1>4, <2>1
  <2>3. vpn0(w) = vpn0(v) => w = v
    BY Zenon, <1>4, VpnInjective
  <2> QED
    BY Zenon, <2>2, <2>3
<1> QED
  BY Zenon, <1>3, <1>4

(* What a step of map_page that writes e for the page v does to the maps. *)
OneWrite(o, v, e) ==
  /\ o \in Live /\ v \in VPage /\ Live' = Live /\ last' = Call(o, v, e)
  /\ \A q \in Live : q # o => Seen(q)' = Seen(q)
  /\ \A w \in VPage : Walk(o, w)' = IF w = v THEN e ELSE Walk(o, w)

(* The invariant, before and after, and what it says of the tables. *)
LEMMA TablesApart ==
  ASSUME Inv
  PROVE  \A q, x \in Live, i, j \in Index : Ptr(q, i) # 0 =>
           /\ Ptr(q, i) \in Pages /\ Ptr(q, i) # table[x].root
           /\ Ptr(q, i) = Ptr(x, j) => q = x /\ i = j
<1>1. \A q \in Live, i \in Index : Ptr(q, i) # 0 => Ptr(q, i) \in Pages
  BY Zenon, TableFacts DEF Ptr
<1>2. \A q, x \in Live, i, j \in Index : Ptr(q, i) # 0 =>
        Ptr(q, i) # table[x].root /\ (Ptr(q, i) = Ptr(x, j) => q = x /\ i = j)
  BY Zenon DEF Inv, Apart, Ptr
<1> QED
  BY Zenon, <1>1, <1>2

(* map_page creates the second-level table. *)
LEMMA CreateWrites ==
  ASSUME ~dirty', Inv, NEW o \in Owner, NEW v \in VAddr, NEW pa \in Targets,
         NEW flags \in Flags, map_page_create(o, v, pa, flags)
  PROVE  OneWrite(o, v, Pte(pa, flags))
<1> DEFINE e == Pte(pa, flags)
<1>1. PICK p \in Pages \ used : CreatedRows(o, v, e, p)
  BY CreateRows
<1> HIDE DEF e
<1>2. Inv' /\ WalksOwned /\ WalksOwned'
  <2>1. (Inv => WalksOwned)'
    BY WalkIs, PTL
  <2> QED
    BY Zenon, <2>1, CreateInv, WalkIs
<1>3. /\ o \in Live /\ v \in VPage /\ Live' = Live /\ last' = Call(o, v, e)
      /\ words'[p] = [i \in Index |-> IF i = vpn0(v) THEN e ELSE 0]
      /\ \A x \in Pages : x # p /\ x # table[o].root => words'[x] = words[x]
  BY ZenonT(30), <1>1 DEF CreatedRows
<1>4. /\ Ptr(o, vpn1(v)) = 0 /\ Ptr(o, vpn1(v))' = p
      /\ \A q \in Live, i \in Index : q # o \/ i # vpn1(v) => Ptr(q, i)' = Ptr(q, i)
      /\ \A q \in Live, i \in Index : p # Ptr(q, i)
  <2>1. /\ Elements(o)[vpn1(v)].ptr = 0 /\ Elements(o)'[vpn1(v)] = TableAt(p)
        /\ \A q \in Live, i \in Index : q # o \/ i # vpn1(v) => Elements(q)'[i] = Elements(q)[i]
        /\ \A q \in Live, i \in Index : p # Elements(q)[i].ptr
    BY Zenon, <1>1 DEF CreatedRows
  <2>2. TableAt(p).ptr = p
    BY Zenon DEF TableAt
  <2> QED
    BY Zenon, <2>1, <2>2 DEF Ptr
<1>5. p # 0 /\ \A w \in VPage : vpn1(w) \in Index /\ vpn0(w) \in Index
  BY Vpn, PageTableAssumption DEF VPage
<1>6. \A q \in Live, i \in Index : Ptr(q, i) # 0 => words'[Ptr(q, i)] = words[Ptr(q, i)]
  BY SMTT(30), <1>3, <1>4, TablesApart
<1>7. \A q \in Live : q # o => Seen(q)' = Seen(q)
  BY Zenon, <1>2, <1>3, <1>4, <1>6, SeenSame
<1>8. \A w \in VPage : vpn1(w) = vpn1(v) =>
        words'[p][vpn0(w)] = IF vpn0(w) = vpn0(v) THEN e ELSE Walk(o, w)
  <2>1. \A w \in VPage : vpn1(w) = vpn1(v) => Walk(o, w) = 0
    BY Zenon, <1>2, <1>3, <1>4 DEF WalksOwned
  <2> QED
    BY Zenon, <1>3, <1>5, <2>1
<1>9. \A w \in VPage : Walk(o, w)' = IF w = v THEN e ELSE Walk(o, w)
  <2>1. \A i \in Index : i # vpn1(v) =>
          /\ Ptr(o, i)' = Ptr(o, i)
          /\ Ptr(o, i) # 0 => words'[Ptr(o, i)] = words[Ptr(o, i)]
    BY Zenon, <1>3, <1>4, <1>6
  <2>2. Live' = Live /\ o \in Live /\ v \in VPage
    BY ZenonT(30), <1>3
  <2> QED
    BY SMTT(30), <1>2, <1>4, <1>5, <1>8, <2>1, <2>2, OneEntry
<1> QED
  BY Zenon, <1>3, <1>7, <1>9 DEF OneWrite, e

(* map_page finds the second-level table. *)
LEMMA MapWrites ==
  ASSUME Inv, NEW o \in Owner, NEW v \in VAddr, NEW pa \in Targets,
         NEW flags \in Flags, map_page(o, v, pa, flags)
  PROVE  OneWrite(o, v, Pte(pa, flags))
<1> DEFINE e == Pte(pa, flags)
<1>1. PICK p \in Pages : MappedRow(o, v, e, p)
  BY Zenon, MapRow
<1> HIDE DEF e
<1>2. Inv' /\ WalksOwned /\ WalksOwned'
  <2>1. (Inv => WalksOwned)'
    BY WalkIs, PTL
  <2> QED
    BY Zenon, <2>1, MapInv, WalkIs
<1>3. /\ o \in Live /\ v \in VPage /\ Live' = Live /\ last' = Call(o, v, e)
      /\ words'[p] = [words[p] EXCEPT ![vpn0(v)] = e]
      /\ \A x \in Pages : x # p => words'[x] = words[x]
  BY Zenon, <1>1 DEF MappedRow
<1>4. Ptr(o, vpn1(v)) = p /\ \A q \in Live, i \in Index : Ptr(q, i)' = Ptr(q, i)
  BY Zenon, <1>1 DEF MappedRow, Elements, Ptr
<1>5. p # 0 /\ \A w \in VPage : vpn1(w) \in Index /\ vpn0(w) \in Index
  BY SMTT(30), Vpn, PageTableAssumption DEF VPage
<1>6. \A q \in Live, i \in Index : Ptr(q, i) # 0 /\ (q # o \/ i # vpn1(v)) =>
        words'[Ptr(q, i)] = words[Ptr(q, i)]
  BY SMTT(30), <1>3, <1>4, <1>5, TablesApart
<1>7. \A q \in Live : q # o => Seen(q)' = Seen(q)
  BY Zenon, <1>2, <1>3, <1>4, <1>6, SeenSame
<1>8. \A w \in VPage : vpn1(w) = vpn1(v) =>
        words'[p][vpn0(w)] = IF vpn0(w) = vpn0(v) THEN e ELSE Walk(o, w)
  <2>1. \A w \in VPage : vpn1(w) = vpn1(v) => Walk(o, w) = words[p][vpn0(w)]
    <3> SUFFICES ASSUME NEW w \in VPage, vpn1(w) = vpn1(v)
                 PROVE  Walk(o, w) = words[p][vpn0(w)]
      BY Zenon
    <3>1. Ptr(o, vpn1(w)) = p /\ o \in Live
      BY Zenon, <1>3, <1>4
    <3>2. Walk(o, w) = IF Ptr(o, vpn1(w)) = 0 THEN 0 ELSE words[Ptr(o, vpn1(w))][vpn0(w)]
      BY Zenon, <1>2, <3>1 DEF WalksOwned
    <3> HIDE DEF Ptr
    <3> QED
      BY Zenon, <1>5, <3>1, <3>2
  <2>2. words[p] \in [Index -> Nat]
    BY Zenon DEF Inv, TypeOK
  <2> QED
    BY Zenon, <1>3, <1>5, <2>1, <2>2
<1>9. Ptr(o, vpn1(v))' = p
  BY Zenon, <1>3, <1>4, <1>5
<1>10. \A w \in VPage : Walk(o, w)' = IF w = v THEN e ELSE Walk(o, w)
  <2>1. \A i \in Index : i # vpn1(v) =>
          /\ Ptr(o, i)' = Ptr(o, i)
          /\ Ptr(o, i) # 0 => words'[Ptr(o, i)] = words[Ptr(o, i)]
    BY Zenon, <1>3, <1>4, <1>6
  <2>2. Live' = Live /\ o \in Live /\ v \in VPage
    BY Zenon, <1>3
  <2> QED
    BY SMTT(30), <1>2, <1>5, <1>8, <1>9, <2>1, <2>2, OneEntry
<1> QED
  BY Zenon, <1>3, <1>7, <1>10 DEF OneWrite, e

(* One entry of one map changes, whether map_page creates the second-level
   table or finds it. *)
LEMMA MapStep ==
  ASSUME ~dirty', Inv, NEW o \in Owner, NEW v \in VAddr, NEW pa \in Targets,
         NEW flags \in Flags,
         map_page_create(o, v, pa, flags) \/ map_page(o, v, pa, flags)
  PROVE  Abs!Map(o, v, Pte(pa, flags)) /\ v \in VPage /\ Live' = Live
<1> DEFINE e == Pte(pa, flags)
<1>4. /\ o \in Live /\ v \in VPage /\ Live' = Live /\ last' = Call(o, v, e)
      /\ \A q \in Live : q # o => Seen(q)' = Seen(q)
      /\ \A w \in VPage : Walk(o, w)' = IF w = v THEN e ELSE Walk(o, w)
  BY CreateWrites, MapWrites DEF OneWrite
<1>5. Seen(o)' = [Seen(o) EXCEPT ![v] = e]
  BY Zenon, <1>4 DEF Seen
<1>6. /\ Space[o] = Seen(o) /\ Space[o] # Nothing
      /\ Space' = [Space EXCEPT ![o] = [Space[o] EXCEPT ![v] = e]]
  BY Zenon, <1>4, <1>5, SpaceStep, SeenIsThere
<1> QED
  BY Zenon, <1>4, <1>6, AbsSteps

(* The drop of a page table removes its map. *)
LEMMA DropStep ==
  ASSUME Inv, NEW o \in Owner, drop(o)
  PROVE  Abs!Drop(o) /\ Live' \subseteq Live
<1>1. /\ Inv'
      /\ o \in Live /\ Live' = Live \ {o}
      /\ \A q \in Live' : table'[q] = table[q]
      /\ words' = words /\ vecs' = vecs /\ last' = NoCall
  BY Zenon, DropInv
<1>2. \A q \in Live : q # o => Seen(q)' = Seen(q)
  <2>1. \A q \in Live' : Elements(q)' = Elements(q)
    BY Zenon, <1>1 DEF Elements
  <2> QED
    BY Zenon, <1>1, <2>1, SeenSame DEF Ptr
<1>3. /\ Space[o] # Nothing
      /\ Space' = [Space EXCEPT ![o] = Nothing]
  BY Zenon, <1>1, <1>2, SpaceStep, SeenIsThere
<1> QED
  BY Zenon, <1>1, <1>3, AbsSteps

(* Every step is an operation of AddressMap or changes nothing it sees. *)
LEMMA NextStep ==
  ASSUME ~dirty', Inv, [Next]_vars
  PROVE  [Abs!Next]_(Abs!vars)
<1>1. ASSUME NEW o \in Owner, new(o) PROVE Abs!Next
  BY <1>1, NewStep DEF Abs!Next
<1>2. ASSUME NEW o \in Owner, NEW v \in VAddr, NEW pa \in Targets, NEW flags \in Flags,
             map_page_create(o, v, pa, flags) \/ map_page(o, v, pa, flags)
      PROVE  Abs!Next
  <2>1. Abs!Map(o, v, Pte(pa, flags)) /\ v \in VPage
    BY Zenon, <1>2, MapStep
  <2>2. Pte(pa, flags) \in {Pte(x, f) : x \in Targets, f \in Flags}
    OBVIOUS
  <2> QED
    BY <2>1, <2>2 DEF Abs!Next
<1>3. ASSUME NEW o \in Owner, drop(o) PROVE Abs!Next
  BY <1>3, DropStep DEF Abs!Next
<1>4. CASE UNCHANGED <<words, vecs, table, last>>
  <2>1. UNCHANGED Abs!vars
    BY <1>4 DEF Abs!vars, Live, Walk
  <2> QED
    BY Zenon, <2>1
<1>5. CASE \E o \in Owner :
             \/ new_no_memory(o)
             \/ \E v \in VAddr, pa \in Targets :
                  map_page_unaligned(o, v, pa) \/ map_page_no_memory(o, v, pa)
  BY Zenon, <1>4, <1>5, PanicInv
<1>6. CASE Halt \/ UNCHANGED vars
  BY Zenon, <1>4, <1>6 DEF Halt, vars
<1> QED
  BY Zenon, <1>1, <1>2, <1>3, <1>5, <1>6 DEF Next

(* As long as phalloc serves only clear blocks, the page tables implement the
   abstract map: what the hardware's walk finds changes by one entry of one
   map when map_page returns, appears empty with PageTable::new, goes with the
   drop, and is touched by nothing else. *)
THEOREM ImplementsAddressMapAlways == Spec => ImplementsAddressMap
<1>1. Init => Abs!Init
  BY Zenon DEF Init, Abs!Init, Live, NoCall, Abs!NoCall
<1>2. (dirty \/ Inv) /\ [Next]_vars => [Abs!Next \/ dirty']_(Abs!vars)
  BY Zenon, NextStep, StaysDirty
<1> QED
  BY <1>1, <1>2, PageTableInv, PTL DEF Spec, ImplementsAddressMap

(* A page table that PageTable::new returns maps nothing, unless phalloc has
   served a block that was not clear: the clearing of RAM by kernel_init is
   enough until a written block comes back. *)
THEOREM NewTableEmptyUnlessDirty ==
  Spec => [][\A o \in Owner : table[o] = NoTable /\ table'[o] # NoTable =>
               dirty' \/ \A v \in VPage : Walk(o, v)' = 0]_vars
<1>1. ASSUME Inv, ~dirty', [Next]_vars,
             NEW o \in Owner, table[o] = NoTable, table'[o] # NoTable
      PROVE  \A v \in VPage : Walk(o, v)' = 0
  <2>1. o \notin Live /\ o \in Live'
    BY Zenon, <1>1 DEF Live
  <2>2. CASE new(o)
    BY Zenon, <2>2, <1>1, NewStep DEF Seen
  <2>3. CASE \E q \in Owner : q # o /\ new(q)
    BY Zenon, <1>1, <2>1, <2>3, NewStep
  <2>4. CASE \E q \in Owner, v \in VAddr, pa \in Targets, flags \in Flags :
               map_page_create(q, v, pa, flags) \/ map_page(q, v, pa, flags)
    BY Zenon, <1>1, <2>1, <2>4, MapStep
  <2>5. CASE \E q \in Owner : drop(q)
    BY Zenon, <1>1, <2>1, <2>5, DropStep
  <2>6. CASE UNCHANGED table
    BY Zenon, <1>1, <2>6
  <2> QED
    BY Zenon, <1>1, <2>2, <2>3, <2>4, <2>5, <2>6
       DEF Next, Halt, vars, new_no_memory, map_page_unaligned, map_page_no_memory
<1>2. (dirty \/ Inv) /\ [Next]_vars =>
        [\A o \in Owner : table[o] = NoTable /\ table'[o] # NoTable =>
           dirty' \/ \A v \in VPage : Walk(o, v)' = 0]_vars
  BY Zenon, <1>1, StaysDirty
<1> QED
  BY <1>2, PageTableInv, PTL DEF Spec

=============================================================================
