----------------------------- MODULE LibraryProofs ------------------------------
(***************************************************************************)
(* Proofs about the parts that stand alone below the two kernels and their *)
(* programs: the OnceCell<Mutex<T>> of Sync, for any set of threads and    *)
(* any modulus; the shell's line and strcmp, for a buffer of any size; and *)
(* printf, for ints of any width.                                          *)
(***************************************************************************)
EXTENDS Sync, Shell, Printf, OrdersProofs

-----------------------------------------------------------------------------
(* The once-cell and the lock *)

(* Once.state and OnceCell.value record how far the initialization is. *)
OnceInv ==
  /\ \A t \in Thread : pc[t] \in Initializing => once = "InProgress"
  /\ \A t \in Thread : pc[t] \in {"closure", "closure_panicked"} => value = None
  /\ \A t \in Thread : pc[t] = "store" => value # None
  /\ \A t \in Thread : pc[t] \in Inside => once = "Completed"
  /\ \A t \in Thread : pc[t] # "unwrap_panicked"
  /\ once = "Incomplete" => value = None
  /\ once = "Completed" => value # None

(* Mutex.lock tells whether a thread holds the guard, and the thread that is
   about to write the counter has read it last. *)
LockInv ==
  /\ \A t \in Thread : pc[t] \in Holding => lock = "Locked"
  /\ \A t \in Thread : pc[t] = "write" => tmp[t] = data
  /\ value = None => sections = 0

SyncInv == TypeOK /\ InitOnce /\ OnceInv /\ MutualExclusion /\ LockInv /\ NoLostUpdate

-----------------------------------------------------------------------------

(* Counting modulo Modulus stays below it. *)
LEMMA IncType == \A n \in 0..(Modulus - 1) : Inc(n) \in 0..(Modulus - 1)
  BY ModulusAssumption DEF Inc

(* A new cell satisfies the invariant. *)
LEMMA SyncStart == Init => SyncInv
  BY ModulusAssumption, NoneAssumption
     DEF Init, SyncInv, TypeOK, InitOnce, OnceInv, MutualExclusion, LockInv,
         NoLostUpdate, Initializing, Inside, Holding, Panicked

(* Every step of every thread preserves the type invariant. *)
LEMMA TypeStep == TypeOK /\ [Next]_vars => TypeOK'
<1> SUFFICES ASSUME TypeOK, [Next]_vars PROVE TypeOK'
  BY Zenon
<1> USE DEF TypeOK, Goto, Initializing, Inside, Holding, Panicked
<1>1. ASSUME NEW t \in Thread, CallOnce(t) PROVE TypeOK'
  BY Zenon, <1>1 DEF CallOnce
<1>2. ASSUME NEW t \in Thread, CompareExchange(t) PROVE TypeOK'
  BY Zenon, <1>2 DEF CompareExchange
<1>3. ASSUME NEW t \in Thread, ClosureReturns(t) PROVE TypeOK'
  BY <1>3, ModulusAssumption DEF ClosureReturns
<1>4. ASSUME NEW t \in Thread, StoreCompleted(t) PROVE TypeOK'
  BY Zenon, <1>4 DEF StoreCompleted
<1>5. ASSUME NEW t \in Thread, Spin(t) PROVE TypeOK'
  BY Zenon, <1>5 DEF Spin
<1>6. ASSUME NEW t \in Thread, Unwrap(t) PROVE TypeOK'
  BY Zenon, <1>6 DEF Unwrap
<1>7. ASSUME NEW t \in Thread, Acquire(t) PROVE TypeOK'
  BY Zenon, <1>7 DEF Acquire
<1>8. ASSUME NEW t \in Thread, Read(t) PROVE TypeOK'
  BY Zenon, <1>8 DEF Read
<1>9. ASSUME NEW t \in Thread, Write(t) PROVE TypeOK'
  BY Zenon, <1>9, IncType DEF Write
<1>10. ASSUME NEW t \in Thread, Release(t) PROVE TypeOK'
  BY Zenon, <1>10 DEF Release
<1>11. ASSUME NEW t \in Thread, Panic(t) PROVE TypeOK'
  BY Zenon, <1>11 DEF Panic, ClosurePanics, SectionPanics
<1>12. CASE UNCHANGED vars
  BY Zenon, <1>12 DEF vars
<1> QED
  BY Zenon, <1>1, <1>2, <1>3, <1>4, <1>5, <1>6, <1>7, <1>8, <1>9, <1>10, <1>11, <1>12
     DEF Next, Run

(* Every step of every thread preserves the rest of the invariant. *)
LEMMA SyncStep == SyncInv /\ [Next]_vars => SyncInv'
<1> SUFFICES ASSUME SyncInv, [Next]_vars PROVE SyncInv'
  OBVIOUS
<1>0. TypeOK'
  BY Zenon, TypeStep DEF SyncInv
<1> USE DEF SyncInv, TypeOK, InitOnce, OnceInv, MutualExclusion, LockInv,
            NoLostUpdate, Goto, Initializing, Inside, Holding, Panicked
<1>1. ASSUME NEW t \in Thread, CallOnce(t) PROVE SyncInv'
  BY Zenon, <1>0, <1>1 DEF CallOnce
<1>2. ASSUME NEW t \in Thread, CompareExchange(t) PROVE SyncInv'
  BY <1>0, <1>2 DEF CompareExchange
<1>3. ASSUME NEW t \in Thread, ClosureReturns(t) PROVE SyncInv'
  BY <1>0, <1>3, NoneAssumption DEF ClosureReturns
<1>4. ASSUME NEW t \in Thread, StoreCompleted(t) PROVE SyncInv'
  BY <1>0, <1>4 DEF StoreCompleted
<1>5. ASSUME NEW t \in Thread, Spin(t) PROVE SyncInv'
  BY <1>0, <1>5 DEF Spin
<1>6. ASSUME NEW t \in Thread, Unwrap(t) PROVE SyncInv'
  BY <1>0, <1>6 DEF Unwrap
<1>7. ASSUME NEW t \in Thread, Acquire(t) PROVE SyncInv'
  BY <1>0, <1>7 DEF Acquire
<1>8. ASSUME NEW t \in Thread, Read(t) PROVE SyncInv'
  BY <1>0, <1>8 DEF Read
<1>9. ASSUME NEW t \in Thread, Write(t) PROVE SyncInv'
  BY Zenon, <1>0, <1>9 DEF Write
<1>10. ASSUME NEW t \in Thread, Release(t) PROVE SyncInv'
  BY Zenon, <1>0, <1>10 DEF Release
<1>11. ASSUME NEW t \in Thread, Panic(t) PROVE SyncInv'
  BY <1>0, <1>11 DEF Panic, ClosurePanics, SectionPanics
<1>12. CASE UNCHANGED vars
  BY Zenon, <1>12 DEF vars
<1> QED
  BY Zenon, <1>1, <1>2, <1>3, <1>4, <1>5, <1>6, <1>7, <1>8, <1>9, <1>10, <1>11, <1>12
     DEF Next, Run

(* The invariant holds in every reachable state. *)
THEOREM SyncInvariance == Spec => []SyncInv
  BY SyncStart, SyncStep, PTL DEF Spec

(* The variables of the cell and the mutex keep their types. *)
THEOREM TypeCorrect == Spec => []TypeOK
<1>1. SyncInv => TypeOK
  BY Zenon DEF SyncInv
<1> QED
  BY <1>1, SyncInvariance, PTL

(* Once::call_once: never do two threads initialize the cell. *)
THEOREM ClosureRunsOnce == Spec => []InitOnce
<1>1. SyncInv => InitOnce
  BY Zenon DEF SyncInv
<1> QED
  BY <1>1, SyncInvariance, PTL

(* OnceCell::get_or_init: the unwrap finds the value. *)
THEOREM UnwrapNeverPanics == Spec => []UnwrapSafe
<1>1. SyncInv => UnwrapSafe
  BY Zenon DEF SyncInv, OnceInv, UnwrapSafe
<1> QED
  BY <1>1, SyncInvariance, PTL

(* Once::call_once: after a panic of the closure nobody gets past it. *)
THEOREM PanicPoisons == Spec => []Poisoned
<1>1. SyncInv => Poisoned
  BY Zenon DEF SyncInv, OnceInv, InitOnce, Poisoned, Initializing, Inside, Holding
<1> QED
  BY <1>1, SyncInvariance, PTL

(* Mutex::lock: at most one guard exists. *)
THEOREM OneGuard == Spec => []MutualExclusion
<1>1. SyncInv => MutualExclusion
  BY Zenon DEF SyncInv
<1> QED
  BY <1>1, SyncInvariance, PTL

(* Mutex: the critical sections are serialised. *)
THEOREM UpdatesKept == Spec => []NoLostUpdate
<1>1. SyncInv => NoLostUpdate
  BY Zenon DEF SyncInv
<1> QED
  BY <1>1, SyncInvariance, PTL

(* OnceCell: the value is written once. *)
THEOREM ValueWrittenOnce == Spec => ValueStable
<1>1. SyncInv /\ [Next]_vars => [value # None => value' = value]_vars
  BY Zenon DEF SyncInv, OnceInv, Next, Run, Panic, CallOnce, CompareExchange,
         ClosureReturns, ClosurePanics, StoreCompleted, Spin, Unwrap, Acquire,
         Read, Write, SectionPanics, Release, Goto, vars
<1> QED
  BY <1>1, SyncInvariance, PTL DEF Spec, ValueStable

-----------------------------------------------------------------------------
(* The shell *)

(* The line in the buffer is the end of what was typed: every buffer that was
   filled before it has been given up as too long. *)
ShellInv ==
  /\ index \in 0..(Size - 1)
  /\ DOMAIN cmdline = 0..(Size - 1)
  /\ mode \in {"read", "run", "exited"}
  /\ typed \in Seq(Char)
  /\ \E q \in Nat :
       /\ Len(typed) = Size * q + index
       /\ \A j \in 0..(index - 1) : cmdline[j] = typed[Size * q + j + 1]
  /\ mode = "run" => cmdline[index] = 0

(* Appending to a sequence. *)
LEMMA AppendFacts ==
  ASSUME NEW S, NEW s \in Seq(S), NEW e \in S
  PROVE  /\ Append(s, e) \in Seq(S) /\ Len(Append(s, e)) = Len(s) + 1
         /\ Append(s, e)[Len(s) + 1] = e
         /\ \A j \in 1..Len(s) : Append(s, e)[j] = s[j]
         /\ Len(s) \in Nat
OBVIOUS

(* Every step keeps the line in the buffer the end of what was typed. *)
LEMMA ShellStep ==
  ASSUME ShellInv, [ShellNext]_shell_vars
  PROVE  ShellInv'
<1> USE DEF ShellInv
<1>a. Size \in Nat \ {0} /\ 0 \in Char /\ CR \in Char
  BY Zenon, ShellAssumption
<1>q. PICK q \in Nat :
        /\ Len(typed) = Size * q + index
        /\ \A j \in 0..(index - 1) : cmdline[j] = typed[Size * q + j + 1]
  BY Zenon
<1>e. <<>> \in Seq(Char) /\ Len(<<>>) = 0
  OBVIOUS
<1>z. 0 \in 0..(Size - 1) /\ Size * 0 + 0 = 0 /\ 0 \in Nat /\ 0..(0 - 1) = {}
  BY <1>a
<1>n. DOMAIN NewBuffer = 0..(Size - 1)
  BY Zenon DEF NewBuffer
<1>f. ASSUME index' = 0, typed' = <<>>, DOMAIN cmdline' = 0..(Size - 1),
             mode' \in {"read", "exited"}
      PROVE  ShellInv'
  BY Zenon, <1>e, <1>z, <1>f
<1>s. Size * q \in Nat /\ Size * q + index \in Nat /\ index \in Nat /\ index + 1 \in Nat
  BY <1>a, <1>q
<1>1. ASSUME NEW ch \in Char, TooLong(ch) PROVE ShellInv'
  <2>1. /\ mode' = "read" /\ index = Size - 1 /\ index' = 0
        /\ cmdline' = NewBuffer
        /\ typed' = IF ch = CR THEN <<>> ELSE Append(typed, ch)
    BY Zenon, <1>1 DEF TooLong, AtLimit
  <2>2. CASE ch = CR
    BY Zenon, <1>f, <1>n, <2>1, <2>2
  <2>3. CASE ch # CR
    <3>1. typed' \in Seq(Char) /\ Len(typed') = Len(typed) + 1
      BY SMT, <2>1, <2>3, AppendFacts
    <3>2. Len(typed') = Size * (q + 1) + 0 /\ q + 1 \in Nat
      <4>1. Size * (q + 1) = Size * q + Size
        BY <1>a
      <4> QED
        BY <1>a, <1>q, <1>s, <2>1, <3>1, <4>1
    <3> QED
      BY Zenon, <1>n, <1>z, <2>1, <3>1, <3>2
  <2> QED
    BY Zenon, <2>2, <2>3
<1>2. CASE EndOfLine
  <2>1. /\ mode' = "run" /\ cmdline' = [cmdline EXCEPT ![index] = 0]
        /\ index' = index /\ typed' = typed
    BY Zenon, <1>2 DEF EndOfLine, Terminator
  <2>2. DOMAIN cmdline' = 0..(Size - 1) /\ cmdline'[index] = 0
    BY Zenon, <2>1
  <2>3. ASSUME NEW j \in 0..(index - 1) PROVE cmdline'[j] = typed[Size * q + j + 1]
    <3>1. j # index /\ j \in 0..(Size - 1)
      BY <1>a
    <3> QED
      BY Zenon, <1>q, <2>1, <3>1
  <2>4. /\ Len(typed') = Size * q + index'
        /\ \A j \in 0..(index' - 1) : cmdline'[j] = typed'[Size * q + j + 1]
    BY Zenon, <1>q, <2>1, <2>3
  <2> QED
    BY Zenon, <2>1, <2>2, <2>4
<1>3. ASSUME NEW ch \in Char, Store(ch) PROVE ShellInv'
  <2>1. /\ mode' = mode /\ mode = "read" /\ index # Size - 1
        /\ cmdline' = [cmdline EXCEPT ![index] = ch]
        /\ index' = index + 1 /\ typed' = Append(typed, ch)
    BY Zenon, <1>3 DEF Store, AtLimit
  <2>2. DOMAIN cmdline' = 0..(Size - 1) /\ cmdline'[index] = ch
    BY Zenon, <2>1
  <2>3. index' \in 0..(Size - 1)
    BY <1>a, <2>1
  <2>4. /\ typed' \in Seq(Char) /\ Len(typed') = Len(typed) + 1
        /\ typed'[Len(typed) + 1] = ch
        /\ \A j \in 1..Len(typed) : typed'[j] = typed[j]
    BY SMT, <2>1, AppendFacts
  <2>5. Len(typed') = Size * q + index'
    BY <1>q, <1>s, <2>1, <2>4
  <2>6. ASSUME NEW j \in 0..(index' - 1) PROVE cmdline'[j] = typed'[Size * q + j + 1]
    <3>1. CASE j = index
      <4>1. Size * q + j + 1 = Len(typed) + 1
        BY Zenon, <1>q, <3>1
      <4> QED
        BY Zenon, <2>2, <2>4, <3>1, <4>1
    <3>2. CASE j # index
      <4>1. j \in 0..(index - 1) /\ j \in 0..(Size - 1)
        BY <1>a, <1>s, <2>1, <3>2
      <4>2. Size * q + j + 1 \in 1..Len(typed)
        <5> DEFINE b == Size * q
        <5> HIDE DEF b
        <5>1. b \in Nat /\ Len(typed) = b + index
          BY Zenon, <1>q, <1>s DEF b
        <5>2. b + j + 1 \in 1..Len(typed)
          BY <1>s, <4>1, <5>1
        <5> QED
          BY Zenon, <5>2 DEF b
      <4>3. cmdline'[j] = cmdline[j]
        BY Zenon, <2>1, <3>2, <4>1
      <4> QED
        BY Zenon, <1>q, <2>4, <4>1, <4>2, <4>3
    <3> QED
      BY Zenon, <3>1, <3>2
  <2> QED
    BY Zenon, <2>1, <2>2, <2>3, <2>4, <2>5, <2>6
<1>4. CASE RunCommand
  <2>1. /\ index' = 0 /\ typed' = <<>> /\ cmdline' = NewBuffer
        /\ mode' \in {"read", "exited"}
    BY Zenon, <1>4 DEF RunCommand
  <2> QED
    BY Zenon, <1>f, <1>n, <2>1
<1>5. CASE UNCHANGED shell_vars
  BY Zenon, <1>5 DEF shell_vars
<1> QED
  BY Zenon, <1>1, <1>2, <1>3, <1>4, <1>5 DEF ShellNext, GetChar, Exited

(* The buffer holds the end of what was typed since the last CR, at every
   size of the buffer and whatever the console delivers. *)
THEOREM ShellInvariance == ShellSpec => []ShellInv
<1>1. ShellInit => ShellInv
  <2> SUFFICES ASSUME ShellInit PROVE ShellInv
    BY Zenon
  <2>1. /\ cmdline = NewBuffer /\ index = 0 /\ mode = "read" /\ typed = <<>>
    BY Zenon DEF ShellInit
  <2>2. DOMAIN NewBuffer = 0..(Size - 1)
    BY Zenon DEF NewBuffer
  <2>3. Size \in Nat \ {0}
    BY Zenon, ShellAssumption
  <2>4. 0 \in 0..(Size - 1) /\ Size * 0 + 0 = 0 /\ 0 \in Nat /\ 0..(0 - 1) = {}
    BY <2>3
  <2>5. <<>> \in Seq(Char) /\ Len(<<>>) = 0
    OBVIOUS
  <2> QED
    BY Zenon, <2>1, <2>2, <2>4, <2>5 DEF ShellInv
<1>2. ShellInv /\ [ShellNext]_shell_vars => ShellInv'
  BY Zenon, ShellStep
<1> QED
  BY <1>1, <1>2, PTL DEF ShellSpec

(* The string in the buffer c ends at its first terminator, at z. *)
EndsAt(c, z) == c[z] = 0 /\ \A j \in 0..(z - 1) : c[j] \in Nat \ {0}

(* At the end of a line there is a terminator, and what precedes it was typed. *)
LEMMA FirstTerminator ==
  ASSUME ShellInv, mode = "run"
  PROVE  \E z \in 0..index : EndsAt(cmdline, z)
<1> DEFINE S == {j \in 0..index : cmdline[j] = 0}
<1>1. index \in Nat /\ cmdline[index] = 0 /\ Char \subseteq Nat /\ Size \in Nat \ {0}
  BY ShellAssumption DEF ShellInv
<1>2. index \in S /\ S \in SUBSET Nat
  BY <1>1
<1>3. PICK z \in S : \A k \in S : z <= k
  BY Zenon, <1>2, LeastNat
<1>4. PICK q \in Nat :
        /\ Len(typed) = Size * q + index
        /\ \A j \in 0..(index - 1) : cmdline[j] = typed[Size * q + j + 1]
  BY Zenon DEF ShellInv
<1>5. ASSUME NEW j \in 0..(z - 1) PROVE cmdline[j] \in Nat \ {0}
  <2>1. j \in 0..(index - 1) /\ j \notin S /\ j \in 0..index
    BY <1>1, <1>3
  <2>2. cmdline[j] # 0
    BY Zenon, <2>1
  <2> DEFINE b == Size * q
  <2>3. b \in Nat
    BY <1>1, <1>4
  <2> HIDE DEF b
  <2>4. b + j + 1 \in 1..Len(typed)
    <3>1. Len(typed) = b + index
      BY Zenon, <1>4 DEF b
    <3> QED
      BY <1>1, <2>1, <2>3, <3>1
  <2>5. typed[b + j + 1] \in Char
    <3>1. typed \in Seq(Char)
      BY Zenon DEF ShellInv
    <3> QED
      BY SMT, <2>4, <3>1
  <2> QED
    BY Zenon, <1>1, <1>4, <2>1, <2>2, <2>5 DEF b
<1> QED
  BY Zenon, <1>3, <1>5 DEF EndsAt

(* No character is stored past the end of the buffer, and no byte is compared
   or printed that was not stored for this line, for every size of the buffer. *)
THEOREM ShellBufferSafe == ShellSpec => []BufferSafe
<1>1. ShellInv => BufferSafe
  <2> SUFFICES ASSUME ShellInv PROVE BufferSafe
    BY Zenon
  <2>1. index \in DOMAIN cmdline
    BY Zenon DEF ShellInv
  <2>2. ASSUME mode = "run"
        PROVE  \E k \in 0..index :
                 /\ cmdline[k] = 0
                 /\ \A j \in 0..(k - 1) : cmdline[j] \notin {0, Junk}
    <3>1. PICK z \in 0..index :
            /\ cmdline[z] = 0
            /\ \A j \in 0..(z - 1) : cmdline[j] \in Nat \ {0}
      BY Zenon, <2>2, FirstTerminator DEF EndsAt
    <3>2. \A c \in Nat \ {0} : c \notin {0, Junk}
      BY DEF Junk
    <3> QED
      BY Zenon, <3>1, <3>2
  <2> QED
    BY Zenon, <2>1, <2>2 DEF BufferSafe
<1> QED
  BY <1>1, ShellInvariance, PTL

(* strcmp returns 0 if the bytes before the first terminator are those of the
   literal s, and only then. *)
LEMMA StrcmpEqual ==
  ASSUME NEW c, NEW z \in Nat, EndsAt(c, z), NEW s \in Seq(Nat \ {0})
  PROVE  strcmp(c, CString(s)) = 0 <=>
           Len(s) = z /\ \A j \in 1..z : s[j] = c[j - 1]
<1> USE DEF EndsAt
<1> DEFINE n == Len(s)
           t == CString(s)
           Stops(k) == c[k] = 0 \/ t[k] = 0 \/ c[k] # t[k]
           P(k) == /\ c[k] = 0 \/ t[k] = 0 \/ c[k] # t[k]
                   /\ \A j \in 0..(k - 1) : c[j] # 0 /\ t[j] # 0 /\ c[j] = t[j]
           S == {k \in 0..n : Stops(k)}
<1>1. n \in Nat /\ \A j \in 1..n : s[j] \in Nat \ {0}
  <2>1. n \in Nat
    OBVIOUS
  <2>2. \A j \in 1..n : s[j] \in Nat \ {0}
    OBVIOUS
  <2> QED
    BY Zenon, <2>1, <2>2
<1>2. DOMAIN t = 0..n /\ \A k \in 0..n : t[k] = IF k < n THEN s[k + 1] ELSE 0
  BY Zenon DEF CString
<1>3. t[n] = 0 /\ \A k \in 0..(n - 1) : t[k] = s[k + 1] /\ t[k] \in Nat \ {0}
  <2> HIDE DEF t, n
  <2>1. t[n] = 0
    BY <1>1, <1>2
  <2>2. ASSUME NEW k \in 0..(n - 1) PROVE t[k] = s[k + 1] /\ t[k] \in Nat \ {0}
    <3>1. k \in 0..n /\ k < n /\ k + 1 \in 1..n
      BY <1>1
    <3> QED
      BY Zenon, <1>1, <1>2, <3>1
  <2> QED
    BY Zenon, <2>1, <2>2
<1> HIDE DEF t, n
<1>4. n \in S /\ S \in SUBSET Nat
  <2>1. n \in 0..n /\ 0..n \subseteq Nat
    BY <1>1
  <2> QED
    BY Zenon, <1>3, <2>1
<1>5. PICK m \in S : \A k \in S : m <= k
  BY Zenon, <1>4, LeastNat
<1>6. m \in 0..n /\ P(m)
  <2>1. ASSUME NEW j \in 0..(m - 1) PROVE c[j] # 0 /\ t[j] # 0 /\ c[j] = t[j]
    <3>1. j \in 0..n /\ j \notin S
      BY <1>1, <1>4, <1>5
    <3> QED
      BY Zenon, <3>1
  <2> QED
    BY Zenon, <1>5, <2>1
<1>7. ASSUME NEW k \in DOMAIN t, P(k) PROVE k = m
  <2>1. k \in 0..n /\ m \in Nat /\ k \in Nat
    BY <1>1, <1>2, <1>4, <1>5
  <2>2. m <= k
    BY Zenon, <1>5, <1>7, <2>1
  <2>3. ~(m < k)
    <3> SUFFICES ASSUME m < k PROVE FALSE
      BY Zenon
    <3>1. m \in 0..(k - 1)
      BY <2>1
    <3> QED
      BY Zenon, <1>6, <1>7, <3>1
  <2> QED
    BY <2>1, <2>2, <2>3
<1>8. Stop(c, t) = m
  <2>1. m \in DOMAIN t /\ P(m)
    BY Zenon, <1>2, <1>6
  <2> HIDE DEF P
  <2>2. (CHOOSE k \in DOMAIN t : P(k)) = m
    BY Zenon, <1>7, <2>1
  <2> QED
    BY Zenon, <2>2 DEF Stop, P
<1>9. strcmp(c, t) = c[m] - t[m]
  BY Zenon, <1>8 DEF strcmp
<1>10. m \in Nat /\ m <= z /\ m <= n
  <2>1. m \in Nat /\ m <= n
    BY <1>1, <1>6
  <2>2. ~(z < m)
    <3> SUFFICES ASSUME z < m PROVE FALSE
      BY Zenon
    <3>1. z \in 0..(m - 1)
      BY <2>1
    <3> QED
      BY Zenon, <1>6, <3>1
  <2> QED
    BY <2>1, <2>2
<1>11. c[m] \in Nat /\ t[m] \in Nat
  <2>0. 0 \in Nat
    BY Zenon
  <2>1. CASE m = z /\ m = n
    BY Zenon, <1>3, <2>0, <2>1
  <2>2. CASE m = z /\ m # n
    <3>1. m \in 0..(n - 1)
      BY <1>1, <1>10, <2>2
    <3> QED
      BY Zenon, <1>3, <2>0, <2>2, <3>1
  <2>3. CASE m # z
    <3>1. m \in 0..(z - 1)
      BY <1>10, <2>3
    <3>2. c[m] \in Nat \ {0}
      BY Zenon, <3>1
    <3>3. CASE m = n
      BY <1>3, <3>2, <3>3
    <3>4. CASE m # n
      <4>1. m \in 0..(n - 1)
        BY <1>1, <1>10, <3>4
      <4> QED
        BY Zenon, <1>3, <3>2, <4>1
    <3> QED
      BY Zenon, <3>3, <3>4
  <2> QED
    BY Zenon, <2>1, <2>2, <2>3
<1>12. strcmp(c, t) = 0 <=> c[m] = t[m]
  <2>1. c[m] - t[m] = 0 <=> c[m] = t[m]
    BY <1>11
  <2> QED
    BY Zenon, <1>9, <2>1
<1>13. ASSUME c[m] = t[m] PROVE n = z /\ \A j \in 1..z : s[j] = c[j - 1]
  <2>1. c[m] = 0 /\ t[m] = 0
    BY Zenon, <1>6, <1>13
  <2>2. m = z
    <3> SUFFICES ASSUME m # z PROVE FALSE
      BY Zenon
    <3>1. m \in 0..(z - 1)
      BY <1>10
    <3> QED
      BY Zenon, <2>1, <3>1
  <2>3. m = n
    <3> SUFFICES ASSUME m # n PROVE FALSE
      BY Zenon
    <3>1. m \in 0..(n - 1)
      BY <1>1, <1>10
    <3> QED
      BY Zenon, <1>3, <2>1, <3>1
  <2>4. ASSUME NEW j \in 1..z PROVE s[j] = c[j - 1]
    <3>1. j - 1 \in 0..(m - 1) /\ j - 1 \in 0..(n - 1) /\ (j - 1) + 1 = j
      BY <2>2, <2>3
    <3> QED
      BY Zenon, <1>3, <1>6, <3>1
  <2> QED
    BY Zenon, <2>2, <2>3, <2>4
<1>14. ASSUME n = z, \A j \in 1..z : s[j] = c[j - 1] PROVE c[m] = t[m]
  <2>1. CASE m = z
    BY Zenon, <1>3, <1>14, <2>1
  <2>2. CASE m # z
    <3>1. m \in 0..(n - 1) /\ m + 1 \in 1..z /\ (m + 1) - 1 = m
      BY <1>1, <1>10, <1>14, <2>2
    <3> QED
      BY Zenon, <1>3, <1>14, <3>1
  <2> QED
    BY Zenon, <2>1, <2>2
<1> QED
  BY Zenon, <1>12, <1>13, <1>14 DEF t, n

(* n elements of a sequence from the one after the m-th on. *)
LEMMA SubSeqFacts ==
  ASSUME NEW S, NEW s \in Seq(S), NEW m \in Nat, NEW n \in Nat, m + n <= Len(s)
  PROVE  /\ SubSeq(s, m + 1, m + n) \in Seq(S) /\ Len(SubSeq(s, m + 1, m + n)) = n
         /\ \A k \in 1..n : SubSeq(s, m + 1, m + n)[k] = s[m + k]
<1>1. SubSeq(s, m + 1, m + n) \in Seq(S)
  OBVIOUS
<1>2. Len(SubSeq(s, m + 1, m + n)) = n
  OBVIOUS
<1>3. \A k \in 1..n : SubSeq(s, m + 1, m + n)[k] = s[m + k]
  OBVIOUS
<1> QED
  BY Zenon, <1>1, <1>2, <1>3

(* The line, as what was typed up to its first 0, is the bytes of the buffer
   before the first terminator. *)
LEMMA LineOfBuffer ==
  ASSUME ShellInv, mode = "run",
         NEW z \in 0..index, EndsAt(cmdline, z)
  PROVE  /\ Line \in Seq(Char) /\ Len(Line) = z
         /\ \A j \in 1..z : Line[j] = cmdline[j - 1]
<1> USE DEF EndsAt
<1>1. /\ index \in Nat /\ index \in 0..(Size - 1) /\ cmdline[index] = 0
      /\ Size \in Nat \ {0} /\ z \in Nat /\ z <= index
  BY ShellAssumption DEF ShellInv
<1>2. PICK q \in Nat :
        /\ Len(typed) = Size * q + index
        /\ \A j \in 0..(index - 1) : cmdline[j] = typed[Size * q + j + 1]
  BY Zenon DEF ShellInv
<1>3. Len(typed) \div Size = q
  <2>1. (Size * q + index) \div Size = q
    <3>1. q \in Int
      OBVIOUS
    <3> QED
      BY Zenon, <1>1, <3>1, DivUnique
  <2> QED
    BY Zenon, <1>2, <2>1
<1> DEFINE b == Size * q
           rest == SubSeq(typed, Size * (Len(typed) \div Size) + 1, Len(typed))
           ends == {k \in 1..Len(rest) : rest[k] = 0}
           e == CHOOSE k \in ends : \A j \in ends : k <= j
<1>4. b \in Nat
  BY <1>1, <1>2
<1>5. rest = SubSeq(typed, b + 1, Len(typed))
  BY Zenon, <1>3
<1>6. Line = IF ends = {} THEN rest ELSE SubSeq(rest, 1, e - 1)
  BY Zenon DEF Line
<1> HIDE DEF b, rest
<1>7. Len(typed) = b + index /\ \A j \in 0..(index - 1) : cmdline[j] = typed[b + j + 1]
  BY Zenon, <1>2 DEF b
<1>8. /\ rest \in Seq(Char) /\ Len(rest) = index
      /\ \A k \in 1..index : rest[k] = cmdline[k - 1]
  <2>1. typed \in Seq(Char) /\ b + index <= Len(typed)
    BY <1>1, <1>4, <1>7 DEF ShellInv
  <2>2. /\ rest \in Seq(Char) /\ Len(rest) = index
        /\ \A k \in 1..index : rest[k] = typed[b + k]
    <3> DEFINE t == SubSeq(typed, b + 1, b + index)
    <3>1. /\ t \in Seq(Char) /\ Len(t) = index
          /\ \A k \in 1..index : t[k] = typed[b + k]
      BY SMT, <1>1, <1>4, <2>1, SubSeqFacts
    <3>2. rest = t
      BY Zenon, <1>5, <1>7
    <3> HIDE DEF t
    <3> QED
      BY Zenon, <3>1, <3>2
  <2>3. ASSUME NEW k \in 1..index PROVE rest[k] = cmdline[k - 1]
    <3>1. k - 1 \in 0..(index - 1) /\ b + k = b + (k - 1) + 1
      BY <1>1, <1>4
    <3>2. cmdline[k - 1] = typed[b + k]
      BY Zenon, <1>7, <3>1
    <3> QED
      BY Zenon, <2>2, <3>2
  <2> QED
    BY Zenon, <2>2, <2>3
<1>9. ends = {k \in 1..index : cmdline[k - 1] = 0}
  BY Zenon, <1>8
<1>10. CASE z = index
  <2>1. ends = {}
    <3> SUFFICES ASSUME NEW k \in 1..index, cmdline[k - 1] = 0 PROVE FALSE
      BY Zenon, <1>9
    <3>1. k - 1 \in 0..(z - 1)
      BY <1>1, <1>10
    <3>2. cmdline[k - 1] \in Nat \ {0}
      BY Zenon, <3>1
    <3> QED
      BY Zenon, <3>2
  <2> QED
    BY Zenon, <1>6, <1>8, <1>10, <2>1
<1>11. CASE z # index
  <2>1. z + 1 \in 1..index /\ (z + 1) - 1 = z
    BY <1>1, <1>11
  <2>2. z + 1 \in ends
    BY Zenon, <1>9, <2>1
  <2>3. ASSUME NEW k \in ends PROVE z + 1 <= k
    <3>1. k \in 1..index /\ cmdline[k - 1] = 0
      BY Zenon, <1>9
    <3>2. k - 1 \notin 0..(z - 1)
      <4> SUFFICES ASSUME k - 1 \in 0..(z - 1) PROVE FALSE
        BY Zenon
      <4>1. cmdline[k - 1] \in Nat \ {0}
        BY Zenon
      <4> QED
        BY Zenon, <3>1, <4>1
    <3> QED
      BY <1>1, <3>1, <3>2
  <2> HIDE DEF ends
  <2>4. e = z + 1
    <3>1. e \in ends /\ \A j \in ends : e <= j
      BY Zenon, <2>2, <2>3
    <3>2. e <= z + 1 /\ z + 1 <= e /\ e \in Int
      <4>1. e \in Int
        BY <1>9, <3>1
      <4> QED
        BY Zenon, <2>2, <2>3, <3>1, <4>1
    <3> HIDE DEF e
    <3> QED
      BY <1>1, <3>2
  <2>5. ends # {}
    BY Zenon, <2>2
  <2> HIDE DEF e
  <2>6. Line = SubSeq(rest, 1, z)
    <3>1. e - 1 = z
      BY <1>1, <2>4
    <3> QED
      BY Zenon, <1>6, <2>5, <3>1
  <2>7. 0 \in Nat /\ 0 + z <= Len(rest) /\ 0 + 1 = 1 /\ 0 + z = z /\ \A k \in 1..z : 0 + k = k
    BY <1>1, <1>8
  <2>8. /\ SubSeq(rest, 0 + 1, 0 + z) \in Seq(Char) /\ Len(SubSeq(rest, 0 + 1, 0 + z)) = z
        /\ \A k \in 1..z : SubSeq(rest, 0 + 1, 0 + z)[k] = rest[0 + k]
    BY SMT, <1>1, <1>8, <2>7, SubSeqFacts
  <2>9. /\ Line \in Seq(Char) /\ Len(Line) = z
        /\ \A k \in 1..z : Line[k] = rest[k]
    <3>1. Line = SubSeq(rest, 0 + 1, 0 + z)
      BY Zenon, <2>6, <2>7
    <3> QED
      BY Zenon, <2>7, <2>8, <3>1
  <2>10. 1..z \subseteq 1..index
    BY <1>1
  <2> QED
    BY Zenon, <1>8, <2>9, <2>10
<1> QED
  BY Zenon, <1>10, <1>11

(* Sequences of the same length with the same elements are equal. *)
LEMMA SameSeq ==
  ASSUME NEW S, NEW s \in Seq(S), NEW t \in Seq(S),
         Len(s) = Len(t), \A j \in 1..Len(s) : s[j] = t[j]
  PROVE  s = t
  OBVIOUS

(* strcmp finds a command in the buffer exactly when it is the line. *)
LEMMA StrcmpLine ==
  ASSUME ShellInv, mode = "run", NEW s \in {Hello, Exit}
  PROVE  strcmp(cmdline, CString(s)) = 0 <=> Line = s
<1>1. PICK z \in 0..index : EndsAt(cmdline, z)
  BY Zenon, FirstTerminator
<1>2. z \in Nat
  BY ShellAssumption DEF ShellInv
<1> DEFINE l == Line
<1>3. l \in Seq(Char) /\ Len(l) = z /\ \A j \in 1..z : l[j] = cmdline[j - 1]
  BY Zenon, <1>1, LineOfBuffer
<1>4. s \in Seq(Char) /\ s \in Seq(Nat \ {0})
  <2>1. s \in Seq(Char \ {0, CR}) /\ Char \subseteq Nat
    BY Zenon, ShellAssumption
  <2>2. Char \ {0, CR} \subseteq Char /\ Char \ {0, CR} \subseteq Nat \ {0}
    BY Zenon, <2>1
  <2> QED
    BY SMT, <2>1, <2>2
<1>5. strcmp(cmdline, CString(s)) = 0 <=>
        Len(s) = z /\ \A j \in 1..z : s[j] = cmdline[j - 1]
  BY Zenon, <1>1, <1>2, <1>4, StrcmpEqual
<1> HIDE DEF l
<1>6. ASSUME Len(s) = z, \A j \in 1..z : s[j] = cmdline[j - 1] PROVE l = s
  <2>1. Len(l) = Len(s) /\ \A j \in 1..Len(l) : l[j] = s[j]
    BY Zenon, <1>3, <1>6
  <2> QED
    BY Zenon, <1>3, <1>4, <2>1, SameSeq
<1>7. ASSUME l = s PROVE Len(s) = z /\ \A j \in 1..z : s[j] = cmdline[j - 1]
  BY Zenon, <1>3, <1>7
<1> QED
  BY Zenon, <1>5, <1>6, <1>7 DEF l

(* What the shell does with a line is what was typed, for any two commands:
   strcmp looks at no byte past the terminator, and a line that was too long
   leaves nothing behind but its own end. *)
THEOREM ShellRunsWhatWasTyped == ShellSpec => RunsWhatWasTyped
<1> DEFINE A == mode = "run" =>
                  ran' = IF Line = Hello THEN "hello"
                         ELSE IF Line = Exit THEN "exit" ELSE "unknown"
<1>1. ShellInv /\ [ShellNext]_shell_vars => [A]_shell_vars
  <2> SUFFICES ASSUME ShellInv, ShellNext, mode = "run" PROVE A
    BY Zenon
  <2>1. RunCommand
    BY Zenon DEF ShellNext, GetChar, TooLong, EndOfLine, Store, Exited
  <2>2. strcmp(cmdline, CString(Hello)) = 0 <=> Line = Hello
    BY Zenon, StrcmpLine
  <2>3. strcmp(cmdline, CString(Exit)) = 0 <=> Line = Exit
    BY Zenon, StrcmpLine
  <2> QED
    BY Zenon, <2>1, <2>2, <2>3 DEF RunCommand
<1> QED
  BY <1>1, ShellInvariance, PTL DEF ShellSpec, RunsWhatWasTyped


-----------------------------------------------------------------------------
(* printf: numbers *)

(* The place values of a hexadecimal numeral. *)
Hx(i) == 2^(4 * i)

(* They are the powers of sixteen. *)
LEMMA HxStep ==
  ASSUME NEW i \in Nat
  PROVE  Hx(i) \in Nat \ {0} /\ Hx(i + 1) = 16 * Hx(i)
<1>1. 2^4 = 16
  <2>1. 2^1 = 2 /\ 2^2 = 4
    <3>1. 2^(0 + 1) = 2 * 2^0 /\ 2^(1 + 1) = 2 * 2^1
      BY Zenon, PowStep
    <3> QED
      BY <3>1, PowZero
  <2>2. 2^(2 + 2) = 2^2 * 2^2
    BY Zenon, PowAdd
  <2> QED
    BY <2>1, <2>2
<1>2. 4 * i \in Nat /\ 4 * (i + 1) = 4 * i + 4
  OBVIOUS
<1>3. 2^(4 * i) \in Nat \ {0}
  BY <1>2, PowGt
<1>4. 2^(4 * i + 4) = 2^(4 * i) * 2^4
  BY Zenon, <1>2, PowAdd
<1>5. 2^(4 * (i + 1)) = 2^(4 * i) * 16
  BY Zenon, <1>1, <1>2, <1>4
<1> QED
  BY <1>3, <1>5 DEF Hx

(* The last place is worth one. *)
LEMMA HxZero == Hx(0) = 1
<1>1. 4 * 0 = 0
  OBVIOUS
<1> QED
  BY Zenon, <1>1, PowZero DEF Hx

(* A larger place has a larger value. *)
LEMMA HxMono ==
  ASSUME NEW i \in Nat, NEW j \in Nat, i <= j
  PROVE  Hx(i) <= Hx(j)
<1>1. 4 * i \in Nat /\ 4 * j \in Nat /\ 4 * i <= 4 * j
  OBVIOUS
<1> QED
  BY Zenon, <1>1, PowMono DEF Hx

(* An int of Bits bits. *)
LEMMA IntFacts ==
  /\ Bits \in Nat /\ 4 <= Bits /\ 2^Bits \in Nat /\ 2^(Bits - 1) \in Nat /\ 8 <= 2^(Bits - 1)
  /\ 2^Bits = 2 * 2^(Bits - 1)
  /\ MinInt \in Int /\ MaxInt \in Int /\ MinInt = -(MaxInt + 1) /\ 7 <= MaxInt
  /\ 2^Bits - 1 \in Nat /\ MaxInt + 1 <= 2^Bits - 1
<1>1. Bits \in Nat /\ 4 <= Bits
  BY PrintfAssumption
<1>2. Bits - 1 \in Nat /\ (Bits - 1) + 1 = Bits /\ 3 <= Bits - 1
  BY <1>1
<1>3. 2^(Bits - 1) \in Nat /\ 2^Bits = 2 * 2^(Bits - 1)
  BY Zenon, <1>2, PowStep
<1>4. 2^3 = 8 /\ 2^3 <= 2^(Bits - 1)
  <2>1. 2^(0 + 1) = 2 * 2^0 /\ 2^(1 + 1) = 2 * 2^1 /\ 2^(2 + 1) = 2 * 2^2
    BY Zenon, PowStep
  <2>2. 3 \in Nat
    BY Zenon
  <2>3. 2^3 <= 2^(Bits - 1)
    BY Zenon, <1>2, <2>2, PowMono
  <2> QED
    BY <2>1, <2>3, PowZero
<1> QED
  BY <1>1, <1>3, <1>4 DEF MinInt, MaxInt

(* The place value of an int's bits. *)
LEMMA BitsNibbles ==
  Bits \div 4 \in Nat /\ Bits = 4 * (Bits \div 4) /\ 1 <= Bits \div 4 /\ 2^Bits = Hx(Bits \div 4)
<1>1. Bits \div 4 \in Nat /\ Bits = 4 * (Bits \div 4) /\ 1 <= Bits \div 4
  BY PrintfAssumption
<1> QED
  BY Zenon, <1>1 DEF Hx

-----------------------------------------------------------------------------
(* printf: numerals *)

(* The characters that printf may print. *)
Sym == {Digits[k] : k \in 1..16} \cup FormatChar \cup {"p", "q", "-", "?"}

(* The last digit of n in base b is a character. *)
LEMMA DigitSym ==
  ASSUME NEW b \in 2..16, NEW n \in Nat
  PROVE  Digits[(n % b) + 1] \in Sym /\ (n < b => Digits[n + 1] \in Sym)
<1>1. (n % b) + 1 \in 1..16 /\ (n < b => n + 1 \in 1..16)
  OBVIOUS
<1> QED
  BY Zenon, <1>1 DEF Sym

(* The equation of Numeral, for numbers up to l. *)
NumeralBody(f, b, n) ==
  IF n < b THEN <<Digits[n + 1]>> ELSE Append(f[n \div b], Digits[(n % b) + 1])

Numerals(f, b, l) == f = [n \in 0..l |-> NumeralBody(f, b, n)]

(* The quotient of a number that has two digits or more is smaller. *)
LEMMA Shorter ==
  ASSUME NEW b \in 2..16, NEW n \in Nat, ~(n < b)
  PROVE  n \div b \in Nat /\ 1 <= n \div b /\ n \div b < n
<1> DEFINE q == n \div b
           r == n % b
<1>1. q \in Nat /\ r \in 0..(b - 1) /\ n = b * q + r
  BY DivNat
<1> HIDE DEF q, r
<1>2. q # 0
  BY <1>1
<1>3. 2 * q <= b * q /\ b * q \in Nat
  BY <1>1
<1>4. 1 <= q /\ q < n
  BY <1>1, <1>2, <1>3
<1> QED
  BY Zenon, <1>1, <1>4 DEF q

(* The equation has a solution. *)
LEMMA NumeralsExist ==
  ASSUME NEW b \in 2..16, NEW l \in Nat
  PROVE  \E f : Numerals(f, b, l)
<1> DEFINE Exists(j) == \E f : Numerals(f, b, j)
           Bad == {j \in Nat : ~Exists(j)}
<1> SUFFICES Bad = {}
  BY Zenon
<1> SUFFICES ASSUME Bad # {} PROVE FALSE
  BY Zenon
<1>1. PICK m \in Bad : \A j \in Bad : m <= j
  BY Zenon, LeastNat
<1>2. m \in Nat
  BY Zenon, <1>1
<1>3. PICK f : m # 0 => Numerals(f, b, m - 1)
  <2>1. CASE m = 0
    BY Zenon, <2>1
  <2>2. CASE m # 0
    <3>1. m - 1 \in Nat /\ ~(m <= m - 1)
      BY <1>2, <2>2
    <3>2. Exists(m - 1)
      BY Zenon, <1>1, <3>1
    <3> QED
      BY Zenon, <3>2
  <2> QED
    BY Zenon, <2>1, <2>2
<1> DEFINE g == [n \in 0..m |-> IF n = m THEN NumeralBody(f, b, m) ELSE f[n]]
<1>4. ASSUME NEW n \in 0..m PROVE g[n] = NumeralBody(f, b, n)
  <2>1. CASE n = m
    BY Zenon, <2>1
  <2>2. CASE n # m
    <3>1. m # 0 /\ n \in 0..(m - 1)
      BY <1>2, <2>2
    <3>2. f[n] = NumeralBody(f, b, n)
      BY Zenon, <1>3, <3>1 DEF Numerals
    <3> QED
      BY Zenon, <2>2, <3>2
  <2> QED
    BY Zenon, <2>1, <2>2
<1>5. ASSUME NEW n \in 0..m PROVE NumeralBody(g, b, n) = NumeralBody(f, b, n)
  <2>1. CASE n < b
    BY Zenon, <2>1 DEF NumeralBody
  <2>2. CASE ~(n < b)
    <3>1. n \div b \in 0..m /\ n \div b # m
      <4>1. n \in Nat
        BY <1>2
      <4>2. n \div b \in Nat /\ n \div b < n
        BY Zenon, <2>2, <4>1, Shorter
      <4> QED
        BY <1>2, <4>1, <4>2
    <3>2. g[n \div b] = f[n \div b]
      BY Zenon, <3>1
    <3> HIDE DEF g
    <3> QED
      BY Zenon, <2>2, <3>2 DEF NumeralBody
  <2> QED
    BY Zenon, <2>1, <2>2
<1>6. g = [n \in 0..m |-> g[n]]
  BY Zenon
<1> HIDE DEF g
<1>7. Numerals(g, b, m)
  <2>1. \A n \in 0..m : g[n] = NumeralBody(g, b, n)
    BY Zenon, <1>4, <1>5
  <2> QED
    BY Zenon, <1>6, <2>1 DEF Numerals
<1> QED
  BY Zenon, <1>1, <1>7

(* Numeral satisfies its equation. *)
LEMMA NumeralStep ==
  ASSUME NEW b \in 2..16, NEW v \in 0..(2^Bits - 1)
  PROVE  /\ v < b => Numeral(v, b) = <<Digits[v + 1]>>
         /\ ~(v < b) => Numeral(v, b) = Append(Numeral(v \div b, b), Digits[(v % b) + 1])
<1> DEFINE L == 2^Bits - 1
           Body(f) == [n \in 0..L |-> IF n < b THEN <<Digits[n + 1]>>
                                       ELSE Append(f[n \div b], Digits[(n % b) + 1])]
           x == CHOOSE f : f = Body(f)
<1>1. \A n \in 0..L : Numeral(n, b) = x[n]
  BY Zenon DEF Numeral
<1>2. PICK f : f = Body(f)
  <2>1. L \in Nat
    BY Zenon, IntFacts
  <2> HIDE DEF L
  <2> QED
    BY Zenon, <2>1, NumeralsExist DEF Numerals, NumeralBody
<1>3. x = Body(x)
  <2> HIDE DEF Body
  <2> QED
    BY Zenon, <1>2
<1> HIDE DEF x
<1>4. x[v] = IF v < b THEN <<Digits[v + 1]>> ELSE Append(x[v \div b], Digits[(v % b) + 1])
  BY Zenon, <1>3
<1>5. ASSUME ~(v < b) PROVE v \div b \in 0..L
  <2>1. v \in Nat /\ L \in Nat /\ v <= L
    BY IntFacts
  <2>2. v \div b \in Nat /\ v \div b < v
    BY Zenon, <1>5, <2>1, Shorter
  <2> QED
    BY <2>1, <2>2
<1> QED
  BY Zenon, <1>1, <1>4, <1>5

(* A numeral is a sequence of characters. *)
LEMMA NumeralSeq ==
  ASSUME NEW b \in 2..16, NEW v \in 0..(2^Bits - 1)
  PROVE  Numeral(v, b) \in Seq(Sym)
<1> DEFINE Bad == {n \in 0..(2^Bits - 1) : Numeral(n, b) \notin Seq(Sym)}
<1> SUFFICES Bad = {}
  BY Zenon
<1> SUFFICES ASSUME Bad # {} PROVE FALSE
  BY Zenon
<1>1. Bad \in SUBSET Nat
  BY IntFacts
<1>2. PICK n \in Bad : \A k \in Bad : n <= k
  BY Zenon, <1>1, LeastNat
<1>3. n \in 0..(2^Bits - 1) /\ n \in Nat
  BY Zenon, <1>1, <1>2
<1>4. CASE n < b
  <2>1. Numeral(n, b) = <<Digits[n + 1]>> /\ Digits[n + 1] \in Sym
    BY Zenon, <1>3, <1>4, NumeralStep, DigitSym
  <2>2. \A e \in Sym : <<e>> \in Seq(Sym)
    OBVIOUS
  <2> QED
    BY Zenon, <1>2, <2>1, <2>2
<1>5. CASE ~(n < b)
  <2> DEFINE q == n \div b
  <2>1. q \in Nat /\ q < n
    BY Zenon, <1>3, <1>5, Shorter
  <2>2. Numeral(n, b) = Append(Numeral(q, b), Digits[(n % b) + 1]) /\ Digits[(n % b) + 1] \in Sym
    BY Zenon, <1>3, <1>5, NumeralStep, DigitSym
  <2> HIDE DEF q
  <2>3. q \in 0..(2^Bits - 1) /\ ~(n <= q)
    BY <1>3, <2>1, IntFacts
  <2>4. Numeral(q, b) \in Seq(Sym)
    BY Zenon, <1>2, <2>3
  <2>5. \A s \in Seq(Sym), e \in Sym : Append(s, e) \in Seq(Sym)
    OBVIOUS
  <2> QED
    BY Zenon, <1>2, <2>2, <2>4, <2>5
<1> QED
  BY Zenon, <1>4, <1>5

-----------------------------------------------------------------------------
(* printf: %x *)

(* A multiple of the divisor adds to the quotient. *)
LEMMA DivShift ==
  ASSUME NEW v \in Int, NEW d \in Nat \ {0}, NEW c \in Int
  PROVE  (v + d * c) \div d = (v \div d) + c
<1> DEFINE q == v \div d
           r == v % d
<1>1. q \in Int /\ r \in 0..(d - 1) /\ v = d * q + r
  BY SMT
<1> HIDE DEF q, r
<1>2. v + d * c = d * (q + c) + r
  BY <1>1, SMT
<1>3. q + c \in Int
  BY <1>1
<1>4. (d * (q + c) + r) \div d = q + c
  BY Zenon, <1>1, <1>3, DivUnique
<1> QED
  BY Zenon, <1>2, <1>4 DEF q

(* The digits of the hexadecimal numeral of w, from the last one on, and how
   many there are. *)
HexForm(w) ==
  LET h == Numeral(w, 16)
  IN  /\ h \in Seq(Sym) /\ Len(h) \in Nat \ {0}
      /\ \A i \in 0..(Len(h) - 1) : h[Len(h) - i] = Digits[((w \div Hx(i)) % 16) + 1]
      /\ w < Hx(Len(h))
      /\ Len(h) = 1 \/ Hx(Len(h) - 1) <= w

(* A numeral of one digit. *)
LEMMA HexOne ==
  ASSUME NEW w \in 0..(2^Bits - 1), w < 16
  PROVE  HexForm(w)
<1> DEFINE h == Numeral(w, 16)
<1>0. 16 \in 2..16 /\ w \in Nat
  BY IntFacts
<1>1. h = <<Digits[w + 1]>> /\ h \in Seq(Sym)
  BY Zenon, <1>0, NumeralStep, NumeralSeq
<1> HIDE DEF h
<1>2. Len(h) = 1 /\ h[1] = Digits[w + 1]
  BY Zenon, <1>1
<1>3. w \div Hx(0) = w /\ w % 16 = w
  BY <1>0, HxZero
<1>4. ASSUME NEW i \in 0..(Len(h) - 1)
      PROVE  h[Len(h) - i] = Digits[((w \div Hx(i)) % 16) + 1]
  <2>1. i = 0 /\ Len(h) - i = 1
    BY <1>2
  <2> QED
    BY Zenon, <1>2, <1>3, <2>1
<1>5. w < Hx(1)
  <2>1. Hx(0 + 1) = 16 * Hx(0) /\ 0 + 1 = 1
    BY HxStep
  <2> QED
    BY <1>0, <2>1, HxZero
<1>6. 1 \in Nat \ {0}
  OBVIOUS
<1> QED
  BY Zenon, <1>1, <1>2, <1>4, <1>5, <1>6 DEF HexForm, h

(* One digit more. *)
LEMMA HexMore ==
  ASSUME NEW w \in 0..(2^Bits - 1), ~(w < 16), HexForm(w \div 16)
  PROVE  HexForm(w)
<1> DEFINE q == w \div 16
           r == w % 16
           g == Numeral(q, 16)
           h == Numeral(w, 16)
           l == Len(g)
<1>0. 16 \in 2..16 /\ w \in Nat
  BY IntFacts
<1>1. q \in Nat /\ r \in 0..15 /\ w = 16 * q + r
  BY <1>0, DivNat
<1>2. h = Append(g, Digits[r + 1]) /\ h \in Seq(Sym) /\ Digits[r + 1] \in Sym
  BY Zenon, <1>0, NumeralStep, NumeralSeq, DigitSym
<1>3. /\ g \in Seq(Sym) /\ l \in Nat \ {0}
      /\ \A i \in 0..(l - 1) : g[l - i] = Digits[((q \div Hx(i)) % 16) + 1]
      /\ q < Hx(l)
      /\ l = 1 \/ Hx(l - 1) <= q
  BY Zenon DEF HexForm
<1>4. \A i \in Nat : q \div Hx(i) = w \div Hx(i + 1)
  <2> SUFFICES ASSUME NEW i \in Nat PROVE q \div Hx(i) = w \div Hx(i + 1)
    BY Zenon
  <2>1. Hx(i) \in Nat \ {0} /\ Hx(i + 1) = 16 * Hx(i)
    BY Zenon, HxStep
  <2>2. 16 \in Nat \ {0}
    OBVIOUS
  <2>3. (w \div 16) \div Hx(i) = w \div (16 * Hx(i))
    BY Zenon, <1>0, <2>1, <2>2, DivDiv
  <2> QED
    BY Zenon, <2>1, <2>3
<1>5. w \div Hx(0) = w
  BY <1>0, HxZero
<1> HIDE DEF q, g, h
<1>6. /\ Len(h) = l + 1 /\ h[l + 1] = Digits[r + 1]
      /\ \A k \in 1..l : h[k] = g[k]
  BY <1>2, <1>3
<1> HIDE DEF l
<1>7. ASSUME NEW i \in 0..l
      PROVE  h[(l + 1) - i] = Digits[((w \div Hx(i)) % 16) + 1]
  <2>1. CASE i = 0
    <3>1. (l + 1) - i = l + 1
      BY <1>3, <2>1
    <3> QED
      BY Zenon, <1>5, <1>6, <2>1, <3>1
  <2>2. CASE i # 0
    <3>1. /\ i - 1 \in 0..(l - 1) /\ i - 1 \in Nat /\ (i - 1) + 1 = i
          /\ (l + 1) - i = l - (i - 1) /\ l - (i - 1) \in 1..l
      BY <1>3, <2>2
    <3> QED
      BY ZenonT(30), <1>3, <1>4, <1>6, <3>1
  <2> QED
    BY Zenon, <2>1, <2>2
<1>8. w < Hx(l + 1) /\ Hx(l) <= w
  <2>1. l \in Nat /\ Hx(l) \in Nat /\ Hx(l + 1) = 16 * Hx(l)
    BY Zenon, <1>3, HxStep
  <2>2. w < Hx(l + 1)
    BY <1>1, <1>3, <2>1
  <2>3. CASE l = 1
    <3>1. Hx(0 + 1) = 16 * Hx(0) /\ 0 + 1 = 1
      BY HxStep
    <3> QED
      BY <1>0, <2>2, <2>3, <3>1, HxZero
  <2>4. CASE l # 1
    <3>1. l - 1 \in Nat /\ (l - 1) + 1 = l
      BY <1>3
    <3>2. Hx(l - 1) \in Nat /\ Hx(l) = 16 * Hx(l - 1)
      BY Zenon, <3>1, HxStep
    <3> QED
      BY <1>1, <1>3, <2>2, <2>4, <3>2
  <2> QED
    BY Zenon, <2>3, <2>4
<1>9. l + 1 \in Nat \ {0} /\ (l + 1) - 1 = l
  BY <1>3
<1> QED
  BY Zenon, <1>2, <1>6, <1>7, <1>8, <1>9 DEF HexForm, h

(* Every hexadecimal numeral has this form. *)
LEMMA HexNumeral ==
  ASSUME NEW w \in 0..(2^Bits - 1)
  PROVE  HexForm(w)
<1> DEFINE Bad == {n \in 0..(2^Bits - 1) : ~HexForm(n)}
<1> SUFFICES Bad = {}
  BY Zenon
<1> SUFFICES ASSUME Bad # {} PROVE FALSE
  BY Zenon
<1>1. Bad \in SUBSET Nat
  BY IntFacts
<1>2. PICK n \in Bad : \A k \in Bad : n <= k
  BY Zenon, <1>1, LeastNat
<1>3. n \in 0..(2^Bits - 1) /\ n \in Nat /\ 16 \in 2..16
  BY <1>1, <1>2
<1>4. ASSUME ~(n < 16) PROVE HexForm(n \div 16)
  <2>1. n \div 16 \in Nat /\ n \div 16 < n
    BY Zenon, <1>3, <1>4, Shorter
  <2>2. n \div 16 \in 0..(2^Bits - 1) /\ ~(n <= n \div 16)
    BY <1>3, <2>1, IntFacts
  <2> QED
    BY Zenon, <1>2, <2>2
<1> QED
  BY Zenon, <1>2, <1>3, <1>4, HexOne, HexMore

(* The nibbles of an int, by an arithmetic shift, are those of its two's
   complement w. *)
LEMMA SameNibble ==
  ASSUME NEW v \in MinInt..MaxInt, NEW i \in 0..(Bits \div 4 - 1)
  PROVE  (v \div Hx(i)) % 16 = ((IF v < 0 THEN v + 2^Bits ELSE v) \div Hx(i)) % 16
<1> DEFINE N == Bits \div 4
<1>1. CASE ~(v < 0)
  BY Zenon, <1>1
<1>2. CASE v < 0
  <2>1. N \in Nat /\ i \in Nat /\ N - i \in Nat /\ N - i - 1 \in Nat /\ (N - i - 1) + 1 = N - i
    BY BitsNibbles
  <2> DEFINE e == Hx(N - i - 1)
             q == v \div Hx(i)
  <2>2. e \in Nat /\ Hx(N - i) = 16 * e
    BY Zenon, <2>1, HxStep
  <2>3. 2^Bits = Hx(i) * (16 * e)
    <3>1. 4 * i \in Nat /\ 4 * (N - i) \in Nat /\ 4 * i + 4 * (N - i) = 4 * N
      BY <2>1
    <3>2. 2^(4 * i + 4 * (N - i)) = 2^(4 * i) * 2^(4 * (N - i))
      BY Zenon, <3>1, PowAdd
    <3> QED
      BY Zenon, <2>2, <3>1, <3>2, BitsNibbles DEF Hx
  <2> HIDE DEF e
  <2>4. v \in Int /\ Hx(i) \in Nat \ {0} /\ 16 * e \in Int /\ q \in Int
    <3>1. v \in Int
      BY IntFacts
    <3>2. Hx(i) \in Nat \ {0}
      BY Zenon, <2>1, HxStep
    <3> QED
      BY <2>2, <3>1, <3>2
  <2>5. (v + Hx(i) * (16 * e)) \div Hx(i) = q + 16 * e
    BY Zenon, <2>4, DivShift
  <2> HIDE DEF q
  <2>6. (q + 16 * e) % 16 = q % 16
    BY <2>2, <2>4
  <2> QED
    BY Zenon, <1>2, <2>3, <2>5, <2>6 DEF q
<1> QED
  BY Zenon, <1>1, <1>2

(* The loop of %x prints the hexadecimal numeral with its leading zeros. *)
LEMMA NibblesAre ==
  ASSUME NEW v \in MinInt..MaxInt
  PROVE  Nibbles(v) = HexText(v) /\ Nibbles(v) \in Seq(Sym)
<1> DEFINE N == Bits \div 4
           w == IF v < 0 THEN v + 2^Bits ELSE v
           h == Numeral(w, 16)
           l == Len(h)
           zeros == [k \in 1..(N - l) |-> "0"]
           Nibble(i) == Digits[((w \div Hx(i)) % 16) + 1]
<1>0. N \in Nat /\ 1 <= N /\ Bits = 4 * N /\ 2^Bits = Hx(N)
  BY Zenon, BitsNibbles
<1>1. w \in 0..(2^Bits - 1) /\ w \in Nat
  BY IntFacts
<1>2. /\ h \in Seq(Sym) /\ l \in Nat \ {0}
      /\ \A i \in 0..(l - 1) : h[l - i] = Nibble(i)
      /\ w < Hx(l)
      /\ l = 1 \/ Hx(l - 1) <= w
  <2> HIDE DEF w
  <2> QED
    BY Zenon, <1>1, HexNumeral DEF HexForm
<1>3. \A k \in 1..N : Nibbles(v)[k] = Nibble(N - k)
  <2> SUFFICES ASSUME NEW k \in 1..N PROVE Nibbles(v)[k] = Nibble(N - k)
    BY Zenon
  <2>1. Bits - 4 * k = 4 * (N - k) /\ N - k \in 0..(N - 1)
    BY <1>0
  <2>2. Nibbles(v)[k] = Digits[((v \div 2^(Bits - 4 * k)) % 16) + 1]
    BY Zenon DEF Nibbles
  <2>3. (v \div Hx(N - k)) % 16 = (w \div Hx(N - k)) % 16
    BY Zenon, <2>1, SameNibble
  <2> QED
    BY Zenon, <2>1, <2>2, <2>3 DEF Hx
<1>4. HexText(v) = zeros \o h
  BY Zenon DEF HexText
<1> HIDE DEF w, h, N
<1>5. l <= N
  <2>1. CASE l = 1
    BY Zenon, <1>0, <2>1
  <2>2. CASE l # 1
    <3>1. l - 1 \in Nat /\ Hx(l - 1) <= w /\ w < Hx(N) /\ Hx(l - 1) \in Nat /\ Hx(N) \in Nat
      <4>1. l - 1 \in Nat
        BY <1>2
      <4>2. Hx(l - 1) \in Nat /\ Hx(N) \in Nat
        BY Zenon, <1>0, <4>1, HxStep
      <4>3. w < Hx(N)
        BY <1>0, <1>1, <4>2
      <4> QED
        BY Zenon, <1>2, <2>2, <4>1, <4>2, <4>3
    <3>2. ~(N <= l - 1)
      <4> SUFFICES ASSUME N <= l - 1 PROVE FALSE
        BY Zenon
      <4>1. Hx(N) <= Hx(l - 1)
        BY Zenon, <1>0, <3>1, HxMono
      <4> QED
        BY <1>1, <3>1, <4>1
    <3> QED
      BY <1>0, <1>2, <3>2
  <2> QED
    BY Zenon, <2>1, <2>2
<1> HIDE DEF l
<1>6. N - l \in Nat /\ (N - l) + l = N
  BY <1>0, <1>2, <1>5
<1>7. /\ zeros \in Seq(Sym) /\ Len(zeros) = N - l
      /\ \A k \in 1..(N - l) : zeros[k] = "0"
  <2>1. "0" \in Sym
    <3>1. Digits[1] = "0" /\ 1 \in 1..16
      BY DEF Digits
    <3> QED
      BY Zenon, <3>1 DEF Sym
  <2> QED
    BY <1>6, <2>1
<1> HIDE DEF zeros
<1> DEFINE t == zeros \o h
<1>8. t \in Seq(Sym) /\ Len(t) = N
  <2>1. Len(h) = l
    BY Zenon DEF l
  <2>2. \A s, g \in Seq(Sym) : s \o g \in Seq(Sym) /\ Len(s \o g) = Len(s) + Len(g)
    OBVIOUS
  <2>3. t \in Seq(Sym) /\ Len(t) = (N - l) + l
    BY Zenon, <1>2, <1>7, <2>1, <2>2
  <2> QED
    BY Zenon, <1>6, <2>3
<1>9. ASSUME NEW k \in 1..N PROVE t[k] = Nibble(N - k)
  <2>1. CASE k <= N - l
    <3>1. k \in 1..(N - l) /\ k \in 1..Len(zeros)
      BY <1>6, <1>7, <2>1
    <3>2. t[k] = zeros[k]
      BY <1>2, <1>7, <3>1
    <3>3. (w \div Hx(N - k)) % 16 = 0
      <4>1. N - k \in Nat /\ l <= N - k /\ l \in Nat
        BY <1>0, <1>2, <2>1
      <4>2. Hx(l) <= Hx(N - k) /\ Hx(l) \in Nat /\ Hx(N - k) \in Nat \ {0}
        BY Zenon, <4>1, HxMono, HxStep
      <4>3. w \div Hx(N - k) = 0
        <5>1. w \in 0..(Hx(N - k) - 1) /\ 0 \in Int
          BY <1>1, <1>2, <4>2
        <5>2. (Hx(N - k) * 0 + w) \div Hx(N - k) = 0
          BY Zenon, <4>2, <5>1, DivUnique
        <5> QED
          BY <1>1, <4>2, <5>2
      <4> QED
        BY <4>3
    <3>4. Digits[0 + 1] = "0"
      BY DEF Digits
    <3> QED
      BY Zenon, <1>7, <3>1, <3>2, <3>3, <3>4
  <2>2. CASE ~(k <= N - l)
    <3>1. k - (N - l) \in 1..l /\ N - k \in 0..(l - 1) /\ k - (N - l) = l - (N - k)
      BY <1>0, <1>2, <1>6, <2>2
    <3>2. t[k] = h[k - (N - l)]
      <4>1. Len(h) = l
        BY Zenon DEF l
      <4>2. \A s, g \in Seq(Sym) : \A j \in 1..Len(g) : (s \o g)[Len(s) + j] = g[j]
        OBVIOUS
      <4>3. zeros \in Seq(Sym) /\ h \in Seq(Sym) /\ k - (N - l) \in 1..Len(h)
        BY Zenon, <1>2, <1>7, <3>1, <4>1
      <4>4. (zeros \o h)[Len(zeros) + (k - (N - l))] = h[k - (N - l)]
        BY Zenon, <4>2, <4>3
      <4>5. Len(zeros) + (k - (N - l)) = k
        BY <1>6, <1>7
      <4> QED
        BY Zenon, <4>4, <4>5
    <3> QED
      BY Zenon, <1>2, <3>1, <3>2
  <2> QED
    BY Zenon, <2>1, <2>2
<1> HIDE DEF t
<1>10. Nibbles(v) = [k \in 1..N |-> Nibbles(v)[k]]
  BY Zenon DEF Nibbles, N
<1>11. t = [k \in 1..N |-> t[k]]
  BY <1>0, <1>8
<1>12. Nibbles(v) = t
  <2>1. \A k \in 1..N : Nibbles(v)[k] = t[k]
    BY Zenon, <1>3, <1>9
  <2> QED
    BY Zenon, <1>10, <1>11, <2>1
<1> QED
  BY Zenon, <1>4, <1>8, <1>12 DEF t

-----------------------------------------------------------------------------
(* printf: %d *)

(* The powers of ten: the numbers in every set that holds 1 and is closed under
   multiplication by ten. *)
Tens == {d \in Nat : \A S \in SUBSET Nat : 1 \in S /\ (\A x \in S : 10 * x \in S) => d \in S}

(* Every power of ten but 1 is ten times another one. *)
LEMMA TensStep ==
  /\ 1 \in Tens
  /\ \A d \in Tens : d \in Nat \ {0} /\ 10 * d \in Tens
  /\ \A d \in Tens : d # 1 => d \div 10 \in Tens /\ d = 10 * (d \div 10)
<1> DEFINE S == {x \in Nat : x # 0 /\ x \in Tens /\ (x = 1 \/ \E y \in Tens : x = 10 * y)}
<1>0. 1 \in Nat /\ 1 # 0 /\ \A x \in Nat : 10 * x \in Nat /\ (x # 0 => 10 * x # 0)
  OBVIOUS
<1>1. 1 \in Tens
  BY Zenon, <1>0 DEF Tens
<1>2. \A d \in Tens : d \in Nat /\ 10 * d \in Tens
  BY Zenon, <1>0 DEF Tens
<1>3. 1 \in S /\ \A x \in S : 10 * x \in S
  <2>1. 1 \in S
    BY Zenon, <1>0, <1>1
  <2>2. ASSUME NEW x \in S PROVE 10 * x \in S
    BY Zenon, <1>0, <1>2, <2>2
  <2> QED
    BY Zenon, <2>1, <2>2
<1>4. ASSUME NEW d \in Tens PROVE d \in S
  <2>1. S \in SUBSET Nat
    BY Zenon
  <2> HIDE DEF S
  <2> QED
    BY Zenon, <1>3, <2>1 DEF Tens
<1>5. \A y \in Nat : (10 * y) \div 10 = y
  OBVIOUS
<1>6. ASSUME NEW d \in Tens PROVE d \in Nat \ {0} /\ (d # 1 => \E y \in Tens : d = 10 * y)
  BY Zenon, <1>4, <1>2
<1> QED
  BY Zenon, <1>1, <1>2, <1>5, <1>6

(* The digits of q, none when it is 0. *)
Pre(q) == IF q = 0 THEN <<>> ELSE Numeral(q, 10)

(* They are a sequence of characters. *)
LEMMA PreSeq ==
  ASSUME NEW q \in 0..(2^Bits - 1)
  PROVE  Pre(q) \in Seq(Sym)
<1>1. 10 \in 2..16 /\ <<>> \in Seq(Sym)
  OBVIOUS
<1> QED
  BY Zenon, <1>1, NumeralSeq DEF Pre

(* The digits of q are those of its tenth and one more. *)
LEMMA PreStep ==
  ASSUME NEW q \in 0..(2^Bits - 1), q # 0
  PROVE  Pre(q) = Append(Pre(q \div 10), Digits[(q % 10) + 1])
<1>0. 10 \in 2..16 /\ q \in Nat
  BY IntFacts
<1>1. CASE q < 10
  <2>1. q \div 10 = 0 /\ q % 10 = q
    BY <1>0, <1>1
  <2>2. Append(<<>>, Digits[q + 1]) = <<Digits[q + 1]>>
    OBVIOUS
  <2> QED
    BY Zenon, <1>0, <1>1, <2>1, <2>2, NumeralStep DEF Pre
<1>2. CASE ~(q < 10)
  <2>1. q \div 10 # 0
    <3>1. q \div 10 \in Nat /\ 1 <= q \div 10
      BY Zenon, <1>0, <1>2, Shorter
    <3> QED
      BY <3>1
  <2> QED
    BY Zenon, <1>0, <1>2, <2>1, NumeralStep DEF Pre
<1> QED
  BY Zenon, <1>1, <1>2

(* The quotient and the remainder by ten times d. *)
LEMMA TenTimes ==
  ASSUME NEW u \in Nat, NEW d \in Nat \ {0}
  PROVE  /\ u \div (10 * d) = (u \div d) \div 10
         /\ (u % (10 * d)) \div d = (u \div d) % 10
         /\ (u % (10 * d)) - d * ((u \div d) % 10) = u % d
<1> DEFINE q == u \div d
           r == u % d
           p == q \div 10
           s == q % 10
<1>1. q \in Nat /\ r \in 0..(d - 1) /\ u = d * q + r
  BY Zenon, DivNat
<1>2. p \in Nat /\ s \in 0..9 /\ q = 10 * p + s
  BY <1>1
<1> HIDE DEF q, r, p, s
<1>3. d * s \in Nat /\ d * s \in Int /\ d * s <= 9 * d
  BY <1>2
<1>4. d * s + r \in 0..(10 * d - 1) /\ 10 * d \in Nat \ {0} /\ p \in Int /\ s \in Int
  BY <1>1, <1>2, <1>3
<1>5. u = (10 * d) * p + (d * s + r)
  <2>1. d * q = d * (10 * p) + d * s
    BY <1>2, SMT
  <2>2. d * (10 * p) = (10 * d) * p
    BY <1>2, SMT
  <2>3. (10 * d) * p \in Int
    BY <1>2, SMT
  <2> DEFINE a == d * q
             b == (10 * d) * p
             c == d * s
  <2>4. u = a + r /\ a = b + c /\ b \in Int /\ c \in Int
    BY Zenon, <1>1, <1>3, <1>4, <2>1, <2>2, <2>3
  <2> HIDE DEF a, b, c
  <2>5. u = b + (c + r)
    BY <1>1, <2>4
  <2> QED
    BY Zenon, <2>5 DEF b, c
<1>6. u \div (10 * d) = p /\ u % (10 * d) = d * s + r
  BY Zenon, <1>4, <1>5, DivUnique
<1>7. (d * s + r) \div d = s
  BY Zenon, <1>1, <1>4, DivUnique
<1>8. (d * s + r) - d * s = r
  BY <1>1, <1>3
<1> QED
  BY Zenon, <1>6, <1>7, <1>8 DEF p, q, r, s

(* One turn of the loop that prints the digits. *)
LEMMA DigitTurn ==
  ASSUME NEW u \in 0..MaxInt, NEW d \in Tens, d = 1 \/ d <= u
  PROVE  LET v == u % (10 * d)
         IN  /\ v \in Nat /\ v \div d \in 0..9
             /\ v - d * (v \div d) = u % d
             /\ Append(Pre(u \div (10 * d)), Digits[(v \div d) + 1])
                  = IF d = 1 THEN Numeral(u, 10) ELSE Pre(u \div d)
<1> DEFINE v == u % (10 * d)
           q == u \div d
<1>0. d \in Nat \ {0} /\ u \in Nat /\ u \in 0..(2^Bits - 1)
  <2>1. d \in Nat \ {0}
    BY Zenon, TensStep
  <2> QED
    BY <2>1, IntFacts
<1>1. /\ u \div (10 * d) = q \div 10 /\ v \div d = q % 10 /\ v - d * (q % 10) = u % d
  BY Zenon, <1>0, TenTimes
<1>2. v \in Nat
  <2>1. 10 * d \in Nat \ {0}
    BY <1>0
  <2> QED
    BY <1>0, <2>1, DivNat
<1>3. q \in Nat /\ q \in 0..u /\ (d = 1 => q = u) /\ (d # 1 => q # 0)
  <2>1. q \in Nat /\ u % d \in 0..(d - 1) /\ u = d * q + (u % d)
    BY Zenon, <1>0, DivNat
  <2> HIDE DEF q
  <2>2. q <= d * q /\ d * q \in Nat
    BY <1>0, <2>1
  <2>3. q \in 0..u /\ (d = 1 => q = u)
    BY <1>0, <2>1, <2>2
  <2>4. ASSUME q = 0 PROVE d = 1
    BY <1>0, <2>1, <2>4
  <2> QED
    BY Zenon, <2>1, <2>3, <2>4
<1>4. q % 10 \in 0..9 /\ q \in 0..(2^Bits - 1)
  <2> HIDE DEF q
  <2>1. q % 10 \in 0..9
    BY <1>3
  <2>2. q \in 0..(2^Bits - 1)
    BY <1>0, <1>3, IntFacts
  <2> QED
    BY Zenon, <2>1, <2>2
<1>5. CASE q # 0
  <2>1. Append(Pre(q \div 10), Digits[(q % 10) + 1]) = Pre(q)
    BY Zenon, <1>4, <1>5, PreStep
  <2>2. d = 1 => Pre(q) = Numeral(u, 10)
    BY Zenon, <1>3, <1>5 DEF Pre
  <2> HIDE DEF v
  <2>3. /\ v \in Nat /\ v \div d \in 0..9
        /\ v - d * (v \div d) = u % d
        /\ Append(Pre(u \div (10 * d)), Digits[(v \div d) + 1])
             = IF d = 1 THEN Numeral(u, 10) ELSE Pre(q)
    BY Zenon, <1>1, <1>2, <1>4, <2>1, <2>2
  <2> QED
    BY Zenon, <2>3 DEF v
<1>6. CASE q = 0
  <2>1. d = 1 /\ u = 0
    BY Zenon, <1>3, <1>6
  <2>2. 0 \div 10 = 0 /\ 0 % 10 = 0 /\ 10 \in 2..16 /\ 0 < 10
    OBVIOUS
  <2>3. Numeral(u, 10) = <<Digits[0 + 1]>>
    BY Zenon, <1>0, <2>1, <2>2, NumeralStep
  <2>4. Append(<<>>, Digits[0 + 1]) = <<Digits[0 + 1]>> /\ Pre(0) = <<>>
    BY DEF Pre
  <2>5. Append(Pre(q \div 10), Digits[(q % 10) + 1]) = Numeral(u, 10)
    BY Zenon, <1>6, <2>2, <2>3, <2>4
  <2> HIDE DEF v
  <2>6. /\ v \in Nat /\ v \div d \in 0..9
        /\ v - d * (v \div d) = u % d
        /\ Append(Pre(u \div (10 * d)), Digits[(v \div d) + 1]) = Numeral(u, 10)
    BY Zenon, <1>1, <1>2, <1>4, <2>5
  <2> QED
    BY Zenon, <2>1, <2>6 DEF v
<1> QED
  BY Zenon, <1>5, <1>6

-----------------------------------------------------------------------------
(* printf: what a format stands for *)

(* The equation of Meaning. *)
Says(f, a, x, m, j) ==
  LET c == f[Len(f) - m + 1]
      d == f[Len(f) - m + 2]
  IN  IF m = 0 THEN <<>>
      ELSE IF c # "%" THEN <<c>> \o x[m - 1][j]
      ELSE IF m = 1 THEN <<"%">>
      ELSE Converted(d, a[j]) \o x[m - 2][j + Takes(d)]

Meanings(f, a, x, l) == x = [m \in 0..l |-> [j \in Nat |-> Says(f, a, x, m, j)]]

(* The equation has a solution. *)
LEMMA MeaningsExist ==
  ASSUME NEW f, NEW a, NEW l \in Nat
  PROVE  \E x : Meanings(f, a, x, l)
<1> DEFINE Exists(k) == \E x : Meanings(f, a, x, k)
           Bad == {k \in Nat : ~Exists(k)}
<1> SUFFICES Bad = {}
  BY Zenon
<1> SUFFICES ASSUME Bad # {} PROVE FALSE
  BY Zenon
<1>1. PICK n \in Bad : \A k \in Bad : n <= k
  BY Zenon, LeastNat
<1>2. n \in Nat
  BY Zenon, <1>1
<1>3. PICK x : n # 0 => Meanings(f, a, x, n - 1)
  <2>1. CASE n = 0
    BY Zenon, <2>1
  <2>2. CASE n # 0
    <3>1. n - 1 \in Nat /\ ~(n <= n - 1)
      BY <1>2, <2>2
    <3>2. Exists(n - 1)
      BY Zenon, <1>1, <3>1
    <3> QED
      BY Zenon, <3>2
  <2> QED
    BY Zenon, <2>1, <2>2
<1> DEFINE Row(y, m) == [j \in Nat |-> Says(f, a, y, m, j)]
           g == [m \in 0..n |-> IF m = n THEN Row(x, n) ELSE x[m]]
<1>4. ASSUME NEW m \in 0..n PROVE g[m] = Row(x, m)
  <2>1. CASE m = n
    BY Zenon, <2>1
  <2>2. CASE m # n
    <3>1. n # 0 /\ m \in 0..(n - 1)
      BY <1>2, <2>2
    <3>2. x[m] = Row(x, m)
      BY Zenon, <1>3, <3>1 DEF Meanings
    <3> HIDE DEF Row
    <3> QED
      BY Zenon, <2>2, <3>2
  <2> QED
    BY Zenon, <2>1, <2>2
<1>5. ASSUME NEW m \in 0..n PROVE Row(g, m) = Row(x, m)
  <2>1. m # 0 => g[m - 1] = x[m - 1]
    <3>1. m # 0 => m - 1 \in 0..n /\ m - 1 # n
      BY <1>2
    <3> HIDE DEF Row
    <3> QED
      BY Zenon, <3>1
  <2>2. m # 0 /\ m # 1 => g[m - 2] = x[m - 2]
    <3>1. m # 0 /\ m # 1 => m - 2 \in 0..n /\ m - 2 # n
      BY <1>2
    <3> HIDE DEF Row
    <3> QED
      BY Zenon, <3>1
  <2> HIDE DEF g
  <2>3. ASSUME NEW j \in Nat PROVE Says(f, a, g, m, j) = Says(f, a, x, m, j)
    <3>1. CASE m = 0
      BY Zenon, <3>1 DEF Says
    <3>2. CASE m = 1
      BY Zenon, <2>1, <3>2 DEF Says
    <3>3. CASE m # 0 /\ m # 1
      BY Zenon, <2>1, <2>2, <3>3 DEF Says
    <3> QED
      BY Zenon, <3>1, <3>2, <3>3
  <2> QED
    BY Zenon, <2>3
<1>6. g = [m \in 0..n |-> g[m]]
  BY Zenon
<1> HIDE DEF g
<1>7. Meanings(f, a, g, n)
  <2>1. \A m \in 0..n : g[m] = Row(g, m)
    BY Zenon, <1>4, <1>5
  <2> QED
    BY Zenon, <1>6, <2>1 DEF Meanings
<1> QED
  BY Zenon, <1>1, <1>7

(* Meaning satisfies its equation. *)
LEMMA MeaningIs ==
  ASSUME NEW f, NEW a, Len(f) \in Nat, NEW m \in 0..Len(f), NEW j \in Nat
  PROVE  Meaning(f, a)[m][j] = Says(f, a, Meaning(f, a), m, j)
<1> DEFINE x == Meaning(f, a)
<1>1. x = CHOOSE y : Meanings(f, a, y, Len(f))
  BY Zenon DEF Meaning, Meanings, Says
<1>2. \E y : Meanings(f, a, y, Len(f))
  BY Zenon, MeaningsExist
<1> HIDE DEF x
<1>3. Meanings(f, a, x, Len(f))
  BY Zenon, <1>1, <1>2
<1>4. x[m][j] = Says(f, a, x, m, j)
  <2> DEFINE g == [k \in 0..Len(f) |-> [i \in Nat |-> Says(f, a, x, k, i)]]
  <2>1. x = g
    BY Zenon, <1>3 DEF Meanings
  <2>2. g[m][j] = Says(f, a, x, m, j)
    BY Zenon
  <2> HIDE DEF g
  <2>3. x[m] = g[m]
    BY Zenon, <2>1
  <2> QED
    BY Zenon, <2>2, <2>3
<1> QED
  BY Zenon, <1>4 DEF x

(* The concatenation of sequences of characters is one. *)
LEMMA JoinSeq == \A s, t \in Seq(Sym) : s \o t \in Seq(Sym)
  OBVIOUS

(* It is associative. *)
LEMMA JoinAssoc == \A s, t, r \in Seq(Sym) : (s \o t) \o r = s \o (t \o r)
  OBVIOUS

(* The empty sequence adds nothing. *)
LEMMA JoinNil == <<>> \in Seq(Sym) /\ \A s \in Seq(Sym) : <<>> \o s = s /\ s \o <<>> = s
  OBVIOUS

(* One character. *)
LEMMA OneSeq == \A e \in Sym : <<e>> \in Seq(Sym)
  OBVIOUS

(* One character more. *)
LEMMA AddSeq ==
  \A s \in Seq(Sym), e \in Sym : Append(s, e) \in Seq(Sym) /\ Append(s, e) = s \o <<e>>
  OBVIOUS

(* One character more before the rest. *)
LEMMA AddJoin == \A s, t \in Seq(Sym), e \in Sym : Append(s, e) \o t = s \o (<<e>> \o t)
  OBVIOUS

(* One character more at the end. *)
LEMMA JoinAdd == \A s, t \in Seq(Sym), e \in Sym : Append(s \o t, e) = s \o Append(t, e)
  OBVIOUS

(* What is printed consists of characters. *)
LEMMA SymHas ==
  /\ FormatChar \subseteq Sym /\ "-" \in Sym /\ "?" \in Sym /\ "%" \in Sym
  /\ \A k \in 0..9 : Digits[k + 1] \in Sym
  /\ Text \in Seq(Sym)
<1>1. FormatChar \subseteq Sym /\ "-" \in Sym /\ "?" \in Sym /\ "%" \in Sym /\ "p" \in Sym /\ "q" \in Sym
  BY Zenon DEF Sym, FormatChar
<1>2. \A k \in 0..9 : k + 1 \in 1..16
  OBVIOUS
<1>3. \A k \in 0..9 : Digits[k + 1] \in Sym
  BY Zenon, <1>2 DEF Sym
<1>4. Text \in Seq(Sym)
  BY <1>1 DEF Text
<1> QED
  BY Zenon, <1>1, <1>3, <1>4

(* What a conversion stands for is a sequence of characters. *)
LEMMA ConvertedSeq ==
  ASSUME NEW c \in FormatChar, NEW v \in MinInt..MaxInt
  PROVE  Converted(c, v) \in Seq(Sym)
<1>1. /\ Converted("%", v) = <<"%">> /\ Converted("s", v) = Text
      /\ Converted("x", v) = HexText(v) /\ Converted("d", v) = DecimalText(v)
      /\ Converted("a", v) = <<>>
  BY Zenon DEF Converted
<1>2. HexText(v) \in Seq(Sym)
  BY Zenon, NibblesAre
<1>3. DecimalText(v) \in Seq(Sym)
  <2>1. 10 \in 2..16 /\ (v < 0 => -v \in 0..(2^Bits - 1)) /\ (~(v < 0) => v \in 0..(2^Bits - 1))
    BY IntFacts
  <2>2. v < 0 => Numeral(-v, 10) \in Seq(Sym)
    BY Zenon, <2>1, NumeralSeq
  <2>3. ~(v < 0) => Numeral(v, 10) \in Seq(Sym)
    BY Zenon, <2>1, NumeralSeq
  <2> QED
    <3>1. v < 0 => <<"-">> \o Numeral(-v, 10) \in Seq(Sym)
      BY Zenon, <2>2, JoinSeq, OneSeq, SymHas
    <3> QED
      BY Zenon, <2>3, <3>1 DEF DecimalText
<1>4. <<"%">> \in Seq(Sym) /\ <<>> \in Seq(Sym) /\ Text \in Seq(Sym)
  BY Zenon, JoinNil, OneSeq, SymHas
<1> QED
  BY Zenon, <1>1, <1>2, <1>3, <1>4 DEF FormatChar

(* A call as printf requires it: an argument for every conversion. *)
Ints == MinInt..MaxInt

Suits(f, a) ==
  /\ f \in Seq(FormatChar) /\ a \in Seq(Ints)
  /\ Len(f) <= 2 * Len(a) + 1

(* What the rest of a format stands for is a sequence of characters. *)
LEMMA MeaningSeq ==
  ASSUME NEW f, NEW a, Suits(f, a), NEW m \in 0..Len(f), NEW j \in Nat \ {0},
         2 * (j - 1) + m <= Len(f)
  PROVE  Meaning(f, a)[m][j] \in Seq(Sym)
<1> DEFINE Fine(k) == \A i \in Nat \ {0} :
                        2 * (i - 1) + k <= Len(f) => Meaning(f, a)[k][i] \in Seq(Sym)
           Bad == {k \in 0..Len(f) : ~Fine(k)}
<1>0. Len(f) \in Nat /\ Len(a) \in Nat
  BY DEF Suits
<1> SUFFICES Bad = {}
  BY Zenon
<1> SUFFICES ASSUME Bad # {} PROVE FALSE
  BY Zenon
<1>1. Bad \in SUBSET Nat
  BY <1>0
<1>2. PICK k \in Bad : \A n \in Bad : k <= n
  BY Zenon, <1>1, LeastNat
<1>3. k \in 0..Len(f) /\ k \in Nat
  BY Zenon, <1>1, <1>2
<1>4. PICK i \in Nat \ {0} : 2 * (i - 1) + k <= Len(f) /\ Meaning(f, a)[k][i] \notin Seq(Sym)
  BY Zenon, <1>2
<1>5. ASSUME NEW n \in 0..Len(f), n < k PROVE Fine(n)
  <2>1. ~(k <= n)
    BY <1>0, <1>3, <1>5
  <2> QED
    BY Zenon, <1>2, <2>1
<1> HIDE DEF Bad
<1> DEFINE x == Meaning(f, a)
           c == f[Len(f) - k + 1]
           d == f[Len(f) - k + 2]
<1>6. x[k][i] = IF k = 0 THEN <<>>
                ELSE IF c # "%" THEN <<c>> \o x[k - 1][i]
                ELSE IF k = 1 THEN <<"%">>
                ELSE Converted(d, a[i]) \o x[k - 2][i + Takes(d)]
  <2>1. i \in Nat
    BY Zenon
  <2>2. x[k][i] = Says(f, a, x, k, i)
    BY Zenon, <1>0, <1>3, <2>1, MeaningIs
  <2> HIDE DEF x
  <2> QED
    BY Zenon, <2>2 DEF Says
<1>7. CASE k = 0
  BY Zenon, <1>4, <1>6, <1>7, JoinNil
<1>8. CASE k # 0 /\ c # "%"
  <2>1. c \in FormatChar
    <3>1. Len(f) - k + 1 \in 1..Len(f)
      BY <1>0, <1>3, <1>8
    <3> QED
      BY <3>1 DEF Suits
  <2>2. k - 1 \in 0..Len(f) /\ k - 1 < k /\ 2 * (i - 1) + (k - 1) <= Len(f)
    BY <1>0, <1>3, <1>4, <1>8
  <2>3. x[k - 1][i] \in Seq(Sym)
    BY Zenon, <1>5, <2>2
  <2>4. <<c>> \in Seq(Sym)
    BY Zenon, <2>1, OneSeq, SymHas
  <2> HIDE DEF x, c
  <2>5. x[k][i] \in Seq(Sym)
    BY Zenon, <1>6, <1>8, <2>3, <2>4, JoinSeq
  <2> QED
    BY Zenon, <1>4, <2>5 DEF x
<1>9. CASE k = 1 /\ c = "%"
  <2>1. 1 # 0
    OBVIOUS
  <2> QED
    BY Zenon, <1>4, <1>6, <1>9, <2>1, OneSeq, SymHas
<1>10. CASE k # 0 /\ k # 1 /\ c = "%"
  <2>1. d \in FormatChar
    <3>1. Len(f) - k + 2 \in 1..Len(f)
      BY <1>0, <1>3, <1>10
    <3> QED
      BY <3>1 DEF Suits
  <2>2. a[i] \in MinInt..MaxInt
    <3>1. i \in 1..Len(a)
      BY <1>0, <1>3, <1>4, <1>10 DEF Suits
    <3>2. a[i] \in Ints
      BY <3>1 DEF Suits
    <3> QED
      BY Zenon, <3>2 DEF Ints
  <2>3. i + Takes(d) \in Nat \ {0}
    BY DEF Takes
  <2>4. k - 2 \in 0..Len(f) /\ k - 2 < k /\ 2 * ((i + Takes(d)) - 1) + (k - 2) <= Len(f)
    <3> HIDE DEF d
    <3>1. Takes(d) \in {0, 1}
      BY Zenon DEF Takes
    <3> QED
      BY <1>0, <1>3, <1>4, <1>10, <3>1
  <2>5. x[k - 2][i + Takes(d)] \in Seq(Sym)
    <3> DEFINE e == i + Takes(d)
    <3>1. Fine(k - 2)
      BY Zenon, <1>5, <2>4
    <3>2. e \in Nat \ {0} /\ 2 * (e - 1) + (k - 2) <= Len(f)
      BY Zenon, <2>3, <2>4
    <3> HIDE DEF e, d
    <3>3. Meaning(f, a)[k - 2][e] \in Seq(Sym)
      BY Zenon, <3>1, <3>2
    <3> QED
      BY Zenon, <3>3 DEF e
  <2>6. Converted(d, a[i]) \in Seq(Sym)
    BY Zenon, <2>1, <2>2, ConvertedSeq
  <2> HIDE DEF x, c, d
  <2>7. x[k][i] \in Seq(Sym)
    BY Zenon, <1>6, <1>10, <2>5, <2>6, JoinSeq
  <2> QED
    BY Zenon, <1>4, <2>7 DEF x
<1> QED
  BY Zenon, <1>7, <1>8, <1>9, <1>10

-----------------------------------------------------------------------------
(* printf: the invariant *)

(* No argument is the least int. *)
NoMin == \A k \in DOMAIN call.args : call.args[k] # MinInt

(* s is t without its first n elements. *)
Suffix(s, t, n) ==
  /\ n \in 0..Len(t) /\ Len(s) = Len(t) - n
  /\ \A k \in 1..Len(s) : s[k] = t[n + k]

(* m characters of the format are left, and the j-th argument is the next. *)
Left(m, j) ==
  /\ m \in 0..Len(call.fmt) /\ j \in Nat \ {0} /\ 2 * (j - 1) + m <= Len(call.fmt)
  /\ fmt \in Seq(FormatChar) /\ Suffix(fmt, call.fmt, Len(call.fmt) - m)
  /\ args \in Seq(Ints) /\ Suffix(args, call.args, j - 1)

(* What they stand for, and what the whole format does. *)
Rest(m, j) == Meaning(call.fmt, call.args)[m][j]

Full == Reference(call.fmt, call.args)

(* Between two characters of the format, what was printed and what is left to
   print make up the reference. *)
FormatInv == \E m, j \in Nat : Left(m, j) /\ (NoMin => out \o Rest(m, j) = Full)

(* The loop that looks for the first power of ten: the numeral of val is still
   to be printed. *)
GrowInv ==
  /\ divisor \in Tens /\ val \in MinInt..MaxInt /\ (divisor = 1 \/ divisor <= val)
  /\ \E m, j \in Nat :
       /\ Left(m, j) /\ 2 <= m
       /\ NoMin => /\ 0 <= val
                   /\ out \o (Numeral(val, 10) \o Rest(m - 2, j + 1)) = Full

(* The loop that prints the digits of u after o: those above the divisor are
   printed, val is what the others stand for. *)
Printing(o, u) ==
  IF divisor = 0 THEN out = o \o Numeral(u, 10)
  ELSE /\ divisor = 1 \/ divisor <= u
       /\ out = o \o Pre(u \div (10 * divisor))
       /\ val = u % (10 * divisor)

DigitsInv ==
  /\ divisor = 0 \/ divisor \in Tens
  /\ \E m, j \in Nat :
       /\ Left(m, j) /\ 2 <= m
       /\ NoMin => \E o \in Seq(Sym), u \in 0..MaxInt :
                     /\ Printing(o, u)
                     /\ o \o (Numeral(u, 10) \o Rest(m - 2, j + 1)) = Full

PrintfInv ==
  /\ Suits(call.fmt, call.args)
  /\ out \in Seq(Sym) /\ divisor \in 0..MaxInt
  /\ phase \in {"format", "grow", "digits", "end"}
  /\ phase = "format" => FormatInv
  /\ phase = "grow" => GrowInv
  /\ phase = "digits" => DigitsInv
  /\ phase = "end" => (NoMin => out = Full)

(* One element more is dropped. *)
LEMMA SuffixTail ==
  ASSUME NEW S, NEW s \in Seq(S), NEW t \in Seq(S), NEW n, Suffix(s, t, n), s # <<>>
  PROVE  Tail(s) \in Seq(S) /\ Suffix(Tail(s), t, n + 1)
<1>1. /\ Len(t) \in Nat /\ n \in 0..Len(t) /\ Len(s) = Len(t) - n
      /\ Tail(s) \in Seq(S) /\ Len(Tail(s)) = Len(s) - 1
      /\ \A k \in 1..Len(Tail(s)) : Tail(s)[k] = s[k + 1]
      /\ Len(s) # 0
  BY DEF Suffix
<1>2. ASSUME NEW k \in 1..Len(Tail(s)) PROVE Tail(s)[k] = t[(n + 1) + k]
  <2>1. k + 1 \in 1..Len(s) /\ n + (k + 1) = (n + 1) + k
    BY <1>1
  <2>2. s[k + 1] = t[n + (k + 1)]
    BY Zenon, <2>1 DEF Suffix
  <2> QED
    BY Zenon, <1>1, <2>1, <2>2
<1>3. n + 1 \in 0..Len(t) /\ Len(Tail(s)) = Len(t) - (n + 1)
  BY <1>1
<1> QED
  BY Zenon, <1>1, <1>2, <1>3 DEF Suffix

(* The same for two elements, as fmt += 2 drops them. *)
LEMMA SuffixSkip ==
  ASSUME NEW S, NEW s \in Seq(S), NEW t \in Seq(S), NEW n, Suffix(s, t, n), Len(s) > 1
  PROVE  SubSeq(s, 3, Len(s)) \in Seq(S) /\ Suffix(SubSeq(s, 3, Len(s)), t, n + 2)
<1> DEFINE r == SubSeq(s, 3, Len(s))
<1>1. /\ Len(t) \in Nat /\ n \in 0..Len(t) /\ Len(s) = Len(t) - n /\ Len(s) \in Nat
      /\ r \in Seq(S) /\ Len(r) = Len(s) - 2
      /\ \A k \in 1..Len(r) : r[k] = s[k + 2]
  BY DEF Suffix
<1> HIDE DEF r
<1>2. ASSUME NEW k \in 1..Len(r) PROVE r[k] = t[(n + 2) + k]
  <2>1. k + 2 \in 1..Len(s) /\ n + (k + 2) = (n + 2) + k
    BY <1>1
  <2>2. s[k + 2] = t[n + (k + 2)]
    BY Zenon, <2>1 DEF Suffix
  <2> QED
    BY Zenon, <1>1, <2>1, <2>2
<1>3. n + 2 \in 0..Len(t) /\ Len(r) = Len(t) - (n + 2)
  BY <1>1
<1> QED
  BY Zenon, <1>1, <1>2, <1>3 DEF Suffix, r

(* What Left says of lengths. *)
LEMMA LeftLen ==
  ASSUME Suits(call.fmt, call.args), NEW m, NEW j, Left(m, j)
  PROVE  /\ m \in Nat /\ Len(fmt) = m /\ j \in Nat /\ Len(call.fmt) \in Nat
         /\ 2 * (j - 1) + m <= Len(call.fmt)
         /\ m # 0 => fmt # <<>> /\ Head(fmt) = fmt[1] /\ fmt[1] \in FormatChar
                     /\ fmt[1] = call.fmt[Len(call.fmt) - m + 1]
         /\ 2 <= m => /\ fmt[2] \in FormatChar /\ fmt[2] = call.fmt[Len(call.fmt) - m + 2]
                      /\ args # <<>> /\ Head(args) \in Ints
                      /\ j \in DOMAIN call.args /\ Head(args) = call.args[j]
<1>1. /\ Len(call.fmt) \in Nat /\ Len(call.args) \in Nat /\ DOMAIN call.args = 1..Len(call.args)
      /\ Len(call.fmt) <= 2 * Len(call.args) + 1
  BY DEF Suits
<1>2. /\ m \in 0..Len(call.fmt) /\ j \in Nat \ {0} /\ 2 * (j - 1) + m <= Len(call.fmt)
      /\ fmt \in Seq(FormatChar) /\ Suffix(fmt, call.fmt, Len(call.fmt) - m)
      /\ args \in Seq(Ints) /\ Suffix(args, call.args, j - 1)
  BY Zenon DEF Left
<1>3. m \in Nat /\ Len(fmt) = m
  BY <1>1, <1>2 DEF Suffix
<1>4. ASSUME m # 0
      PROVE  fmt # <<>> /\ Head(fmt) = fmt[1] /\ fmt[1] \in FormatChar
             /\ fmt[1] = call.fmt[Len(call.fmt) - m + 1]
  <2>1. 1 \in 1..Len(fmt)
    BY <1>3, <1>4
  <2>2. fmt # <<>> /\ Head(fmt) = fmt[1] /\ fmt[1] \in FormatChar
    BY <1>2, <2>1
  <2> QED
    BY Zenon, <1>2, <2>1, <2>2 DEF Suffix
<1>5. ASSUME 2 <= m
      PROVE  fmt[2] \in FormatChar /\ fmt[2] = call.fmt[Len(call.fmt) - m + 2]
  <2>1. 2 \in 1..Len(fmt)
    BY <1>3, <1>5
  <2>2. fmt[2] \in FormatChar
    BY <1>2, <2>1
  <2> QED
    BY Zenon, <1>2, <2>1, <2>2 DEF Suffix
<1>6. ASSUME 2 <= m
      PROVE  /\ args # <<>> /\ Head(args) \in Ints
             /\ j \in DOMAIN call.args /\ Head(args) = call.args[j]
  <2>1. Len(args) = Len(call.args) - (j - 1)
    BY Zenon, <1>2 DEF Suffix
  <2>2. j \in 1..Len(call.args) /\ 1 \in 1..Len(args) /\ (j - 1) + 1 = j
    BY <1>1, <1>2, <1>3, <1>6, <2>1
  <2>3. args # <<>> /\ Head(args) = args[1] /\ args[1] \in Ints
    BY <1>2, <2>2
  <2>4. args[1] = call.args[(j - 1) + 1]
    BY Zenon, <1>2, <2>2 DEF Suffix
  <2> QED
    BY Zenon, <1>1, <2>2, <2>3, <2>4
<1>7. j \in Nat
  BY Zenon, <1>2
<1> QED
  BY Zenon, <1>1, <1>2, <1>3, <1>4, <1>5, <1>6, <1>7

(* The bounds of Left when one character fewer is left. *)
LEMMA OneFewer ==
  ASSUME NEW n \in Nat, NEW m \in 0..n, m # 0, NEW j \in Nat \ {0},
         2 * (j - 1) + m <= n
  PROVE  /\ m - 1 \in 0..n /\ 2 * (j - 1) + (m - 1) <= n
         /\ (n - m) + 1 = n - (m - 1)
  OBVIOUS

(* A character of text is taken. *)
LEMMA LeftText ==
  ASSUME Suits(call.fmt, call.args), NEW m, NEW j, Left(m, j), m # 0,
         fmt' = Tail(fmt), args' = args, call' = call
  PROVE  Left(m - 1, j)'
<1>1. /\ m \in 0..Len(call.fmt) /\ j \in Nat \ {0} /\ 2 * (j - 1) + m <= Len(call.fmt)
      /\ fmt \in Seq(FormatChar) /\ Suffix(fmt, call.fmt, Len(call.fmt) - m)
      /\ args \in Seq(Ints) /\ Suffix(args, call.args, j - 1)
  BY Zenon DEF Left
<1>2. fmt # <<>> /\ call.fmt \in Seq(FormatChar) /\ Len(call.fmt) \in Nat
  BY Zenon, LeftLen DEF Suits
<1>3. Tail(fmt) \in Seq(FormatChar) /\ Suffix(Tail(fmt), call.fmt, (Len(call.fmt) - m) + 1)
  BY Zenon, <1>1, <1>2, SuffixTail
<1>4. /\ m - 1 \in 0..Len(call.fmt) /\ 2 * (j - 1) + (m - 1) <= Len(call.fmt)
      /\ (Len(call.fmt) - m) + 1 = Len(call.fmt) - (m - 1)
  BY Zenon, <1>1, <1>2, OneFewer
<1> QED
  BY Zenon, <1>1, <1>3, <1>4 DEF Left

(* A conversion is taken, with its argument if it has one. *)
LEMMA LeftSkip ==
  ASSUME Suits(call.fmt, call.args), NEW m, NEW j, Left(m, j), 2 <= m, NEW k \in {0, 1},
         fmt' = Skip2, args' = IF k = 0 THEN args ELSE Tail(args), call' = call
  PROVE  Left(m - 2, j + k)'
<1>1. /\ m \in 0..Len(call.fmt) /\ j \in Nat \ {0} /\ 2 * (j - 1) + m <= Len(call.fmt)
      /\ fmt \in Seq(FormatChar) /\ Suffix(fmt, call.fmt, Len(call.fmt) - m)
      /\ args \in Seq(Ints) /\ Suffix(args, call.args, j - 1)
  BY Zenon DEF Left
<1>2. /\ call.fmt \in Seq(FormatChar) /\ call.args \in Seq(Ints) /\ Len(call.fmt) \in Nat
      /\ args # <<>> /\ Len(fmt) = m
  BY Zenon, LeftLen DEF Suits
<1>3. Len(fmt) > 1
  BY <1>1, <1>2
<1>4. Skip2 \in Seq(FormatChar) /\ Suffix(Skip2, call.fmt, (Len(call.fmt) - m) + 2)
  BY Zenon, <1>1, <1>2, <1>3, SuffixSkip DEF Skip2
<1>5. Tail(args) \in Seq(Ints) /\ Suffix(Tail(args), call.args, (j - 1) + 1)
  BY Zenon, <1>1, <1>2, SuffixTail
<1>6. /\ m - 2 \in 0..Len(call.fmt)
      /\ (Len(call.fmt) - m) + 2 = Len(call.fmt) - (m - 2)
  BY <1>1, <1>2, <1>3
<1>7. CASE k = 0
  <2>1. j + k = j /\ 2 * (j - 1) + (m - 2) <= Len(call.fmt)
    BY <1>1, <1>2, <1>7
  <2>2. args' = args
    BY Zenon, <1>7
  <2> QED
    BY ZenonT(30), <1>1, <1>4, <1>6, <2>1, <2>2 DEF Left
<1>8. CASE k = 1
  <2>1. /\ j + k \in Nat \ {0} /\ (j - 1) + 1 = (j + k) - 1
        /\ 2 * ((j + k) - 1) + (m - 2) <= Len(call.fmt)
    BY <1>1, <1>2, <1>8
  <2>2. args' = Tail(args)
    BY <1>8
  <2> QED
    BY Zenon, <1>4, <1>5, <1>6, <2>1, <2>2 DEF Left
<1> QED
  BY Zenon, <1>7, <1>8

(* What is left to print, unfolded by the next characters of the format. *)
LEMMA RestIs ==
  ASSUME Suits(call.fmt, call.args), NEW m, NEW j, Left(m, j)
  PROVE  /\ Rest(m, j) \in Seq(Sym)
         /\ m = 0 => Rest(m, j) = <<>>
         /\ m # 0 /\ fmt[1] # "%" =>
              /\ Rest(m, j) = <<fmt[1]>> \o Rest(m - 1, j)
              /\ Rest(m - 1, j) \in Seq(Sym)
         /\ m = 1 /\ fmt[1] = "%" => Rest(m, j) = <<"%">>
         /\ 2 <= m /\ fmt[1] = "%" =>
              /\ Rest(m, j) = Converted(fmt[2], Head(args)) \o Rest(m - 2, j + Takes(fmt[2]))
              /\ Converted(fmt[2], Head(args)) \in Seq(Sym)
              /\ Rest(m - 2, j + Takes(fmt[2])) \in Seq(Sym)
<1> DEFINE f == call.fmt
           a == call.args
<1>1. /\ Len(f) \in Nat /\ m \in Nat /\ m \in 0..Len(f) /\ j \in Nat /\ j \in Nat \ {0}
      /\ 2 * (j - 1) + m <= Len(f) /\ Suits(f, a)
  BY Zenon, LeftLen DEF Left
<1>2. Rest(m, j) = Says(f, a, Meaning(f, a), m, j)
  BY ZenonT(30), <1>1, MeaningIs DEF Rest
<1>3. Rest(m, j) \in Seq(Sym)
  BY Zenon, <1>1, MeaningSeq DEF Rest
<1>4. m = 0 => Rest(m, j) = <<>>
  BY Zenon, <1>2 DEF Says
<1>5. ASSUME m # 0, fmt[1] # "%"
      PROVE  Rest(m, j) = <<fmt[1]>> \o Rest(m - 1, j) /\ Rest(m - 1, j) \in Seq(Sym)
  <2>1. fmt[1] = f[Len(f) - m + 1]
    BY Zenon, <1>5, LeftLen
  <2>2. m - 1 \in 0..Len(f) /\ 2 * (j - 1) + (m - 1) <= Len(f)
    BY <1>1, <1>5
  <2>3. Rest(m - 1, j) \in Seq(Sym)
    BY Zenon, <1>1, <2>2, MeaningSeq DEF Rest
  <2>4. Rest(m, j) = <<f[Len(f) - m + 1]>> \o Meaning(f, a)[m - 1][j]
    <3> HIDE DEF f, a
    <3> QED
      BY Zenon, <1>2, <1>5, <2>1 DEF Says
  <2> QED
    BY Zenon, <2>1, <2>3, <2>4 DEF Rest
<1>6. ASSUME m = 1, fmt[1] = "%" PROVE Rest(m, j) = <<"%">>
  <2>1. m # 0
    BY <1>6
  <2>2. fmt[1] = f[Len(f) - m + 1]
    BY Zenon, <2>1, LeftLen
  <2> HIDE DEF f, a
  <2> QED
    BY Zenon, <1>2, <1>6, <2>1, <2>2 DEF Says
<1>7. ASSUME 2 <= m, fmt[1] = "%"
      PROVE  /\ Rest(m, j) = Converted(fmt[2], Head(args)) \o Rest(m - 2, j + Takes(fmt[2]))
             /\ Converted(fmt[2], Head(args)) \in Seq(Sym)
             /\ Rest(m - 2, j + Takes(fmt[2])) \in Seq(Sym)
  <2> DEFINE d == fmt[2]
             i == j + Takes(d)
  <2>1. m # 0 /\ m # 1
    BY <1>1, <1>7
  <2>2. /\ fmt[1] = f[Len(f) - m + 1] /\ d = f[Len(f) - m + 2] /\ d \in FormatChar
        /\ Head(args) \in Ints /\ Head(args) = a[j]
    BY Zenon, <1>7, <2>1, LeftLen
  <2>3. Rest(m, j) = Converted(d, a[j]) \o Meaning(f, a)[m - 2][i]
    <3> HIDE DEF f, a, d
    <3>1. Rest(m, j) = Converted(f[Len(f) - m + 2], a[j])
                         \o Meaning(f, a)[m - 2][j + Takes(f[Len(f) - m + 2])]
      BY Zenon, <1>2, <1>7, <2>1, <2>2 DEF Says
    <3> QED
      BY Zenon, <2>2, <3>1
  <2>4. Converted(d, Head(args)) \in Seq(Sym)
    BY Zenon, <2>2, ConvertedSeq DEF Ints
  <2>5. Rest(m - 2, i) \in Seq(Sym)
    <3>1. Takes(d) \in {0, 1}
      BY Zenon DEF Takes
    <3> HIDE DEF d
    <3>2. m - 2 \in 0..Len(f) /\ i \in Nat \ {0} /\ 2 * (i - 1) + (m - 2) <= Len(f)
      BY <1>1, <1>7, <3>1
    <3> HIDE DEF i
    <3> QED
      BY Zenon, <1>1, <3>2, MeaningSeq DEF Rest
  <2> HIDE DEF d, i
  <2>6. Rest(m, j) = Converted(d, Head(args)) \o Rest(m - 2, i)
    BY Zenon, <2>2, <2>3 DEF Rest
  <2> QED
    BY Zenon, <2>4, <2>5, <2>6 DEF d, i
<1> QED
  BY Zenon, <1>3, <1>4, <1>5, <1>6, <1>7

(* A step that ends between two characters of the format. *)
LEMMA FormatKept ==
  ASSUME PrintfInv, call' = call, phase' = "format", divisor' = divisor, out' \in Seq(Sym),
         NEW m \in Nat, NEW j \in Nat, Left(m, j)', NoMin => out' \o Rest(m, j) = Full
  PROVE  PrintfInv'
<1>1. Rest(m, j)' = Rest(m, j) /\ Full' = Full /\ NoMin' = NoMin
  BY Zenon DEF Rest, Full, NoMin
<1>2. FormatInv'
  BY Zenon, <1>1 DEF FormatInv
<1>3. phase' \in {"format", "grow", "digits", "end"}
      /\ phase' # "grow" /\ phase' # "digits" /\ phase' # "end"
  BY Zenon
<1> QED
  BY Zenon, <1>2, <1>3 DEF PrintfInv

(* A conversion that is printed at once. *)
LEMMA ConversionKept ==
  ASSUME PrintfInv, phase = "format", NEW c \in FormatChar, Conversion(c),
         \A v \in Ints : v = Head(args) => out' = out \o Converted(c, v),
         fmt' = Skip2, args' = IF Takes(c) = 0 THEN args ELSE Tail(args),
         UNCHANGED <<divisor, phase, call>>
  PROVE  PrintfInv'
<1>1. PICK m, j \in Nat : Left(m, j) /\ (NoMin => out \o Rest(m, j) = Full)
  BY Zenon DEF PrintfInv, FormatInv
<1>2. Suits(call.fmt, call.args) /\ out \in Seq(Sym)
  BY Zenon DEF PrintfInv
<1>3. Len(fmt) = m /\ Len(fmt) > 1 /\ Head(fmt) = "%" /\ fmt[2] = c
  BY Zenon, <1>1, <1>2, LeftLen DEF Conversion
<1>4. 2 <= m /\ m # 0 /\ m - 2 \in Nat
  BY <1>3
<1>5. fmt[1] = "%" /\ Head(args) \in Ints
  BY Zenon, <1>1, <1>2, <1>3, <1>4, LeftLen
<1>6. /\ Rest(m, j) = Converted(c, Head(args)) \o Rest(m - 2, j + Takes(c))
      /\ Converted(c, Head(args)) \in Seq(Sym)
      /\ Rest(m - 2, j + Takes(c)) \in Seq(Sym)
  BY ZenonT(30), <1>1, <1>2, <1>3, <1>4, <1>5, RestIs
<1>7. Takes(c) \in {0, 1} /\ j + Takes(c) \in Nat
  BY DEF Takes
<1>8. Left(m - 2, j + Takes(c))'
  BY Zenon, <1>1, <1>2, <1>4, <1>7, LeftSkip
<1>9. out' = out \o Converted(c, Head(args))
  BY Zenon, <1>5
<1>10. out' \in Seq(Sym)
  BY Zenon, <1>2, <1>6, <1>9, JoinSeq
<1>11. NoMin => out' \o Rest(m - 2, j + Takes(c)) = Full
  <2>1. (out \o Converted(c, Head(args))) \o Rest(m - 2, j + Takes(c))
          = out \o (Converted(c, Head(args)) \o Rest(m - 2, j + Takes(c)))
    BY Zenon, <1>2, <1>6, JoinAssoc
  <2> QED
    BY Zenon, <1>1, <1>6, <1>9, <2>1
<1>12. phase' = "format" /\ divisor' = divisor /\ call' = call
  BY Zenon
<1> QED
  BY Zenon, <1>4, <1>7, <1>8, <1>10, <1>11, <1>12, FormatKept

(* The actions that print a conversion at once. *)
LEMMA AtOnceStep ==
  ASSUME PrintfInv, Percent \/ String \/ Hex \/ Unknown
  PROVE  PrintfInv'
<1>1. /\ "%" \in FormatChar /\ "s" \in FormatChar /\ "x" \in FormatChar /\ "a" \in FormatChar
      /\ Takes("%") = 0 /\ Takes("a") = 0 /\ Takes("s") # 0 /\ Takes("x") # 0
  BY DEF Takes, FormatChar
<1>2. \A v : /\ Converted("%", v) = <<"%">> /\ Converted("s", v) = Text
             /\ Converted("x", v) = HexText(v) /\ Converted("a", v) = <<>>
  BY Zenon DEF Converted
<1>3. out \in Seq(Sym)
  BY Zenon DEF PrintfInv
<1>4. CASE Percent
  <2>1. out' = out \o <<"%">>
    BY Zenon, <1>3, <1>4, AddSeq, SymHas DEF Percent
  <2>2. /\ phase = "format" /\ Conversion("%") /\ fmt' = Skip2 /\ args' = args
        /\ UNCHANGED <<divisor, phase, call>>
    BY Zenon, <1>4 DEF Percent, Conversion
  <2> QED
    BY Zenon, <1>1, <1>2, <2>1, <2>2, ConversionKept
<1>5. CASE String
  <2>1. /\ phase = "format" /\ Conversion("s") /\ fmt' = Skip2 /\ args' = Tail(args)
        /\ UNCHANGED <<divisor, phase, call>> /\ out' = out \o Text
    BY Zenon, <1>5 DEF String, Conversion
  <2> QED
    BY Zenon, <1>1, <1>2, <2>1, ConversionKept
<1>6. CASE Hex
  <2>1. /\ phase = "format" /\ Conversion("x") /\ fmt' = Skip2 /\ args' = Tail(args)
        /\ UNCHANGED <<divisor, phase, call>> /\ out' = out \o Nibbles(Head(args))
    BY Zenon, <1>6 DEF Hex, Conversion
  <2>2. \A v \in Ints : Nibbles(v) = HexText(v)
    BY Zenon, NibblesAre DEF Ints
  <2>3. \A v \in Ints : v = Head(args) => out' = out \o Converted("x", v)
    BY Zenon, <1>2, <2>1, <2>2
  <2> QED
    BY Zenon, <1>1, <2>1, <2>3, ConversionKept
<1>7. CASE Unknown
  <2>1. /\ phase = "format" /\ Conversion("a") /\ fmt' = Skip2 /\ args' = args
        /\ UNCHANGED <<divisor, phase, call>> /\ out' = out
    BY Zenon, <1>7 DEF Unknown, Conversion
  <2>2. out' = out \o <<>>
    BY Zenon, <1>3, <2>1, JoinNil
  <2> QED
    BY Zenon, <1>1, <1>2, <2>1, <2>2, ConversionKept
<1> QED
  BY Zenon, <1>4, <1>5, <1>6, <1>7

(* The other actions between two characters. *)
LEMMA TextStep ==
  ASSUME PrintfInv, Plain \/ End \/ LastPercent
  PROVE  PrintfInv'
<1>1. phase = "format"
  BY Zenon DEF Plain, End, LastPercent
<1>2. PICK m, j \in Nat : Left(m, j) /\ (NoMin => out \o Rest(m, j) = Full)
  BY Zenon, <1>1 DEF PrintfInv, FormatInv
<1>3. Suits(call.fmt, call.args) /\ out \in Seq(Sym) /\ divisor \in 0..MaxInt
  BY Zenon DEF PrintfInv
<1>4. Len(fmt) = m
  BY Zenon, <1>2, <1>3, LeftLen
<1>5. CASE Plain
  <2>1. m # 0
    <3>1. fmt \in Seq(FormatChar) /\ fmt # <<>>
      BY Zenon, <1>2, <1>5 DEF Plain, Left
    <3> QED
      BY <1>4, <3>1
  <2>2. Head(fmt) = fmt[1] /\ fmt[1] # "%" /\ fmt[1] \in Sym
    BY Zenon, <1>2, <1>3, <1>5, <2>1, LeftLen, SymHas DEF Plain
  <2>3. Rest(m, j) = <<fmt[1]>> \o Rest(m - 1, j) /\ Rest(m - 1, j) \in Seq(Sym)
    BY Zenon, <1>2, <1>3, <2>1, <2>2, RestIs
  <2>4. /\ out' = Append(out, fmt[1]) /\ fmt' = Tail(fmt) /\ args' = args
        /\ phase' = "format" /\ divisor' = divisor /\ call' = call
    BY Zenon, <1>1, <1>5, <2>2 DEF Plain
  <2>5. Left(m - 1, j)' /\ m - 1 \in Nat
    <3>1. m - 1 \in Nat
      BY <2>1
    <3> QED
      BY ZenonT(30), <1>2, <1>3, <2>1, <2>4, <3>1, LeftText
  <2>6. out' \in Seq(Sym) /\ out' \o Rest(m - 1, j) = out \o Rest(m, j)
    <3>1. Append(out, fmt[1]) \in Seq(Sym)
      BY Zenon, <1>3, <2>2, AddSeq
    <3>2. Append(out, fmt[1]) \o Rest(m - 1, j) = out \o (<<fmt[1]>> \o Rest(m - 1, j))
      BY Zenon, <1>3, <2>2, <2>3, AddJoin
    <3> QED
      BY Zenon, <2>3, <2>4, <3>1, <3>2
  <2> QED
    BY Zenon, <1>2, <2>4, <2>5, <2>6, FormatKept
<1>6. ASSUME phase' = "end", call' = call, divisor' = divisor, out' \in Seq(Sym),
             NoMin => out' = Full
      PROVE  PrintfInv'
  <2>1. Full' = Full /\ NoMin' = NoMin
    BY Zenon, <1>6 DEF Full, NoMin
  <2>2. phase' \in {"format", "grow", "digits", "end"}
        /\ phase' # "grow" /\ phase' # "digits" /\ phase' # "format"
    BY Zenon, <1>6
  <2> QED
    BY Zenon, <1>6, <2>1, <2>2 DEF PrintfInv
<1>7. CASE End
  <2>1. m = 0
    BY Zenon, <1>4, <1>7 DEF End
  <2>2. Rest(m, j) = <<>>
    BY Zenon, <1>2, <1>3, <2>1, RestIs
  <2>3. /\ phase' = "end" /\ call' = call /\ divisor' = divisor /\ out' = out
    BY Zenon, <1>7 DEF End
  <2> QED
    BY ZenonT(30), <1>2, <1>3, <1>6, <2>2, <2>3, JoinNil
<1>8. CASE LastPercent
  <2>1. m = 1 /\ fmt[1] = "%"
    BY Zenon, <1>4, <1>8 DEF LastPercent
  <2>2. Rest(m, j) = <<"%">>
    BY Zenon, <1>2, <1>3, <2>1, RestIs
  <2>3. /\ phase' = "end" /\ call' = call /\ divisor' = divisor /\ out' = Append(out, "%")
    BY Zenon, <1>8 DEF LastPercent
  <2>4. out' = out \o <<"%">> /\ out' \in Seq(Sym)
    BY Zenon, <1>3, <2>3, AddSeq, SymHas
  <2> QED
    BY Zenon, <1>2, <1>6, <2>2, <2>3, <2>4
<1> QED
  BY Zenon, <1>5, <1>7, <1>8

(* %d begins: the sign is printed, the numeral is to come. *)
LEMMA DecimalStep ==
  ASSUME PrintfInv, Decimal
  PROVE  PrintfInv'
<1> DEFINE v == Head(args)
<1>1. /\ phase = "format" /\ Len(fmt) > 1 /\ Head(fmt) = "%" /\ fmt[2] = "d"
      /\ divisor' = 1 /\ phase' = "grow" /\ fmt' = fmt /\ args' = args /\ call' = call
      /\ IF v < 0 THEN out' = Append(out, "-") /\ val' \in Negated(v)
                  ELSE out' = out /\ val' = v
  BY Zenon DEF Decimal, Conversion
<1>2. PICK m, j \in Nat : Left(m, j) /\ (NoMin => out \o Rest(m, j) = Full)
  BY Zenon, <1>1 DEF PrintfInv, FormatInv
<1>3. Suits(call.fmt, call.args) /\ out \in Seq(Sym)
  BY Zenon DEF PrintfInv
<1>4. 2 <= m /\ m # 0
  <2>1. Len(fmt) = m
    BY Zenon, <1>2, <1>3, LeftLen
  <2> QED
    BY <1>1, <2>1
<1>5. fmt[1] = "%" /\ v \in Ints /\ j \in DOMAIN call.args /\ v = call.args[j]
  BY Zenon, <1>1, <1>2, <1>3, <1>4, LeftLen
<1>6. v \in MinInt..MaxInt /\ (NoMin => v # MinInt)
  BY Zenon, <1>5 DEF Ints, NoMin
<1> DEFINE R == Rest(m - 2, j + 1)
<1>7. Rest(m, j) = DecimalText(v) \o R /\ R \in Seq(Sym)
  <2>1. Takes("d") = 1 /\ Converted("d", v) = DecimalText(v)
    BY Zenon DEF Takes, Converted
  <2> QED
    BY Zenon, <1>1, <1>2, <1>3, <1>4, <1>5, <2>1, RestIs
<1> HIDE DEF v, R
<1>8. /\ val' \in MinInt..MaxInt
      /\ NoMin => 0 <= val' /\ val' = IF v < 0 THEN -v ELSE v
  BY <1>1, <1>6, IntFacts DEF Negated
<1>9. out' \in Seq(Sym)
  BY Zenon, <1>1, <1>3, AddSeq, SymHas
<1>10. ASSUME NoMin PROVE out' \o (Numeral(val', 10) \o R) = Full
  <2>1. Full = out \o (DecimalText(v) \o R)
    BY Zenon, <1>2, <1>7, <1>10
  <2>2. CASE v < 0
    <3> DEFINE n == Numeral(-v, 10)
    <3>1. n \in Seq(Sym)
      <4>1. 10 \in 2..16 /\ -v \in 0..(2^Bits - 1)
        BY <1>6, <2>2, IntFacts
      <4> QED
        BY Zenon, <4>1, NumeralSeq
    <3>2. /\ DecimalText(v) = <<"-">> \o n /\ out' = Append(out, "-") /\ Numeral(val', 10) = n
      BY Zenon, <1>1, <1>8, <1>10, <2>2 DEF DecimalText
    <3> HIDE DEF n
    <3>3. <<"-">> \in Seq(Sym) /\ n \o R \in Seq(Sym)
      BY Zenon, <1>7, <3>1, OneSeq, SymHas, JoinSeq
    <3>4. (<<"-">> \o n) \o R = <<"-">> \o (n \o R)
      BY Zenon, <1>7, <3>1, <3>3, JoinAssoc
    <3>5. Append(out, "-") \o (n \o R) = out \o (<<"-">> \o (n \o R))
      BY Zenon, <1>3, <3>3, AddJoin, SymHas
    <3> QED
      BY Zenon, <2>1, <3>2, <3>4, <3>5
  <2>3. CASE ~(v < 0)
    BY Zenon, <1>1, <1>8, <1>10, <2>1, <2>3 DEF DecimalText
  <2> QED
    BY Zenon, <2>2, <2>3
<1>11. NoMin' = NoMin /\ Full' = Full /\ Left(m, j)' /\ Rest(m - 2, j + 1)' = R
  BY Zenon, <1>1, <1>2 DEF NoMin, Full, Left, Rest, R
<1>12. GrowInv'
  BY ZenonT(30), <1>1, <1>4, <1>8, <1>10, <1>11, TensStep DEF GrowInv
<1>13. /\ divisor' \in 0..MaxInt /\ phase' \in {"format", "grow", "digits", "end"}
       /\ phase' # "format" /\ phase' # "digits" /\ phase' # "end"
  BY <1>1, IntFacts
<1>14. Suits(call'.fmt, call'.args)
  BY Zenon, <1>1, <1>3
<1> QED
  BY Zenon, <1>9, <1>12, <1>13, <1>14 DEF PrintfInv

(* C's division on numbers that are not negative. *)
LEMMA QuotientNat ==
  ASSUME NEW a \in Nat, NEW b \in Nat \ {0}
  PROVE  Quotient(a, b) = a \div b
<1>1. ~(a < 0)
  OBVIOUS
<1> QED
  BY Zenon, <1>1 DEF Quotient

(* The divisor grows to the first power of ten. *)
LEMMA GrowStep ==
  ASSUME PrintfInv, Grow
  PROVE  PrintfInv'
<1>1. /\ phase = "grow" /\ fmt' = fmt /\ args' = args /\ out' = out /\ val' = val /\ call' = call
      /\ IF Larger THEN divisor' = divisor * 10 /\ phase' = phase
                   ELSE phase' = "digits" /\ divisor' = divisor
  BY Zenon DEF Grow
<1>2. /\ divisor \in Tens /\ val \in MinInt..MaxInt /\ (divisor = 1 \/ divisor <= val)
      /\ Suits(call.fmt, call.args) /\ out \in Seq(Sym) /\ divisor \in 0..MaxInt
  BY Zenon, <1>1 DEF PrintfInv, GrowInv
<1>3. PICK m, j \in Nat :
        /\ Left(m, j) /\ 2 <= m
        /\ NoMin => /\ 0 <= val
                    /\ out \o (Numeral(val, 10) \o Rest(m - 2, j + 1)) = Full
  BY Zenon, <1>1 DEF PrintfInv, GrowInv
<1>4. /\ NoMin' = NoMin /\ Full' = Full /\ Left(m, j)'
      /\ Rest(m - 2, j + 1)' = Rest(m - 2, j + 1)
  BY Zenon, <1>1, <1>3 DEF NoMin, Full, Left, Rest
<1>5. divisor \in Nat \ {0} /\ 10 * divisor \in Tens
  BY Zenon, <1>2, TensStep
<1>6. val \in Int /\ MaxInt \in Int /\ val <= MaxInt
  BY <1>2, IntFacts
<1>7. CASE Larger
  <2>1. val \in Nat
    <3>1. CASE val < 0
      <4>1. -val \in Nat
        BY <1>6, <3>1
      <4>2. (-val) \div divisor \in Nat
        BY Zenon, <1>5, <4>1, DivNat
      <4>3. -((-val) \div divisor) > 9
        BY Zenon, <1>7, <3>1 DEF Larger, Quotient
      <4> QED
        BY <4>2, <4>3
    <3>2. CASE ~(val < 0)
      BY <1>6, <3>2
    <3> QED
      BY Zenon, <3>1, <3>2
  <2> DEFINE q == val \div divisor
  <2>2. q > 9 /\ q \in Nat /\ val = divisor * q + (val % divisor) /\ val % divisor \in 0..(divisor - 1)
    BY Zenon, <1>5, <1>7, <2>1, QuotientNat, DivNat DEF Larger
  <2> HIDE DEF q
  <2>3. divisor * 10 <= divisor * q /\ divisor * 10 = 10 * divisor /\ divisor * q \in Nat
    BY <1>5, <2>2
  <2>4. divisor * 10 <= val /\ divisor * 10 \in 0..MaxInt
    BY <1>5, <1>6, <2>2, <2>3
  <2>5. /\ divisor' = divisor * 10 /\ divisor' \in Tens /\ divisor' <= val /\ divisor' \in 0..MaxInt
        /\ phase' = "grow"
    BY Zenon, <1>1, <1>5, <1>7, <2>3, <2>4
  <2>6. GrowInv'
    BY Zenon, <1>1, <1>2, <1>3, <1>4, <2>5 DEF GrowInv
  <2>7. /\ phase' \in {"format", "grow", "digits", "end"}
        /\ phase' # "format" /\ phase' # "digits" /\ phase' # "end"
    BY Zenon, <2>5
  <2> QED
    BY Zenon, <1>1, <1>2, <2>5, <2>6, <2>7 DEF PrintfInv
<1>8. CASE ~Larger
  <2>1. phase' = "digits" /\ divisor' = divisor
    BY Zenon, <1>1, <1>8
  <2>2. ASSUME NoMin PROVE val \in 0..MaxInt /\ Printing(out, val)'
    <3>1. val \in Nat /\ val \in 0..MaxInt
      BY <1>3, <1>6, <2>2
    <3> DEFINE q == val \div divisor
               t == 10 * divisor
    <3>2. ~(q > 9) /\ q \in Nat /\ val = divisor * q + (val % divisor) /\ val % divisor \in 0..(divisor - 1)
      BY Zenon, <1>5, <1>8, <3>1, QuotientNat, DivNat DEF Larger
    <3> HIDE DEF q
    <3>3. divisor * q <= divisor * 9 /\ divisor * q \in Nat
      BY <1>5, <3>2
    <3>4. val \in 0..(t - 1) /\ t \in Nat \ {0} /\ 0 \in Int
      BY <1>5, <3>1, <3>2, <3>3
    <3> HIDE DEF t
    <3>5. (t * 0 + val) \div t = 0 /\ (t * 0 + val) % t = val
      BY Zenon, <3>4, DivUnique
    <3>6. t * 0 + val = val
      BY <3>1, <3>4
    <3>7. val \div t = 0 /\ val % t = val
      BY Zenon, <3>5, <3>6
    <3>8. out = out \o Pre(val \div t)
      BY Zenon, <1>2, <3>7, JoinNil DEF Pre
    <3>9. divisor' # 0
      BY Zenon, <1>5, <2>1
    <3>10. out' = out \o Pre(val \div (10 * divisor')) /\ val' = val % (10 * divisor')
      BY Zenon, <1>1, <2>1, <3>7, <3>8 DEF t
    <3> QED
      BY ZenonT(30), <1>1, <1>2, <2>1, <3>1, <3>9, <3>10 DEF Printing
  <2>3. DigitsInv'
    <3>1. ASSUME NoMin' PROVE \E o \in Seq(Sym), u \in 0..MaxInt :
                     /\ Printing(o, u)'
                     /\ o \o (Numeral(u, 10) \o Rest(m - 2, j + 1)') = Full'
      BY ZenonT(30), <1>1, <1>2, <1>3, <1>4, <2>2, <3>1
    <3> QED
      BY Zenon, <1>2, <1>3, <1>4, <2>1, <3>1 DEF DigitsInv
  <2>4. /\ phase' \in {"format", "grow", "digits", "end"}
        /\ phase' # "format" /\ phase' # "grow" /\ phase' # "end"
    BY Zenon, <2>1
  <2> QED
    BY Zenon, <1>1, <1>2, <2>1, <2>3, <2>4 DEF PrintfInv
<1> QED
  BY Zenon, <1>7, <1>8

(* A digit is printed; after the last one the conversion is complete. *)
LEMMA EmitStep ==
  ASSUME PrintfInv, EmitDigit
  PROVE  PrintfInv'
<1>1. /\ phase = "digits" /\ call' = call
      /\ IF divisor > 0
           THEN /\ out' = Append(out, DigitOf(Quotient(val, divisor)))
                /\ val' = val - divisor * Quotient(val, divisor)
                /\ divisor' = Quotient(divisor, 10)
                /\ fmt' = fmt /\ args' = args /\ phase' = phase
           ELSE /\ phase' = "format" /\ fmt' = Skip2 /\ args' = Tail(args)
                /\ out' = out /\ val' = val /\ divisor' = divisor
  BY Zenon DEF EmitDigit
<1>2. /\ divisor = 0 \/ divisor \in Tens
      /\ Suits(call.fmt, call.args) /\ out \in Seq(Sym) /\ divisor \in 0..MaxInt
  BY Zenon, <1>1 DEF PrintfInv, DigitsInv
<1>3. PICK m, j \in Nat :
        /\ Left(m, j) /\ 2 <= m
        /\ NoMin => \E o \in Seq(Sym), u \in 0..MaxInt :
                      /\ Printing(o, u)
                      /\ o \o (Numeral(u, 10) \o Rest(m - 2, j + 1)) = Full
  BY Zenon, <1>1 DEF PrintfInv, DigitsInv
<1> DEFINE R == Rest(m - 2, j + 1)
<1>4. NoMin' = NoMin /\ Full' = Full /\ Rest(m - 2, j + 1)' = R
  BY Zenon, <1>1 DEF NoMin, Full, Rest
<1>5. divisor \in Nat /\ (divisor > 0 <=> divisor # 0)
  BY <1>2, IntFacts
<1>6. CASE divisor = 0
  <2>1. /\ phase' = "format" /\ fmt' = Skip2 /\ args' = Tail(args)
        /\ out' = out /\ divisor' = divisor
    BY Zenon, <1>1, <1>5, <1>6
  <2>2. Left(m - 2, j + 1)'
    <3>1. 1 \in {0, 1} /\ args' = IF 1 = 0 THEN args ELSE Tail(args)
      BY <2>1
    <3> QED
      BY ZenonT(30), <1>1, <1>2, <1>3, <2>1, <3>1, LeftSkip
  <2>3. m - 2 \in Nat /\ j + 1 \in Nat /\ j \in Nat \ {0}
        /\ m - 2 \in 0..Len(call.fmt) /\ 2 * ((j + 1) - 1) + (m - 2) <= Len(call.fmt)
    <3>1. /\ m \in 0..Len(call.fmt) /\ 2 * (j - 1) + m <= Len(call.fmt) /\ Len(call.fmt) \in Nat
          /\ j \in Nat \ {0}
      BY Zenon, <1>2, <1>3, LeftLen DEF Left
    <3> QED
      BY <1>3, <3>1
  <2>4. R \in Seq(Sym)
    <3>1. j + 1 \in Nat \ {0}
      BY <2>3
    <3> QED
      BY Zenon, <1>2, <2>3, <3>1, MeaningSeq DEF Rest
  <2> HIDE DEF R
  <2>5. ASSUME NoMin PROVE out' \o R = Full
    <3>1. PICK o \in Seq(Sym), u \in 0..MaxInt : Printing(o, u) /\ o \o (Numeral(u, 10) \o R) = Full
      BY Zenon, <1>3, <2>5 DEF R
    <3>2. out = o \o Numeral(u, 10)
      BY Zenon, <1>6, <3>1 DEF Printing
    <3>3. Numeral(u, 10) \in Seq(Sym)
      <4>1. 10 \in 2..16 /\ u \in 0..(2^Bits - 1)
        BY IntFacts
      <4> QED
        BY Zenon, <4>1, NumeralSeq
    <3>4. (o \o Numeral(u, 10)) \o R = o \o (Numeral(u, 10) \o R)
      BY Zenon, <2>4, <3>3, JoinAssoc
    <3> QED
      BY Zenon, <2>1, <3>1, <3>2, <3>4
  <2> QED
    BY ZenonT(30), <1>1, <1>2, <2>1, <2>2, <2>3, <2>5, FormatKept DEF R
<1>7. CASE divisor # 0
  <2> DEFINE d == divisor
             e == DigitOf(Quotient(val, d))
  <2>1. /\ out' = Append(out, e) /\ val' = val - d * Quotient(val, d)
        /\ divisor' = Quotient(d, 10) /\ fmt' = fmt /\ args' = args /\ phase' = "digits"
    BY Zenon, <1>1, <1>5, <1>7
  <2>2. d \in Tens /\ d \in Nat \ {0} /\ (d # 1 => d \div 10 \in Tens /\ d = 10 * (d \div 10))
    BY Zenon, <1>2, <1>7, TensStep
  <2>3. e \in Sym
    BY Zenon, SymHas DEF DigitOf
  <2>4. out' \in Seq(Sym)
    BY Zenon, <1>2, <2>1, <2>3, AddSeq
  <2>5. divisor' = d \div 10
    <3>1. 10 \in Nat \ {0}
      OBVIOUS
    <3> QED
      BY ZenonT(30), <1>5, <2>1, <3>1, QuotientNat
  <2>6. divisor' \in 0..MaxInt /\ (d = 1 => divisor' = 0) /\ (d # 1 => divisor' # 0)
    <3>1. d \div 10 \in Nat /\ d \div 10 <= d /\ (d = 1 => d \div 10 = 0)
      BY <1>5
    <3>2. d # 1 => d \div 10 # 0
      BY <2>2, <3>1
    <3> QED
      BY <1>2, <2>5, <3>1, <3>2, IntFacts
  <2>7. divisor' = 0 \/ divisor' \in Tens
    BY Zenon, <2>2, <2>5, <2>6
  <2>8. Left(m, j)'
    BY Zenon, <1>1, <1>3, <2>1 DEF Left
  <2> HIDE DEF d, R
  <2>9. ASSUME NoMin, NEW o \in Seq(Sym), NEW u \in 0..MaxInt, Printing(o, u)
        PROVE  Printing(o, u)'
    <3> DEFINE P == Pre(u \div (10 * d))
               q == val \div d
    <3>1. (d = 1 \/ d <= u) /\ out = o \o P /\ val = u % (10 * d)
      BY Zenon, <1>7, <2>9 DEF Printing, d
    <3>2. /\ val \in Nat /\ q \in 0..9 /\ val - d * q = u % d
          /\ Append(P, Digits[q + 1]) = IF d = 1 THEN Numeral(u, 10) ELSE Pre(u \div d)
      BY Zenon, <2>2, <3>1, DigitTurn
    <3>3. P \in Seq(Sym)
      <4>1. u \in Nat /\ 10 * d \in Nat \ {0} /\ u \in 0..(2^Bits - 1)
        BY <2>2, IntFacts
      <4>2. u \div (10 * d) \in 0..(2^Bits - 1)
        <5>1. u \div (10 * d) = (u \div d) \div 10 /\ u \div d \in Nat
          BY ZenonT(30), <2>2, <4>1, TenTimes, DivNat
        <5>2. u = d * (u \div d) + (u % d) /\ u % d \in 0..(d - 1)
          BY Zenon, <2>2, <4>1, DivNat
        <5> DEFINE k == u \div d
        <5>3. k \in Nat /\ u = d * k + (u % d)
          BY Zenon, <5>1, <5>2
        <5> HIDE DEF k
        <5>4. k <= d * k /\ d * k \in Nat
          BY <2>2, <5>3
        <5>5. k <= u
          BY <4>1, <5>2, <5>3, <5>4
        <5>6. k \div 10 \in 0..(2^Bits - 1)
          BY <4>1, <5>3, <5>5, IntFacts
        <5> QED
          BY Zenon, <5>1, <5>6 DEF k
      <4> QED
        BY Zenon, <4>2, PreSeq
    <3>4. e = Digits[q + 1] /\ val' = u % d /\ Digits[q + 1] \in Sym
      <4>1. Quotient(val, d) = q
        BY Zenon, <2>2, <3>2, QuotientNat
      <4> QED
        BY Zenon, <2>1, <3>2, <4>1, SymHas DEF DigitOf
    <3> HIDE DEF P, q, e
    <3>5. out' = o \o Append(P, Digits[q + 1])
      <4>1. Append(o \o P, Digits[q + 1]) = o \o Append(P, Digits[q + 1])
        BY Zenon, <3>3, <3>4, JoinAdd
      <4> QED
        BY Zenon, <2>1, <3>1, <3>4, <4>1
    <3>6. CASE d = 1
      BY Zenon, <2>6, <3>2, <3>5, <3>6 DEF Printing
    <3>7. CASE d # 1
      <4>1. 10 * divisor' = d /\ divisor' # 0
        BY Zenon, <2>2, <2>5, <2>6, <3>7
      <4>2. out' = o \o Pre(u \div (10 * divisor')) /\ val' = u % (10 * divisor')
        BY ZenonT(30), <3>2, <3>4, <3>5, <3>7, <4>1
      <4>3. divisor' <= u
        <5>1. d <= u /\ divisor' \in Nat /\ u \in Nat
          BY <2>6, <3>1, <3>7, IntFacts
        <5> DEFINE k == divisor'
        <5>2. k \in Nat /\ 10 * k <= u
          BY Zenon, <4>1, <5>1
        <5> HIDE DEF k
        <5>3. k <= u
          BY <5>1, <5>2
        <5> QED
          BY Zenon, <5>3 DEF k
      <4> QED
        BY Zenon, <4>1, <4>2, <4>3 DEF Printing
    <3> QED
      BY Zenon, <3>6, <3>7
  <2>10. ASSUME NoMin PROVE \E o \in Seq(Sym), u \in 0..MaxInt :
                              Printing(o, u)' /\ o \o (Numeral(u, 10) \o R) = Full
    <3>1. PICK o \in Seq(Sym), u \in 0..MaxInt : Printing(o, u) /\ o \o (Numeral(u, 10) \o R) = Full
      BY Zenon, <1>3, <2>10 DEF R
    <3> QED
      BY ZenonT(30), <2>9, <2>10, <3>1
  <2>11. DigitsInv'
    BY ZenonT(30), <1>3, <1>4, <2>7, <2>8, <2>10 DEF DigitsInv
  <2>12. /\ phase' \in {"format", "grow", "digits", "end"}
         /\ phase' # "format" /\ phase' # "grow" /\ phase' # "end"
    BY Zenon, <2>1
  <2>13. Suits(call'.fmt, call'.args)
    BY Zenon, <1>1, <1>2
  <2> QED
    BY ZenonT(30), <2>4, <2>6, <2>11, <2>12, <2>13 DEF PrintfInv
<1> QED
  BY Zenon, <1>6, <1>7

(* The invariant holds when printf is called. *)
LEMMA PrintfStart == PrintfInit => PrintfInv
<1> SUFFICES ASSUME PrintfInit PROVE PrintfInv
  BY Zenon
<1>1. /\ fmt \in UNION {[1..n -> FormatChar] : n \in 0..MaxLen}
      /\ args \in [1..(MaxLen \div 2) -> Values]
      /\ out = <<>> /\ divisor = 0 /\ phase = "format"
      /\ call.fmt = fmt /\ call.args = args
  BY Zenon DEF PrintfInit
<1>2. MaxLen \in Nat /\ Values \subseteq Ints /\ MaxLen <= 2 * (MaxLen \div 2) + 1
  BY PrintfAssumption DEF Ints
<1>3. fmt \in Seq(FormatChar) /\ Len(fmt) \in Nat /\ Len(fmt) <= MaxLen
  <2>1. PICK n \in 0..MaxLen : fmt \in [1..n -> FormatChar]
    BY Zenon, <1>1
  <2> QED
    BY <1>2, <2>1
<1>4. args \in Seq(Ints) /\ Len(args) = MaxLen \div 2
  <2>1. MaxLen \div 2 \in Nat
    BY <1>2
  <2>2. args \in [1..(MaxLen \div 2) -> Ints]
    BY Zenon, <1>1, <1>2
  <2> QED
    BY <2>1, <2>2
<1>5. Suits(call.fmt, call.args)
  BY <1>1, <1>2, <1>3, <1>4 DEF Suits
<1>6. \A S : \A s \in Seq(S) : Suffix(s, s, 0)
  BY DEF Suffix
<1> DEFINE m == Len(fmt)
<1>7. Left(m, 1)
  <2>1. m \in 0..m /\ 1 \in Nat \ {0} /\ 2 * (1 - 1) + m <= m /\ m - m = 0 /\ 1 - 1 = 0
    BY <1>3
  <2>2. Suffix(fmt, fmt, 0) /\ Suffix(args, args, 0)
    BY Zenon, <1>3, <1>4, <1>6
  <2> QED
    BY Zenon, <1>1, <1>3, <1>4, <2>1, <2>2 DEF Left
<1>8. out \o Rest(m, 1) = Full
  <2>1. Rest(m, 1) \in Seq(Sym)
    BY Zenon, <1>5, <1>7, RestIs
  <2>2. Rest(m, 1) = Full
    BY Zenon, <1>1 DEF Rest, Full, Reference
  <2> QED
    BY Zenon, <1>1, <2>1, <2>2, JoinNil
<1>9. FormatInv
  <2>1. 1 \in Nat
    BY Zenon
  <2> QED
    BY Zenon, <1>3, <1>7, <1>8, <2>1 DEF FormatInv
<1>10. out \in Seq(Sym) /\ divisor \in 0..MaxInt
  BY <1>1, IntFacts
<1>11. /\ phase \in {"format", "grow", "digits", "end"}
       /\ phase # "grow" /\ phase # "digits" /\ phase # "end"
  BY Zenon, <1>1
<1> QED
  BY Zenon, <1>5, <1>9, <1>10, <1>11 DEF PrintfInv

(* It is about the variables of printf only. *)
LEMMA PrintfStutter ==
  ASSUME PrintfInv, UNCHANGED printf_vars
  PROVE  PrintfInv'
<1>1. /\ fmt' = fmt /\ args' = args /\ out' = out /\ val' = val /\ divisor' = divisor
      /\ phase' = phase /\ call' = call
  BY Zenon DEF printf_vars
<1>2. NoMin' = NoMin /\ Full' = Full /\ \A m, j : Rest(m, j)' = Rest(m, j)
  BY Zenon, <1>1 DEF NoMin, Full, Rest
<1>3. \A m, j : Left(m, j) => Left(m, j)'
  BY Zenon, <1>1 DEF Left
<1>4. \A o, u : Printing(o, u) => Printing(o, u)'
  BY Zenon, <1>1 DEF Printing
<1>5. FormatInv => FormatInv'
  BY Zenon, <1>1, <1>2, <1>3 DEF FormatInv
<1>6. GrowInv => GrowInv'
  BY Zenon, <1>1, <1>2, <1>3 DEF GrowInv
<1>7. DigitsInv => DigitsInv'
  BY Zenon, <1>1, <1>2, <1>3, <1>4 DEF DigitsInv
<1> QED
  BY Zenon, <1>1, <1>2, <1>5, <1>6, <1>7 DEF PrintfInv

(* It holds throughout the run of printf. *)
LEMMA PrintfInvariance == PrintfSpec => []PrintfInv
<1>1. ASSUME PrintfInv, [PrintfNext]_printf_vars PROVE PrintfInv'
  <2>1. CASE UNCHANGED printf_vars
    BY Zenon, <1>1, <2>1, PrintfStutter
  <2>2. CASE PrintfNext
    BY ZenonT(30), <1>1, <2>1, <2>2, TextStep, AtOnceStep, DecimalStep, GrowStep, EmitStep
       DEF PrintfNext, Done
  <2> QED
    BY Zenon, <1>1, <2>1, <2>2
<1> QED
  BY <1>1, PrintfStart, PTL DEF PrintfSpec

(* printf prints what its format says, for every format of text, conversions
   and stray percent signs with enough arguments, for every width of int that
   is a multiple of four, and for every int but the least; and the divisor of
   %d stays in the range of an int, whatever the negation of the least int
   yields. *)
THEOREM PrintfPrintsReference == PrintfSpec => []PrintsReference
<1>1. PrintfInv => PrintsReference
  <2>1. ASSUME divisor \in 0..MaxInt PROVE divisor <= MaxInt
    BY <2>1, IntFacts
  <2> QED
    BY Zenon, <2>1 DEF PrintfInv, PrintsReference, NoMin, Full
<1> QED
  BY <1>1, PrintfInvariance, PTL

=============================================================================
