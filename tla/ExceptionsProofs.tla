--------------------------- MODULE ExceptionsProofs ---------------------------
(***************************************************************************)
(* Proofs about Exceptions, for every number of priorities, every size of  *)
(* the stack, every vector table and every set of instructions, and about  *)
(* the history of TrapHistory, for every width of the counts.              *)
(***************************************************************************)
EXTENDS TrapHistory, SequenceTheorems, TLAPS

USE WidthAssumption, VectorAssumption
-----------------------------------------------------------------------------
(* Words, counts and the stack as a sequence.                              *)

LEMMA PlusWord ==
    ASSUME NEW w \in Words, NEW n \in Words
    PROVE  Plus(w, n) \in Words
<1>1. \A a \in Nat, m \in Nat \ {0} : a % m \in 0 .. (m - 1)
  BY SMT
<1>. QED
  BY <1>1 DEF Plus, Words

LEMMA PlusTwoWord ==
    ASSUME NEW w \in Words
    PROVE  Plus(w, 2) \in Words
<1>1. \A a \in Nat, m \in Nat \ {0} : a % m \in 0 .. (m - 1)
  BY SMT
<1>. QED
  BY <1>1 DEF Plus, Words

Psw == [current : Priority, faulting : BOOLEAN]
Cxs == [true_count : Counts, false_count : Counts]

LEMMA UnblockedCounts ==
    ASSUME cex \in Cxs
    PROVE  Unblocked \in Cxs
  BY DEF Unblocked, Cxs, Counts

LEMMA NoCexCounts == NoCex \in Cxs
  BY DEF NoCex, Cxs, Counts

(* Pushing and pulling.                                                    *)
LEMMA Pushed ==
    ASSUME NEW S, NEW s \in Seq(S), NEW x \in S
    PROVE  /\ Append(s, x) \in Seq(S)
           /\ Len(Append(s, x)) = Len(s) + 1
           /\ Append(s, x)[Len(s) + 1] = x
           /\ \A k \in 1 .. Len(s) : Append(s, x)[k] = s[k]
  OBVIOUS

LEMMA Pulled ==
    ASSUME NEW S, NEW s \in Seq(S), s # <<>>
    PROVE  /\ SubSeq(s, 1, Len(s) - 1) \in Seq(S)
           /\ Len(SubSeq(s, 1, Len(s) - 1)) = Len(s) - 1
           /\ Len(s) \in Nat \ {0}
           /\ \A k \in 1 .. (Len(s) - 1) : SubSeq(s, 1, Len(s) - 1)[k] = s[k]
           /\ s[Len(s)] \in S
<1>. DEFINE n == Len(s) - 1
<1>1. Len(s) \in Nat \ {0} /\ \A i \in 1 .. Len(s) : s[i] \in S
  BY EmptySeq
<1>2. /\ SubSeq(s, 1, n) \in Seq(S)
      /\ Len(SubSeq(s, 1, n)) = IF 1 <= n THEN n - 1 + 1 ELSE 0
      /\ \A i \in 1 .. n - 1 + 1 : SubSeq(s, 1, n)[i] = s[1 + i - 1]
  BY <1>1, SubSeqProperties
<1>3. n - 1 + 1 = n /\ n \in Nat /\ \A i \in 1 .. n : 1 + i - 1 = i
  BY <1>1
<1>. QED
  BY <1>1, <1>2, <1>3
-----------------------------------------------------------------------------
(* Types.                                                                  *)

LEMMA InitTyped == Init => TypeOK
<1>. SUFFICES ASSUME Init PROVE TypeOK
  OBVIOUS
<1>1. regfile \in [Regs -> Words]
  BY DEF Init, Regs, Words
<1>2. psw \in Psw /\ cex \in Cxs
  BY NoCexCounts DEF Init, Psw, Priority
<1>3. stack \in Seq(FrameType) /\ Len(stack) <= StackSize
  BY DEF Init
<1>. QED
  BY <1>1, <1>2, <1>3 DEF Init, TypeOK, NoCall, Psw, Cxs, Priority

LEMMA EnterHandlerTyped ==
    ASSUME TypeOK, NEW v \in Vectors, EnterHandler(v)
    PROVE  /\ regfile' \in [Regs -> Words]
           /\ psw' \in Psw /\ cex' \in Cxs
           /\ stack' \in Seq(FrameType)
           /\ stack' # <<>> /\ Len(stack') = Len(stack) + 1
<1>1. Frame \in FrameType
  BY DEF TypeOK, Frame, FrameType, PC, LR, Regs
<1>2. i_vec_table[v] \in Vector
  BY DEF TypeOK
<1>3. psw' \in Psw
  BY <1>2 DEF EnterHandler, Psw, Vector, Pri
<1>4. regfile' \in [Regs -> Words]
  <2>1. i_vec_table[v].address \in Words /\ MaxWord \in Words
    BY <1>2 DEF Vector, Words
  <2>. QED
    BY <2>1 DEF EnterHandler, TypeOK
<1>5. stack' \in Seq(FrameType) /\ stack' # <<>> /\ Len(stack') = Len(stack) + 1
  BY <1>1, Pushed DEF EnterHandler, TypeOK
<1>. QED
  BY <1>3, <1>4, <1>5, NoCexCounts DEF EnterHandler

LEMMA TypeInvariant == TypeOK /\ [Next]_vars => TypeOK'
<1>. SUFFICES ASSUME TypeOK, [Next]_vars
              PROVE  TypeOK'
  OBVIOUS
<1>. USE DEF TypeOK
<1>1. CASE Fault
  BY <1>1 DEF Fault, CallFault, Dead
<1>2. CASE SupervisoryCall
  <2>1. CASE Len(stack) = StackSize
    BY <1>2, <2>1 DEF SupervisoryCall, Dead
  <2>2. CASE Len(stack) # StackSize
    <3>1. EnterHandler(call.vector) /\ call.vector \in Vectors
      BY <1>2, <2>2 DEF SupervisoryCall
    <3>2. /\ regfile' \in [Regs -> Words]
          /\ psw' \in Psw /\ cex' \in Cxs
          /\ stack' \in Seq(FrameType) /\ Len(stack') <= StackSize
      <4>1. Len(stack) \in Nat /\ Len(stack) + 1 <= StackSize
        BY <2>2
      <4>. QED
        BY <3>1, <4>1, EnterHandlerTyped
    <3>3. /\ at' \in {"fault", "fetch", "fetched", "set_priority"}
          /\ call' \in [vector : Vectors, ret : {"fetch", "fetched", "set_priority"},
                        new_pri : Priority]
      BY <1>2, <2>2 DEF SupervisoryCall, CallFault, NoCall, Priority
    <3>. QED
      BY <1>2, <3>2, <3>3 DEF SupervisoryCall, Psw, Cxs
  <2>. QED
    BY <2>1, <2>2
<1>3. CASE TakePriority
  BY <1>3 DEF TakePriority, NoCall, Priority
<1>4. CASE Fetch
  <2>1. PC \in Words
    BY DEF PC, Regs
  <2>2. CASE Advance
    BY <2>1, <2>2, PlusTwoWord DEF Advance
  <2>3. CASE FetchOdd
    BY <2>3 DEF FetchOdd, CallFault, Priority
  <2>. QED
    BY <1>4, <2>2, <2>3 DEF Fetch, FetchEven, FetchResumed
<1>5. CASE Execute
  <2>0. Unblocked \in Cxs /\ NoCex \in Cxs
    BY UnblockedCounts, NoCexCounts DEF Cxs
  <2>1. CASE Skip
    BY <2>1 DEF Skip, Blocked, Counts
  <2>2. ASSUME NEW values \in [Regs -> Words], WriteRegs(values)
        PROVE  TypeOK'
    BY <2>0, <2>2 DEF WriteRegs, Cxs
  <2>3. ASSUME NEW d \in Regs, NEW s \in Regs, Move(d, s)
        PROVE  TypeOK'
    <3>1. CASE Return(d, s)
      <4>1. /\ stack' \in Seq(FrameType) /\ Len(stack') <= StackSize
            /\ Top \in FrameType
        BY <3>1, Pulled DEF Return, Top, Below
      <4>2. /\ regfile' \in [Regs -> Words]
        BY <3>1, <4>1 DEF Return, FrameType
      <4>. QED
        BY <3>1, <4>1, <4>2 DEF Return, FrameType
    <3>2. CASE ReturnUnderflow(d, s)
      BY <2>0, <3>2 DEF ReturnUnderflow, Cxs, Dead
    <3>3. CASE Copy(d, s)
      BY <2>0, <3>3 DEF Copy, Cxs
    <3>. QED
      BY <2>3, <3>1, <3>2, <3>3 DEF Move
  <2>4. ASSUME NEW n \in Words, NEW link \in BOOLEAN, Branch(n, link)
        PROVE  TypeOK'
    <3>1. PC \in Words /\ LR \in Words /\ Plus(PC, n) \in Words
      BY PlusWord DEF PC, LR, Regs
    <3>. QED
      BY <2>0, <2>4, <3>1 DEF Branch, Cxs
  <2>5. ASSUME NEW t \in Counts, NEW f \in Counts, Cex(t, f)
        PROVE  TypeOK'
    BY <2>0, <2>5 DEF Cex, Cxs
  <2>6. ASSUME NEW v \in Vectors, Svc(v)
        PROVE  TypeOK'
    BY <2>0, <2>6 DEF Svc, Cxs, Priority
  <2>7. CASE Illegal
    BY <2>0, <2>7 DEF Illegal, CallFault, Cxs, Priority
  <2>8. ASSUME NEW p \in Priority, SetPri(p)
        PROVE  TypeOK'
    BY <2>0, <2>8 DEF SetPri, CallFault, Cxs
  <2>. QED
    BY <1>5, <2>1, <2>2, <2>3, <2>4, <2>5, <2>6, <2>7, <2>8 DEF Execute
<1>6. CASE UNCHANGED vars
  BY <1>6 DEF vars
<1>. QED
  BY <1>1, <1>2, <1>3, <1>4, <1>5, <1>6 DEF Next, Internal

(* The state of the exception machinery is well typed in every behaviour.  *)
THEOREM TypeCorrect == Spec => []TypeOK
  BY InitTyped, TypeInvariant, PTL DEF Spec
-----------------------------------------------------------------------------
(* The program that handlers interrupt runs at priority 0.                 *)

BaseInv ==
    /\ BaseAtZero
    /\ at = "set_priority" => stack # <<>>

LEMMA BaseInvariant == TypeOK /\ BaseInv /\ [Next]_vars => BaseInv'
<1>. SUFFICES ASSUME TypeOK, BaseInv, [Next]_vars
              PROVE  BaseInv'
  OBVIOUS
<1>. USE DEF BaseInv, BaseAtZero, BasePriority
<1>0. Len(stack) \in Nat /\ (stack # <<>> => Len(stack) >= 1)
  BY EmptySeq DEF TypeOK
<1>1. CASE Fault
  BY <1>1 DEF Fault, CallFault
<1>2. CASE SupervisoryCall
  <2>1. CASE Len(stack) = StackSize
    BY <1>2, <2>1 DEF SupervisoryCall
  <2>2. CASE Len(stack) # StackSize
    <3>1. EnterHandler(call.vector) /\ call.vector \in Vectors
      BY <1>2, <2>2 DEF SupervisoryCall, TypeOK
    <3>2. Frame \in FrameType /\ Frame.psw = psw
      BY DEF TypeOK, Frame, FrameType, PC, LR, Regs
    <3>3. stack' # <<>> /\ stack' = Append(stack, Frame)
      BY <3>1, EnterHandlerTyped DEF EnterHandler
    <3>4. stack'[1].psw.current = 0
      <4>1. CASE stack = <<>>
        BY <3>2, <3>3, <4>1
      <4>2. CASE stack # <<>>
        BY <1>0, <3>2, <3>3, <4>2, Pushed DEF TypeOK
      <4>. QED
        BY <4>1, <4>2
    <3>. QED
      BY <3>3, <3>4
  <2>. QED
    BY <2>1, <2>2
<1>3. CASE TakePriority
  BY <1>3 DEF TakePriority
<1>4. CASE Fetch
  BY <1>4 DEF Fetch, FetchEven, FetchResumed, FetchOdd, Advance, CallFault
<1>5. CASE Execute
  <2>1. CASE Skip
    BY <2>1 DEF Skip
  <2>2. ASSUME NEW values \in [Regs -> Words], WriteRegs(values)
        PROVE  BaseInv'
    BY <2>2 DEF WriteRegs
  <2>3. ASSUME NEW d \in Regs, NEW s \in Regs, Move(d, s)
        PROVE  BaseInv'
    <3>1. CASE Return(d, s)
      <4>1. /\ stack' = Below /\ psw' = Top.psw /\ at' = "fetch" /\ stack # <<>>
        BY <3>1 DEF Return
      <4>2. /\ Len(stack') = Len(stack) - 1
            /\ \A k \in 1 .. (Len(stack) - 1) : stack'[k] = stack[k]
            /\ stack' \in Seq(FrameType)
        BY <4>1, Pulled DEF Below, TypeOK
      <4>3. CASE Len(stack) = 1
        BY <4>1, <4>2, <4>3, EmptySeq DEF Top
      <4>4. CASE Len(stack) # 1
        BY <1>0, <4>1, <4>2, <4>4
      <4>. QED
        BY <4>3, <4>4
    <3>2. CASE ReturnUnderflow(d, s)
      BY <3>2 DEF ReturnUnderflow
    <3>3. CASE Copy(d, s)
      BY <3>3 DEF Copy
    <3>. QED
      BY <2>3, <3>1, <3>2, <3>3 DEF Move
  <2>4. ASSUME NEW n \in Words, NEW link \in BOOLEAN, Branch(n, link)
        PROVE  BaseInv'
    BY <2>4 DEF Branch
  <2>5. ASSUME NEW t \in Counts, NEW f \in Counts, Cex(t, f)
        PROVE  BaseInv'
    BY <2>5 DEF Cex
  <2>6. ASSUME NEW v \in Vectors, Svc(v)
        PROVE  BaseInv'
    BY <2>6 DEF Svc
  <2>7. CASE Illegal
    BY <2>7 DEF Illegal, CallFault
  <2>8. ASSUME NEW p \in Priority, SetPri(p)
        PROVE  BaseInv'
    <3>1. psw.current = 0 /\ p <= psw.current => p = 0
      BY DEF Priority
    <3>. QED
      BY <2>8, <3>1 DEF SetPri, CallFault, TypeOK, Priority
  <2>. QED
    BY <1>5, <2>1, <2>2, <2>3, <2>4, <2>5, <2>6, <2>7, <2>8 DEF Execute
<1>6. CASE UNCHANGED vars
  BY <1>6 DEF vars
<1>. QED
  BY <1>1, <1>2, <1>3, <1>4, <1>5, <1>6 DEF Next, Internal

(* Neither its own instructions nor the handlers that interrupt it ever    *)
(* raise the priority of the program at the bottom.                        *)
THEOREM BaseAtZeroCorrect == Spec => []BaseAtZero
<1>1. Init => BaseInv
  BY DEF Init, BaseInv, BaseAtZero, BasePriority
<1>2. BaseInv => BaseAtZero
  BY DEF BaseInv
<1>. QED
  BY <1>1, <1>2, BaseInvariant, TypeCorrect, PTL DEF Spec
(* A fetch that goes on after its fault finds the address of the last      *)
(* handler entered in the PC.                                              *)
ResumedEven == EvenHandlers /\ at = "fetched" => ~Odd(PC)

LEMMA ResumedEvenInvariant ==
    TypeOK /\ ResumedEven /\ [Next]_vars => ResumedEven'
<1>. SUFFICES ASSUME TypeOK, ResumedEven, [Next]_vars
              PROVE  ResumedEven'
  OBVIOUS
<1>1. CASE Fault
  BY <1>1 DEF Fault, CallFault, ResumedEven
<1>2. CASE SupervisoryCall
  <2>1. CASE Len(stack) = StackSize
    BY <1>2, <2>1 DEF SupervisoryCall, ResumedEven
  <2>2. CASE Len(stack) # StackSize
    <3>1. PC' = i_vec_table[call.vector].address /\ i_vec_table' = i_vec_table
      BY <1>2, <2>2 DEF SupervisoryCall, EnterHandler, TypeOK, PC, Regs
    <3>. QED
      BY <3>1 DEF ResumedEven, EvenHandlers, TypeOK, Odd
  <2>. QED
    BY <2>1, <2>2
<1>3. CASE TakePriority
  BY <1>3 DEF TakePriority, ResumedEven
<1>4. CASE Fetch
  BY <1>4 DEF Fetch, FetchEven, FetchResumed, FetchOdd, Advance, CallFault, ResumedEven
<1>5. CASE Execute
  <2>1. at' # "fetched"
    BY <1>5 DEF Execute, Skip, WriteRegs, Move, Return, ReturnUnderflow, Copy, Branch,
                Cex, Svc, Illegal, SetPri, CallFault
  <2>. QED
    BY <2>1 DEF ResumedEven
<1>6. CASE UNCHANGED vars
  BY <1>6 DEF vars, ResumedEven, EvenHandlers, PC
<1>. QED
  BY <1>1, <1>2, <1>3, <1>4, <1>5, <1>6 DEF Next, Internal

LEMMA FetchStep ==
    TypeOK /\ ResumedEven /\ [Next]_vars => [EvenHandlers /\ Advance => ~Odd(PC)]_vars
<1>. SUFFICES ASSUME TypeOK, ResumedEven, Next, EvenHandlers, Advance
              PROVE  ~Odd(PC)
  OBVIOUS
<1>1. CASE Fetch
  BY <1>1 DEF Fetch, FetchEven, FetchResumed, FetchOdd, Advance, CallFault, ResumedEven
<1>2. CASE Internal
  BY <1>2 DEF Internal, Fault, SupervisoryCall, TakePriority, CallFault, Advance, TypeOK
<1>3. CASE Execute
  BY <1>3 DEF Execute, Skip, WriteRegs, Move, Return, ReturnUnderflow, Copy, Branch,
              Cex, Svc, Illegal, SetPri, CallFault, Advance
<1>. QED
  BY <1>1, <1>2, <1>3 DEF Next

(* Only fetch reads a word; with handlers at even addresses never from an  *)
(* odd one, though it does not look at the PC again after a fault.         *)
THEOREM FetchesEvenCorrect == Spec => FetchesEven
<1>1. Init => ResumedEven
  BY DEF Init, ResumedEven
<1>. QED
  BY <1>1, FetchStep, ResumedEvenInvariant, TypeCorrect, PTL DEF Spec, FetchesEven
-----------------------------------------------------------------------------
(* Polite programs: from frame to frame up to the current one priorities   *)
(* rise, starting no lower than 0, so there are no more frames than levels *)
(* below the current one.                                                  *)

Nested ==
    /\ \A k \in 1 .. Len(stack) : stack[k].psw.current >= k - 1
    /\ \A k \in 1 .. (Len(stack) - 1) :
          stack[k].psw.current < stack[k + 1].psw.current
    /\ stack # <<>> => Top.psw.current < psw.current

(* The calls under way keep it so.                                         *)
CallsOutrank ==
    /\ at = "supervisory_call" => Outranks(call.vector)
    /\ at = "fault" /\ ~psw.faulting => Outranks(call.vector)
    /\ at \in {"fault", "supervisory_call"} /\ call.ret = "set_priority" =>
          call.new_pri > psw.current
    /\ at = "set_priority" => stack # <<>> /\ call.new_pri > Top.psw.current

LEMMA TopTyped ==
    ASSUME TypeOK, stack # <<>>
    PROVE  Top.psw.current \in Nat
<1>1. Top \in FrameType
  BY Pulled DEF TypeOK, Top
<1>. QED
  BY <1>1 DEF FrameType, Priority

LEMMA NestedDepth == TypeOK /\ Nested => Len(stack) <= psw.current
<1>. SUFFICES ASSUME TypeOK, Nested
              PROVE  Len(stack) <= psw.current
  BY DEF StackWithinPriorities
<1>1. psw.current \in Nat /\ Len(stack) \in Nat
  BY DEF TypeOK, Priority
<1>2. CASE stack = <<>>
  BY <1>1, <1>2
<1>3. CASE stack # <<>>
  <2>1. Len(stack) \in 1 .. Len(stack) /\ Top \in FrameType
    BY <1>3, Pulled DEF TypeOK, Top
  <2>2. Top.psw.current >= Len(stack) - 1 /\ Top.psw.current < psw.current
    BY <1>3, <2>1 DEF Nested, Top
  <2>. QED
    BY <1>1, <2>1, <2>2 DEF FrameType, Priority
<1>. QED
  BY <1>2, <1>3

(* Pushing the frame of an outranked program, and pulling the top frame.   *)
LEMMA PushNested ==
    ASSUME TypeOK, Nested, stack' = Append(stack, Frame),
           psw'.current \in Nat, psw.current < psw'.current
    PROVE  Nested' /\ stack' # <<>> /\ Top'.psw.current = psw.current
<1>1. Frame \in FrameType /\ Frame.psw = psw
  BY DEF TypeOK, Frame, FrameType, PC, LR, Regs
<1>2. /\ Len(stack) \in Nat /\ Len(stack') = Len(stack) + 1
      /\ stack'[Len(stack) + 1] = Frame
      /\ \A k \in 1 .. Len(stack) : stack'[k] = stack[k]
      /\ stack' # <<>>
  BY <1>1, Pushed, EmptySeq DEF TypeOK
<1>3. Len(stack) <= psw.current /\ psw.current \in Nat
  BY NestedDepth DEF StackWithinPriorities, TypeOK, Priority
<1>4. \A k \in 1 .. Len(stack') : stack'[k].psw.current >= k - 1
  <2>. TAKE k \in 1 .. Len(stack')
  <2>1. CASE k = Len(stack) + 1
    BY <1>1, <1>2, <1>3, <2>1
  <2>2. CASE k # Len(stack) + 1
    <3>1. k \in 1 .. Len(stack)
      BY <1>2, <2>2
    <3>. QED
      BY <1>2, <3>1 DEF Nested
  <2>. QED
    BY <2>1, <2>2
<1>5. \A k \in 1 .. (Len(stack') - 1) :
          stack'[k].psw.current < stack'[k + 1].psw.current
  <2>. TAKE k \in 1 .. (Len(stack') - 1)
  <2>0. k \in 1 .. Len(stack) /\ stack'[k] = stack[k]
    BY <1>2
  <2>1. CASE k = Len(stack)
    <3>1. stack # <<>> /\ stack[k] = Top
      BY <2>0, <2>1, EmptySeq DEF Top
    <3>. QED
      BY <1>1, <1>2, <2>0, <2>1, <3>1 DEF Nested
  <2>2. CASE k # Len(stack)
    <3>1. k \in 1 .. (Len(stack) - 1) /\ k + 1 \in 1 .. Len(stack)
      BY <1>2, <2>0, <2>2
    <3>. QED
      BY <1>2, <2>0, <3>1 DEF Nested
  <2>. QED
    BY <2>1, <2>2
<1>6. Top' = Frame
  BY <1>2 DEF Top
<1>. QED
  BY <1>1, <1>2, <1>4, <1>5, <1>6 DEF Nested

LEMMA PullNested ==
    ASSUME TypeOK, Nested, stack # <<>>, stack' = Below, psw' = Top.psw
    PROVE  Nested'
<1>1. /\ stack' \in Seq(FrameType)
      /\ Len(stack) \in Nat \ {0} /\ Len(stack') = Len(stack) - 1
      /\ \A k \in 1 .. (Len(stack) - 1) : stack'[k] = stack[k]
  BY Pulled DEF TypeOK, Below
<1>2. \A k \in 1 .. Len(stack') : stack'[k].psw.current >= k - 1
  BY <1>1 DEF Nested
<1>3. \A k \in 1 .. (Len(stack') - 1) :
          stack'[k].psw.current < stack'[k + 1].psw.current
  BY <1>1 DEF Nested
<1>4. stack' # <<>> => Top'.psw.current < psw'.current
  <2>. SUFFICES ASSUME stack' # <<>> PROVE Top'.psw.current < psw'.current
    OBVIOUS
  <2>1. Len(stack') # 0
    BY <1>1, EmptySeq
  <2>2. Len(stack) - 1 \in 1 .. (Len(stack) - 1) /\ Len(stack) - 1 + 1 = Len(stack)
    BY <1>1, <2>1
  <2>3. Top' = stack[Len(stack) - 1]
    BY <1>1, <2>2 DEF Top
  <2>4. stack[Len(stack) - 1].psw.current < stack[Len(stack) - 1 + 1].psw.current
    BY <2>2 DEF Nested
  <2>. QED
    BY <2>2, <2>3, <2>4 DEF Top
<1>. QED
  BY <1>2, <1>3, <1>4 DEF Nested

PoliteInv == Nested /\ CallsOutrank

LEMMA PoliteInvariant ==
    TypeOK /\ PoliteInv /\ [Next /\ Polite]_vars => PoliteInv'
<1>. SUFFICES ASSUME TypeOK, PoliteInv, [Next /\ Polite]_vars
              PROVE  PoliteInv'
  OBVIOUS
<1>. USE DEF PoliteInv
(* A step that leaves frames, priority and vectors alone keeps Nested.     *)
<1>0. ASSUME UNCHANGED <<stack, psw>>
      PROVE  Nested'
  BY <1>0 DEF Nested, Top
<1>1. CASE Fault
  BY <1>0, <1>1 DEF Fault, CallFault, CallsOutrank, Outranks, Pri
<1>2. CASE SupervisoryCall
  <2>1. CASE Len(stack) = StackSize
    BY <1>0, <1>2, <2>1 DEF SupervisoryCall, CallsOutrank
  <2>2. CASE Len(stack) # StackSize
    <3>1. EnterHandler(call.vector) /\ call.vector \in Vectors /\ Outranks(call.vector)
      BY <1>2, <2>2 DEF SupervisoryCall, CallsOutrank, TypeOK
    <3>2. psw'.current = Pri(call.vector) /\ Pri(call.vector) \in Nat
      BY <3>1 DEF EnterHandler, TypeOK, Vector, Priority, Pri
    <3>3. Nested' /\ stack' # <<>> /\ Top'.psw.current = psw.current
      BY <3>1, <3>2, PushNested DEF EnterHandler, Outranks
    <3>4. ~Refused(call.vector)
      BY <3>1, <3>2 DEF Refused, Outranks, TypeOK, Priority
    <3>5. /\ at' = call.ret
          /\ call.ret = "set_priority" => call' = call
      BY <1>2, <2>2, <3>4 DEF SupervisoryCall
    <3>6. call.ret \in {"fetch", "fetched", "set_priority"}
      BY DEF TypeOK
    <3>7. CallsOutrank'
      BY <1>2, <3>3, <3>5, <3>6 DEF SupervisoryCall, CallsOutrank
    <3>. QED
      BY <3>3, <3>7
  <2>. QED
    BY <2>1, <2>2
<1>3. CASE TakePriority
  <2>1. psw'.current = call.new_pri /\ stack' = stack /\ at' = "fetch"
    BY <1>3 DEF TakePriority, TypeOK
  <2>2. call.new_pri > Top.psw.current
    BY <1>3 DEF TakePriority, CallsOutrank
  <2>3. call.new_pri \in Nat /\ (stack # <<>> => Top.psw.current \in Nat)
    BY TopTyped DEF TypeOK, Priority
  <2>4. Nested'
    BY <2>1, <2>2, <2>3 DEF Nested, Top
  <2>. QED
    BY <2>1, <2>4 DEF CallsOutrank
<1>4. CASE Fetch /\ Polite
  <2>1. CASE Advance
    BY <1>0, <2>1 DEF Advance, CallsOutrank
  <2>2. CASE FetchOdd
    BY <1>0, <1>4, <2>2 DEF FetchOdd, CallFault, CallsOutrank, Polite, Outranks, Pri
  <2>. QED
    BY <1>4, <2>1, <2>2 DEF Fetch, FetchEven, FetchResumed
<1>5. CASE Execute /\ Polite
  <2>1. CASE Skip
    BY <1>0, <2>1 DEF Skip, CallsOutrank
  <2>2. ASSUME NEW values \in [Regs -> Words], WriteRegs(values)
        PROVE  PoliteInv'
    BY <1>0, <2>2 DEF WriteRegs, CallsOutrank
  <2>3. ASSUME NEW d \in Regs, NEW s \in Regs, Move(d, s)
        PROVE  PoliteInv'
    <3>1. CASE Return(d, s)
      BY <3>1, PullNested DEF Return, CallsOutrank
    <3>2. CASE ReturnUnderflow(d, s)
      BY <1>0, <3>2 DEF ReturnUnderflow, CallsOutrank
    <3>3. CASE Copy(d, s)
      BY <1>0, <3>3 DEF Copy, CallsOutrank
    <3>. QED
      BY <2>3, <3>1, <3>2, <3>3 DEF Move
  <2>4. ASSUME NEW n \in Words, NEW link \in BOOLEAN, Branch(n, link)
        PROVE  PoliteInv'
    BY <1>0, <2>4 DEF Branch, CallsOutrank
  <2>5. ASSUME NEW t \in Counts, NEW f \in Counts, Cex(t, f)
        PROVE  PoliteInv'
    BY <1>0, <2>5 DEF Cex, CallsOutrank
  <2>6. ASSUME NEW v \in Vectors, Svc(v)
        PROVE  PoliteInv'
    BY <1>0, <1>5, <2>6
       DEF Svc, Executing, Polite, CallsOutrank, Outranks, Pri
  <2>7. CASE Illegal
    BY <1>0, <1>5, <2>7
       DEF Illegal, Executing, CallFault, Polite, CallsOutrank, Outranks, Pri
  <2>8. ASSUME NEW p \in Priority, SetPri(p)
        PROVE  PoliteInv'
    <3>0. p \in Nat /\ psw.current \in Nat /\ stack' = stack
      BY <2>8 DEF Priority, TypeOK, SetPri
    <3>1. CASE p > psw.current
      BY <1>0, <1>5, <2>8, <3>1
         DEF SetPri, Executing, CallFault, Polite, CallsOutrank, Outranks, Pri
    <3>2. CASE ~(p > psw.current)
      <4>1. at = "execute" /\ psw'.current = p /\ at' = "fetch"
        BY <2>8, <3>2 DEF SetPri, Executing, TypeOK
      <4>2. stack # <<>> => Top.psw.current < p
        BY <1>5, <3>0, <3>2, <4>1 DEF Polite, Nested
      <4>3. Nested'
        BY <3>0, <4>1, <4>2 DEF Nested, Top
      <4>. QED
        BY <4>1, <4>3 DEF CallsOutrank
    <3>. QED
      BY <3>1, <3>2
  <2>. QED
    BY <1>5, <2>1, <2>2, <2>3, <2>4, <2>5, <2>6, <2>7, <2>8 DEF Execute
<1>6. CASE UNCHANGED vars
  BY <1>0, <1>6 DEF vars, CallsOutrank, Outranks, Pri, Top
<1>. QED
  BY <1>1, <1>2, <1>3, <1>4, <1>5, <1>6 DEF Next, Internal

LEMMA InitPolite == Init => PoliteInv
  BY DEF Init, PoliteInv, Nested, CallsOutrank

LEMMA HistoryFollowsTraps == [HNext]_hvars => [Next]_vars
  BY DEF HNext, Planned, Unplanned, hvars, Between, Interrupt, Resume, Governed,
         BranchOut, FlatCex, OtherCex, Next, Internal, Execute, Move

LEMMA HistoryTyped == HSpec => []TypeOK
<1>1. HInit => TypeOK
  BY InitTyped DEF HInit
<1>2. TypeOK /\ [HNext]_hvars => TypeOK'
  BY HistoryFollowsTraps, TypeInvariant
<1>. QED
  BY <1>1, <1>2, PTL DEF HSpec

(* A program that has been polite so far took polite steps only.           *)
LEMMA StillPolite ==
    ASSUME [HNext]_hvars, polite'
    PROVE  polite /\ [Next /\ Polite]_vars
<1>1. CASE HNext
  <2>1. polite' = (polite /\ Polite)
    BY <1>1 DEF HNext
  <2>2. polite /\ Polite
    BY <2>1, Zenon
  <2>. QED
    BY <2>2, HistoryFollowsTraps
<1>2. CASE UNCHANGED hvars
  BY <1>2 DEF hvars
<1>. QED
  BY <1>1, <1>2

PoliteSoFar == polite => PoliteInv

LEMMA PoliteSoFarInvariant ==
    TypeOK /\ PoliteSoFar /\ [HNext]_hvars => PoliteSoFar'
  BY StillPolite, PoliteInvariant DEF PoliteSoFar

LEMMA PoliteAlways == HSpec => []PoliteSoFar
<1>1. HInit => PoliteSoFar
  BY InitPolite DEF HInit, PoliteSoFar
<1>. QED
  BY <1>1, PoliteSoFarInvariant, HistoryTyped, PTL DEF HSpec

(* A polite program's frames are never more than its current priority.     *)
THEOREM StackWithinPrioritiesCorrect == HSpec => []StackWithinPriorities
<1>1. TypeOK /\ PoliteSoFar => StackWithinPriorities
  BY NestedDepth DEF PoliteSoFar, PoliteInv, StackWithinPriorities
<1>. QED
  BY <1>1, HistoryTyped, PoliteAlways, PTL

(* With at least one place per priority above 0 in the stack (the emulator *)
(* has eight places and seven such priorities) a polite program never      *)
(* writes past its end.                                                    *)
THEOREM StackSufficesCorrect ==
    ASSUME MaxPriority <= StackSize
    PROVE  HSpec => []StackSuffices
<1>1. TypeOK /\ PoliteSoFar /\ StackSuffices /\ [HNext]_hvars => StackSuffices'
  <2>. SUFFICES ASSUME TypeOK, PoliteInv, at # "overflow", [Next]_vars,
                       at' = "overflow"
                PROVE  FALSE
    BY StillPolite, HistoryFollowsTraps DEF StackSuffices, PoliteSoFar
  <2>1. SupervisoryCall /\ Len(stack) = StackSize
    <3>1. ~UNCHANGED vars
      BY DEF vars
    <3>2. ~Fault /\ ~TakePriority /\ ~Fetch
      BY DEF Fault, TakePriority, Fetch, FetchEven, FetchOdd, FetchResumed,
             Advance, CallFault
    <3>3. ~Execute
      BY DEF Execute, Skip, WriteRegs, Move, Return, ReturnUnderflow, Copy,
             Branch, Cex, Svc, Illegal, SetPri, CallFault
    <3>4. SupervisoryCall
      BY <3>1, <3>2, <3>3 DEF Next, Internal
    <3>5. call.ret # "overflow"
      BY DEF TypeOK
    <3>. QED
      BY <3>4, <3>5 DEF SupervisoryCall, CallFault
  <2>2. psw.current < Pri(call.vector) /\ Pri(call.vector) <= MaxPriority
    BY <2>1 DEF SupervisoryCall, PoliteInv, CallsOutrank, Outranks, Pri,
                TypeOK, Vector, Priority
  <2>3. Len(stack) <= psw.current /\ psw.current \in Nat /\ Pri(call.vector) \in Nat
    BY NestedDepth DEF PoliteInv, TypeOK, Priority, Pri, Vector
  <2>. QED
    BY <2>1, <2>2, <2>3
<1>2. HInit => StackSuffices
  BY DEF HInit, Init, StackSuffices
<1>. QED
  BY <1>1, <1>2, HistoryTyped, PoliteAlways, PTL DEF HSpec
-----------------------------------------------------------------------------
(* Conditional blocks.  What is left of a block and the counts match: the  *)
(* true count of instructions that run and then the false count of those   *)
(* that do not, or, when the condition did not hold, the false count of    *)
(* those that do not and then those that run.                              *)

Truthful(c, p) ==
    /\ Len(p) = c.true_count + c.false_count
    /\ \A k \in 1 .. Len(p) : p[k] <=> k <= c.true_count

Falsified(c, p) ==
    /\ c.true_count = 0
    /\ c.false_count <= Len(p)
    /\ \A k \in 1 .. Len(p) : p[k] <=> k > c.false_count

Matched(c, p) == p \in Seq(BOOLEAN) /\ (Truthful(c, p) \/ Falsified(c, p))

(* Those of whoever runs, and those of everyone interrupted.               *)
FrameMatched ==
    /\ plans \in Seq(Seq(BOOLEAN)) /\ Len(plans) = Len(stack)
    /\ \A k \in 1 .. Len(stack) : Matched(stack[k].cex, plans[k])

PlansInv == Matched(cex, plan) /\ FrameMatched

LEMMA PlanTail ==
    ASSUME plan \in Seq(BOOLEAN)
    PROVE  /\ Rest \in Seq(BOOLEAN)
           /\ Len(plan) \in Nat /\ (plan = <<>> <=> Len(plan) = 0)
           /\ Len(Rest) = IF Len(plan) = 0 THEN 0 ELSE Len(plan) - 1
           /\ \A k \in 1 .. Len(Rest) : Rest[k] = plan[k + 1]
<1>1. Len(plan) \in Nat /\ (plan = <<>> <=> Len(plan) = 0)
  BY EmptySeq, LenProperties
<1>2. CASE plan = <<>>
  <2>1. Rest = <<>> /\ Len(Rest) = 0 /\ Rest \in Seq(BOOLEAN)
    BY <1>2, EmptySeq DEF Rest
  <2>. QED
    BY <1>1, <1>2, <2>1
<1>3. CASE plan # <<>>
  <2>1. Rest = Tail(plan)
    BY <1>3 DEF Rest
  <2>2. /\ Tail(plan) \in Seq(BOOLEAN) /\ Len(Tail(plan)) = Len(plan) - 1
        /\ \A k \in 1 .. Len(Tail(plan)) : Tail(plan)[k] = plan[k + 1]
    BY <1>3, HeadTailProperties
  <2>. QED
    BY <1>1, <1>3, <2>1, <2>2
<1>. QED
  BY <1>2, <1>3

LEMMA NothingMatched ==
    ASSUME NEW c, c.true_count = 0, c.false_count = 0
    PROVE  Matched(c, <<>>)
  BY EmptySeq DEF Matched, Truthful

(* An instruction that is not blocked takes one off the plan, and so does  *)
(* one that is skipped.                                                    *)
LEMMA PassedMatched ==
    ASSUME cex \in Cxs, Matched(cex, plan), ~Blocked
    PROVE  Matched(Unblocked, Rest)
<1>1. /\ cex.true_count \in Nat /\ cex.false_count \in Nat
      /\ Unblocked.false_count = cex.false_count
      /\ Unblocked.true_count = IF cex.true_count > 0 THEN cex.true_count - 1 ELSE 0
  BY DEF Unblocked, Cxs, Counts
<1>2. plan \in Seq(BOOLEAN)
  BY DEF Matched
<1>3. /\ Rest \in Seq(BOOLEAN) /\ Len(plan) \in Nat /\ Len(Rest) \in Nat
      /\ Len(Rest) = IF Len(plan) = 0 THEN 0 ELSE Len(plan) - 1
      /\ \A k \in 1 .. Len(Rest) : k + 1 \in 1 .. Len(plan) /\ Rest[k] = plan[k + 1]
  BY <1>2, PlanTail
<1>4. CASE Truthful(cex, plan)
  <2>1. /\ Len(plan) = cex.true_count + cex.false_count
        /\ cex.true_count = 0 => cex.false_count = 0
    BY <1>1, <1>4 DEF Truthful, Blocked
  <2>2. Len(Rest) = Unblocked.true_count + Unblocked.false_count
    BY <1>1, <1>3, <2>1
  <2>3. ASSUME NEW k \in 1 .. Len(Rest)
        PROVE  Rest[k] <=> k <= Unblocked.true_count
    <3>1. Rest[k] = plan[k + 1] /\ (plan[k + 1] <=> k + 1 <= cex.true_count)
      BY <1>3, <1>4 DEF Truthful
    <3>2. k + 1 <= cex.true_count <=> k <= Unblocked.true_count
      BY <1>1, <1>3
    <3>. QED
      BY <3>1, <3>2
  <2>. QED
    BY <1>3, <2>2, <2>3 DEF Matched, Truthful
<1>5. CASE Falsified(cex, plan)
  <2>1. cex.true_count = 0 /\ cex.false_count = 0
    BY <1>1, <1>5 DEF Falsified, Blocked
  <2>2. ASSUME NEW k \in 1 .. Len(Rest)
        PROVE  Rest[k] <=> k > Unblocked.false_count
    <3>1. Rest[k] = plan[k + 1] /\ (plan[k + 1] <=> k + 1 > cex.false_count)
      BY <1>3, <1>5 DEF Falsified
    <3>. QED
      BY <1>1, <2>1, <3>1
  <2>. QED
    BY <1>1, <1>3, <2>1, <2>2 DEF Matched, Falsified
<1>. QED
  BY <1>4, <1>5 DEF Matched

LEMMA SkippedMatched ==
    ASSUME cex \in Cxs, Matched(cex, plan), Blocked
    PROVE  Matched([cex EXCEPT !.false_count = @ - 1], Rest)
<1>. DEFINE c == [cex EXCEPT !.false_count = @ - 1]
<1>1. /\ cex.true_count \in Nat /\ cex.false_count \in Nat
      /\ c.false_count = cex.false_count - 1 /\ c.true_count = cex.true_count
  BY DEF Cxs, Counts
<1>2. plan \in Seq(BOOLEAN)
  BY DEF Matched
<1>. HIDE DEF c
<1>3. Truthful(cex, plan) => Truthful(c, Rest)
  BY <1>1, <1>2, PlanTail DEF Truthful, Blocked
<1>4. Falsified(cex, plan) => Falsified(c, Rest)
  BY <1>1, <1>2, PlanTail DEF Falsified, Blocked
<1>5. Matched(c, Rest)
  BY <1>2, <1>3, <1>4, PlanTail DEF Matched
<1>. QED
  BY <1>5 DEF c

LEMMA PartsMatched ==
    ASSUME NEW t \in Counts, NEW f \in Counts, NEW holds \in BOOLEAN,
           t = f \/ holds, NEW c, c.false_count = f,
           c.true_count = IF holds THEN t ELSE 0
    PROVE  Matched(c, Parted(t, f, holds))
<1>. DEFINE p == Parted(t, f, holds)
<1>1. t \in Nat /\ f \in Nat /\ t + f \in Nat
  BY DEF Counts
<1>2. p \in [1 .. t + f -> BOOLEAN]
  <2>1. \A k \in 1 .. t + f : ((k <= t) = holds) \in BOOLEAN
    BY SMT
  <2>. QED
    BY <2>1, Zenon DEF Parted
<1>3. p \in Seq(BOOLEAN) /\ Len(p) = t + f
  <2>1. p \in Seq(BOOLEAN)
    BY <1>1, <1>2, SeqDef
  <2>. QED
    BY <1>1, <1>2, <2>1, LenProperties
<1>4. \A k \in 1 .. t + f : p[k] = ((k <= t) = holds)
  BY DEF Parted
<1>. HIDE DEF p
<1>5. CASE holds
  <2>1. Truthful(c, p)
    BY <1>1, <1>3, <1>4, <1>5 DEF Truthful
  <2>. QED
    BY <1>3, <2>1 DEF Matched, p
<1>6. CASE ~holds
  <2>1. ASSUME NEW k \in 1 .. t + f
        PROVE  p[k] <=> k > f
    <3>1. p[k] = ((k <= t) = FALSE)
      BY <1>4, <1>6
    <3>2. ((k <= t) = FALSE) <=> k > f
      BY <1>1, <1>6
    <3>. QED
      BY <3>1, <3>2, Zenon
  <2>2. Falsified(c, p)
    BY <1>1, <1>3, <1>6, <2>1 DEF Falsified
  <2>. QED
    BY <1>3, <2>2 DEF Matched, p
<1>. QED
  BY <1>5, <1>6
-----------------------------------------------------------------------------
PlansSoFar == flat => PlansInv

LEMMA PlansInvariant == TypeOK /\ PlansSoFar /\ [HNext]_hvars => PlansSoFar'
<1>. SUFFICES ASSUME TypeOK, PlansSoFar, [HNext]_hvars, flat'
              PROVE  PlansInv'
  BY DEF PlansSoFar
<1>a. PlansInv /\ (Planned \/ UNCHANGED hvars)
  <2>1. Planned => flat
    BY DEF Planned
  <2>2. CASE HNext
    <3>1. Planned
      BY <2>2 DEF HNext, Unplanned
    <3>. QED
      BY <2>1, <3>1 DEF PlansSoFar
  <2>3. CASE UNCHANGED hvars
    <3>1. flat
      BY <2>3 DEF hvars
    <3>. QED
      BY <2>3, <3>1 DEF PlansSoFar
  <2>. QED
    BY <2>2, <2>3
<1>0. /\ cex \in Cxs /\ Matched(cex, plan) /\ plan \in Seq(BOOLEAN)
      /\ stack \in Seq(FrameType) /\ Len(stack) \in Nat
      /\ plans \in Seq(Seq(BOOLEAN)) /\ Len(plans) = Len(stack)
  BY <1>a DEF TypeOK, PlansInv, FrameMatched, Matched, Cxs
<1>1. CASE Between
  <2>1. UNCHANGED <<cex, stack, plan, plans>>
    BY <1>1 DEF Between, Fault, TakePriority, Fetch, FetchEven, FetchOdd,
                FetchResumed, Advance
  <2>. QED
    BY <1>a, <2>1 DEF PlansInv, FrameMatched
<1>2. CASE Interrupt
  <2>1. CASE Len(stack) = StackSize
    <3>1. UNCHANGED <<cex, stack, plan, plans>>
      BY <1>2, <2>1 DEF Interrupt, SupervisoryCall
    <3>. QED
      BY <1>a, <3>1 DEF PlansInv, FrameMatched
  <2>2. CASE Len(stack) # StackSize
    <3>1. EnterHandler(call.vector)
      BY <1>2, <2>2 DEF Interrupt, SupervisoryCall
    <3>2. Frame \in FrameType /\ Frame.cex = cex
      BY DEF TypeOK, Frame, FrameType, PC, LR, Regs
    <3>3. /\ stack' = Append(stack, Frame) /\ stack' \in Seq(FrameType)
          /\ Len(stack') = Len(stack) + 1
          /\ stack'[Len(stack) + 1].cex = cex
          /\ \A k \in 1 .. Len(stack) : stack'[k] = stack[k]
      BY <1>0, <3>1, <3>2, Pushed DEF EnterHandler
    <3>4. stack' # stack
      BY <1>0, <3>3
    <3>5. plans' = Append(plans, plan) /\ plan' = <<>>
      BY <1>2, <3>4 DEF Interrupt
    <3>6. /\ plans' \in Seq(Seq(BOOLEAN)) /\ Len(plans') = Len(stack')
          /\ plans'[Len(stack) + 1] = plan
          /\ \A k \in 1 .. Len(stack) : plans'[k] = plans[k]
      BY <1>0, <3>3, <3>5, Pushed
    <3>7. ASSUME NEW k \in 1 .. Len(stack')
          PROVE  Matched(stack'[k].cex, plans'[k])
      <4>1. k = Len(stack) + 1 \/ k \in 1 .. Len(stack)
        BY <1>0, <3>3
      <4>. QED
        BY <1>a, <1>0, <3>3, <3>6, <4>1 DEF PlansInv, FrameMatched
    <3>8. Matched(cex', plan')
      BY <3>1, <3>5, NothingMatched DEF EnterHandler, NoCex
    <3>. QED
      BY <1>a, <3>6, <3>7, <3>8 DEF PlansInv, FrameMatched
  <2>. QED
    BY <2>1, <2>2
<1>3. CASE Resume
  <2>1. PICK d \in Regs, s \in Regs : Return(d, s)
    BY <1>3 DEF Resume
  <2>2. stack # <<>> /\ cex' = stack[Len(stack)].cex
        /\ stack' = SubSeq(stack, 1, Len(stack) - 1)
    BY <2>1 DEF Return, Top, Below
  <2>3. /\ Len(stack) \in Nat \ {0} /\ Len(stack') = Len(stack) - 1
        /\ \A k \in 1 .. (Len(stack) - 1) : stack'[k] = stack[k]
    BY <1>0, <2>2, Pulled
  <2>4. plans # <<>>
    BY <1>0, <2>3
  <2>5. /\ plans' \in Seq(Seq(BOOLEAN)) /\ Len(plans') = Len(plans) - 1
        /\ \A k \in 1 .. (Len(plans) - 1) : plans'[k] = plans[k]
    BY <1>0, <1>3, <2>4, Pulled DEF Resume
  <2>6. plan' = plans[Len(stack)]
    BY <1>0, <1>3 DEF Resume
  <2>7. Matched(cex', plan')
    BY <1>a, <2>2, <2>3, <2>6 DEF PlansInv, FrameMatched
  <2>8. ASSUME NEW k \in 1 .. Len(stack')
        PROVE  Matched(stack'[k].cex, plans'[k])
    <3>1. k \in 1 .. Len(stack) /\ k \in 1 .. (Len(stack) - 1)
      BY <2>3
    <3>2. stack'[k] = stack[k]
      BY <2>3, <3>1
    <3>3. plans'[k] = plans[k]
      BY <1>0, <2>5, <3>1
    <3>. QED
      BY <1>a, <3>1, <3>2, <3>3 DEF PlansInv, FrameMatched
  <2>9. Len(plans') = Len(stack')
    BY <1>0, <2>3, <2>5
  <2>. QED
    BY <1>a, <2>5, <2>7, <2>8, <2>9 DEF PlansInv, FrameMatched
<1>4. CASE Governed
  <2>1. UNCHANGED <<stack, plans>> /\ plan' = Rest
    BY <1>4 DEF Governed, Skip, WriteRegs, ReturnUnderflow, Copy, Svc, Illegal, SetPri
  <2>2. \/ Blocked /\ cex' = [cex EXCEPT !.false_count = @ - 1]
        \/ ~Blocked /\ cex' = Unblocked
    BY <1>4 DEF Governed, Skip, WriteRegs, ReturnUnderflow, Copy, Svc, Illegal,
                SetPri, Executing
  <2>3. Matched(cex', plan')
    BY <1>0, <2>1, <2>2, PassedMatched, SkippedMatched
  <2>. QED
    BY <1>a, <2>1, <2>3 DEF PlansInv, FrameMatched
<1>5. CASE BranchOut
  <2>1. UNCHANGED <<stack, plans>> /\ plan' = <<>> /\ cex' = NoCex
    BY <1>5 DEF BranchOut, Branch
  <2>2. Matched(cex', plan')
    BY <2>1, NothingMatched DEF NoCex
  <2>. QED
    BY <1>a, <2>1, <2>2 DEF PlansInv, FrameMatched
<1>6. ASSUME NEW t \in Counts, NEW f \in Counts, NEW holds \in BOOLEAN,
             FlatCex(t, f, holds)
      PROVE  PlansInv'
  <2>1. /\ UNCHANGED <<stack, plans>> /\ plan' = Parted(t, f, holds)
        /\ plan = <<>> /\ (t = f \/ holds) /\ ~Blocked
        /\ cex' = IF holds THEN [true_count |-> t, false_count |-> f]
                           ELSE [Unblocked EXCEPT !.false_count = f]
    BY <1>6 DEF FlatCex, Cex, Executing
  <2>2. cex.true_count = 0
    BY <1>0, <2>1, PlanTail DEF Matched, Truthful, Falsified, Cxs, Counts
  <2>3. cex'.false_count = f /\ cex'.true_count = IF holds THEN t ELSE 0
    BY <1>0, <2>1, <2>2 DEF Unblocked, Cxs, Counts
  <2>4. Matched(cex', plan')
    BY <2>1, <2>3, PartsMatched
  <2>. QED
    BY <1>a, <2>1, <2>4 DEF PlansInv, FrameMatched
<1>7. ASSUME NEW t \in Counts, NEW f \in Counts, OtherCex(t, f)
      PROVE  PlansInv'
  BY <1>7 DEF OtherCex
<1>8. CASE UNCHANGED hvars
  BY <1>a, <1>8 DEF hvars, vars, PlansInv, FrameMatched
<1>. QED
  BY <1>a, <1>1, <1>2, <1>3, <1>4, <1>5, <1>6, <1>7, <1>8 DEF Planned

(* As long as blocks are flat exactly the instructions are blocked that    *)
(* their own block excludes, whatever traps came in between and however    *)
(* deep they were nested.                                                  *)
THEOREM BlocksSurviveTrapsCorrect == HSpec => []BlocksSurviveTraps
<1>1. HInit => PlansSoFar
  <2>1. HInit => Matched(cex, plan)
    BY NothingMatched DEF HInit, Init, NoCex
  <2>2. HInit => FrameMatched
    BY EmptySeq DEF HInit, Init, FrameMatched
  <2>. QED
    BY <2>1, <2>2 DEF PlansInv, PlansSoFar
<1>2. TypeOK /\ PlansSoFar => BlocksSurviveTraps
  <2>. SUFFICES ASSUME TypeOK, PlansInv
                PROVE  Blocked <=> plan # <<>> /\ ~plan[1]
    BY DEF BlocksSurviveTraps, PlansSoFar
  <2>1. /\ cex.true_count \in Nat /\ cex.false_count \in Nat
        /\ plan \in Seq(BOOLEAN) /\ (Truthful(cex, plan) \/ Falsified(cex, plan))
    BY DEF TypeOK, Counts, PlansInv, Matched
  <2>. QED
    BY <2>1, PlanTail DEF Truthful, Falsified, Blocked
<1>. QED
  BY <1>1, <1>2, PlansInvariant, HistoryTyped, PTL DEF HSpec
===============================================================================
