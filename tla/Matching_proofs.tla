--------------------------- MODULE Matching_proofs ---------------------------
(***************************************************************************)
(* Proofs about Matching, for any orders, documents, extractions, receipts *)
(* and number of sessions.                                                 *)
(***************************************************************************)
EXTENDS Matching, WellFoundedInduction, TLAPS

\* Two runs that decide the same evidence.
SameEvidence(r, q) ==
    /\ r.doc = q.doc /\ r.order = q.order /\ r.ext = q.ext /\ r.mode = q.mode
    /\ r.ctx.replay = q.ctx.replay

\* Two runs of which one must be compared with the other.
Duplicates(r, q) ==
    /\ r.order = q.order /\ r.doc # q.doc
    /\ Invoice[r.ext].key = Invoice[q.ext].key
    /\ "THREE_WAY" \in {r.mode, q.mode}

RunOK(r) ==
    /\ r.order \in Order /\ r.ext \in Extraction /\ r.mode \in {"TWO_WAY", "THREE_WAY"}
    /\ r.mode = "TWO_WAY" => r.ctx = TwoWayContext

MatchedRun(r) == r.mode = "THREE_WAY" /\ r.decision = "MATCHED"

\* What is stored.
Stores ==
    /\ done \subseteq Extraction
    /\ runs \in Seq({runs[i] : i \in DOMAIN runs})
    /\ \A i \in RunIds : RunOK(runs[i])
    /\ \A i \in RunIds : runs[i].mode = "THREE_WAY" => i \in features
    /\ \A i \in RunIds : MatchedRun(runs[i]) => Assigned(runs[i].ext, runs[i].order) # {}
    /\ features \subseteq RunIds /\ DOMAIN compared = features
    /\ \A a \in allocs : /\ a.run \in RunIds /\ Stored(a.qty) = a.qty
                         /\ a.doc = runs[a.run].doc /\ a.order = runs[a.run].order

\* Who holds the row locks and the share locks.
LockTable ==
    /\ DOMAIN sess = Session /\ DOMAIN share = Order
    /\ lock \in [Order -> Session \cup {Free}]
    /\ \A o \in Order : lock[o] # Free => share[o] \subseteq {lock[o]}

\* What a transaction in flight is going to reserve fits what its invoice has.
Planned(x) ==
    LET own == OwnAllocs(x.new.doc, x.new.order)
        assigned == Assigned(x.new.ext, x.new.order)
    IN  /\ x.drafts \in {{}, assigned}
        /\ x.drafts # {} => x.new.decision = "MATCHED" /\ own = {}
        /\ x.new.decision = "MATCHED" =>
              /\ assigned # {}
              /\ own = {} => x.drafts = assigned
              /\ own # {} => Rows(own) = Rows(assigned)

\* A run that is going to be stored.
Pending(s, x) ==
    /\ RunOK(x.new)
    /\ x.new.mode = "TWO_WAY" => x.drafts = {}
    /\ x.new.mode = "THREE_WAY" =>
          /\ lock[x.new.order] = s /\ Planned(x)
          /\ \A i \in RunIds : ~SameEvidence(runs[i], x.new)

\* A run whose rows are written, and not visible yet.
Written(s, x) ==
    /\ s \in share[x.new.order]
    /\ \A i \in RunIds : ~SameEvidence(runs[i], x.new)
    /\ \A j \in features : Duplicates(x.new, runs[j]) => j \in x.cmp

\* A repaired run whose rows are written, and not visible yet.
Claim(s, r, found) ==
    /\ r \in RunIds /\ runs[r].mode = "TWO_WAY" /\ s \in share[runs[r].order]
    /\ \A j \in features : Duplicates(runs[r], runs[j]) => j \in found

\* The fields of a session's state.
IsTx(x) ==
    x = [pc |-> x.pc, new |-> x.new, drafts |-> x.drafts, cmp |-> x.cmp,
         todo |-> x.todo, claims |-> x.claims]

\* The state x of session s.
Tx(s, x) ==
    /\ IsTx(x)
    /\ x.todo \in Seq(RunIds) /\ (x.pc = "flush" => x.todo # <<>>)
    /\ x.pc \in {"fresh", "inserted"} => Pending(s, x)
    /\ x.pc = "inserted" => Written(s, x)
    /\ \A r \in DOMAIN x.claims : Claim(s, r, x.claims[r])

\* Two transactions do not write the same run.
Apart(x, y) == x.pc = "inserted" /\ y.pc = "inserted" => ~SameEvidence(x.new, y.new)

Sessions ==
    /\ \A s \in Session : Tx(s, sess[s])
    /\ \A s, t \in Session : s # t => Apart(sess[s], sess[t])

Goal == OneRunPerEvidence /\ MatchedIsReserved /\ DuplicateNoticed

IInv == Stores /\ LockTable /\ Sessions /\ Goal

-----------------------------------------------------------------------------
(* Numbers and sequences *)

\* A set of natural numbers that is not empty has a least element.
LEMMA Least ==
    ASSUME NEW T \in SUBSET Nat, T # {}
    PROVE  \E x \in T : \A y \in T : x <= y
<1>1. PICK x \in T : \A y \in T : ~(<<y, x>> \in OpToRel(<, Nat))
    BY WFMin, NatLessThanWellFounded, Zenon
<1>2. ASSUME NEW y \in T PROVE x <= y
    <2>1. x \in Nat /\ y \in Nat
        OBVIOUS
    <2>2. y < x => <<y, x>> \in OpToRel(<, Nat)
        BY <2>1 DEF OpToRel
    <2>3. ~(y < x)
        BY Zenon, <1>1, <2>2
    <2> QED BY <2>1, <2>3
<1> QED BY <1>2

\* The greatest of some of the numbers up to n is one of them.
LEMMA MaxIn ==
    ASSUME NEW n \in Nat, NEW T \in SUBSET (1..n), T # {}
    PROVE  Max(T) \in T
<1> DEFINE B == {m \in Nat : \A y \in T : y <= m}
<1>1. n \in B
    OBVIOUS
<1>2. PICK m \in B : \A k \in B : m <= k
    BY Zenon, <1>1, Least
<1>3. m \in T
    <2> SUFFICES ASSUME m \notin T PROVE FALSE
        OBVIOUS
    <2>1. PICK y \in T : TRUE
        BY Zenon
    <2>2. m - 1 \in B
        BY <2>1, <1>2
    <2> QED BY <1>2, <2>2
<1>4. \E x \in T : \A y \in T : x >= y
    BY <1>2, <1>3
<1> HIDE DEF B
<1> QED BY Zenon, <1>4 DEF Max

\* A document with a successful extraction has a current one.
LEMMA CurrentIn ==
    ASSUME done \subseteq Extraction, NEW d, Candidates(d) # {}
    PROVE  CurrentExtraction(d) \in Extraction
<1> DEFINE ranks == {Invoice[x].rank : x \in Candidates(d)}
<1>1. Candidates(d) \subseteq Extraction
    BY DEF Candidates
<1>2. ranks \in SUBSET Nat /\ ranks # {}
    BY <1>1, InvoiceAssumption
<1>3. PICK m \in ranks : \A k \in ranks : m <= k
    BY Zenon, <1>2, Least
<1>4. \E x \in Candidates(d) : \A y \in Candidates(d) : Invoice[x].rank <= Invoice[y].rank
    BY Zenon, <1>3
<1>5. CurrentExtraction(d) \in Candidates(d)
    BY Zenon, <1>4 DEF CurrentExtraction
<1> QED BY <1>1, <1>5

\* A stored quantity is stored as it is.
LEMMA StoredOnce ==
    ASSUME NEW q \in Int
    PROVE  Stored(q) \in Int /\ Stored(Stored(q)) = Stored(q)
<1> DEFINE k == (2 * q + Scale) \div (2 * Scale)
<1>1. Scale \in Nat /\ Scale > 0
    BY ScaleAssumption
<1>2. k \in Int
    BY <1>1
<1>3. Stored(q) = k * Scale
    BY DEF Stored
<1> HIDE DEF k
<1>4. \A j \in Int : (2 * (j * Scale) + Scale) \div (2 * Scale) = j
    <2> SUFFICES ASSUME NEW j \in Int
                 PROVE  (2 * (j * Scale) + Scale) \div (2 * Scale) = j
        OBVIOUS
    <2> DEFINE a == 2 * (j * Scale) + Scale
               b == 2 * Scale
    <2>1. a \in Int /\ b \in Nat /\ b > 0
        BY <1>1
    <2>2. b * j <= a /\ a < b * j + b
        BY <1>1
    <2> HIDE DEF a, b
    <2>3. a \div b = j
        BY <2>1, <2>2
    <2> QED BY <2>3 DEF a, b
<1> QED BY <1>1, <1>2, <1>3, <1>4 DEF Stored

\* t is s with e behind it.
Lengthens(t, s, e) ==
    /\ t \in Seq({t[i] : i \in DOMAIN t})
    /\ Len(s) \in Nat /\ DOMAIN s = 1..Len(s)
    /\ Len(t) = Len(s) + 1 /\ DOMAIN t = 1..(Len(s) + 1)
    /\ \A i \in 1..Len(s) : t[i] = s[i]
    /\ t[Len(s) + 1] = e

\* A sequence with one more element.
LEMMA Appended ==
    ASSUME NEW s, s \in Seq({s[i] : i \in DOMAIN s}), NEW e, NEW t, t = Append(s, e)
    PROVE  Lengthens(t, s, e)
<1> DEFINE S == {s[i] : i \in DOMAIN s}
<1>1. s \in Seq(S \cup {e}) /\ Len(s) \in Nat /\ DOMAIN s = 1..Len(s)
    OBVIOUS
<1> HIDE DEF S
<1>2. /\ t \in Seq(S \cup {e}) /\ Len(t) = Len(s) + 1 /\ DOMAIN t = 1..(Len(s) + 1)
      /\ \A i \in 1..Len(s) : t[i] = s[i]
      /\ t[Len(s) + 1] = e
    BY <1>1
<1>3. \A i \in 1..Len(t) : t[i] \in {t[j] : j \in DOMAIN t}
    BY <1>1, <1>2
<1>4. t \in Seq({t[i] : i \in DOMAIN t})
    BY SMTT(30), <1>2, <1>3
<1> QED BY Zenon, <1>1, <1>2, <1>4 DEF Lengthens

-----------------------------------------------------------------------------
(* Steps of one transaction that make nothing visible *)

\* What session s may do to the locks: the other sessions keep theirs.
LocksKept(s) ==
    /\ DOMAIN share' = Order
    /\ lock' \in [Order -> Session \cup {Free}]
    /\ \A o \in Order : lock'[o] # Free => share'[o] \subseteq {lock'[o]}
    /\ \A o \in Order, t \in Session \ {s} :
          /\ lock[o] = t => lock'[o] = t
          /\ t \in share[o] => t \in share'[o]

\* The end of a transaction gives up its own locks only.
LEMMA Released ==
    ASSUME LockTable, NEW s \in Session, ReleaseLocks(s)
    PROVE  LocksKept(s)
<1>1. lock' = [o \in Order |-> IF lock[o] = s THEN Free ELSE lock[o]]
    BY DEF ReleaseLocks
<1>2. share' = [o \in Order |-> share[o] \ {s}]
    BY DEF ReleaseLocks
<1>3. Free \notin Session
    BY FreeAssumption
<1>4. DOMAIN share' = Order /\ lock' \in [Order -> Session \cup {Free}]
    BY <1>1, <1>2 DEF LockTable
<1>5. ASSUME NEW o \in Order, lock'[o] # Free PROVE share'[o] \subseteq {lock'[o]}
    <2>1. lock'[o] = lock[o] /\ share'[o] \subseteq share[o]
        BY <1>1, <1>2, <1>5
    <2> QED BY Zenon, <2>1, <1>5 DEF LockTable
<1>6. ASSUME NEW o \in Order, NEW t \in Session \ {s}
      PROVE  /\ lock[o] = t => lock'[o] = t
             /\ t \in share[o] => t \in share'[o]
    BY <1>1, <1>2
<1> QED BY Zenon, <1>4, <1>5, <1>6 DEF LocksKept

\* No lock changes.
LEMMA Untouched ==
    ASSUME LockTable, NEW s, UNCHANGED <<lock, share>>
    PROVE  LocksKept(s)
BY Zenon DEF LockTable, LocksKept

\* lock_purchase_order excludes everyone else from the order.
LEMMA Locked ==
    ASSUME LockTable, NEW s \in Session, NEW o \in Order, LockOrder(s, o), UNCHANGED share
    PROVE  LocksKept(s) /\ lock'[o] = s
<1>1. lock[o] = Free /\ share[o] \subseteq {s} /\ lock' = [lock EXCEPT ![o] = s]
    BY DEF LockOrder, CanLock
<1>2. DOMAIN lock = Order /\ lock' \in [Order -> Session \cup {Free}] /\ lock'[o] = s
    BY <1>1 DEF LockTable
<1>3. \A p \in Order : p # o => lock'[p] = lock[p]
    BY <1>1, <1>2
<1>4. \A p \in Order : lock'[p] # Free => share'[p] \subseteq {lock'[p]}
    BY Zenon, <1>1, <1>2, <1>3 DEF LockTable
<1>5. \A p \in Order, t \in Session \ {s} : lock[p] = t => lock'[p] = t
    BY Zenon, <1>1, <1>3, FreeAssumption
<1> QED BY Zenon, <1>2, <1>4, <1>5 DEF LocksKept, LockTable

\* A share lock is granted when nobody else has the row lock.
LEMMA Shared ==
    ASSUME LockTable, NEW s \in Session, NEW o \in Order, CanShare(s, o),
           share' = [share EXCEPT ![o] = @ \cup {s}], UNCHANGED lock
    PROVE  LocksKept(s) /\ s \in share'[o]
<1>1. DOMAIN share = Order /\ DOMAIN share' = Order /\ share'[o] = share[o] \cup {s}
    BY DEF LockTable
<1>2. \A p \in Order : p # o => share'[p] = share[p]
    BY <1>1
<1>3. ASSUME NEW p \in Order, lock'[p] # Free PROVE share'[p] \subseteq {lock'[p]}
    BY Zenon, <1>1, <1>2, <1>3 DEF LockTable, CanShare
<1>4. \A p \in Order, t \in Session \ {s} : t \in share[p] => t \in share'[p]
    BY Zenon, <1>1, <1>2
<1> QED BY Zenon, <1>1, <1>3, <1>4 DEF LocksKept, LockTable

\* A session that keeps its locks is in the state it was in.
LEMMA TxKept ==
    ASSUME UNCHANGED <<runs, allocs, features>>, \A i \in RunIds : RunOK(runs[i]),
           NEW t, \A o \in Order : /\ lock[o] = t => lock'[o] = t
                                   /\ t \in share[o] => t \in share'[o],
           NEW x, Tx(t, x)
    PROVE  Tx(t, x)'
<1>1. RunIds' = RunIds
    BY DEF RunIds
<1>2. x.pc \in {"fresh", "inserted"} => Pending(t, x)'
    <2>1. Planned(x) => Planned(x)'
        BY Zenon DEF Planned, OwnAllocs
    <2> QED BY Zenon, <1>1, <2>1 DEF Tx, Pending, RunOK
<1>3. x.pc = "inserted" => Written(t, x)'
    <2>1. x.pc = "inserted" => x.new.order \in Order
        BY Zenon DEF Tx, Pending, RunOK
    <2> QED BY Zenon, <1>1, <2>1 DEF Tx, Written
<1>4. \A r \in DOMAIN x.claims : Claim(t, r, x.claims[r])'
    BY Zenon, <1>1 DEF Tx, Claim, RunOK
<1>5. x.todo \in Seq(RunIds') /\ (x.pc = "flush" => x.todo # <<>>)
    BY Zenon, <1>1 DEF Tx
<1>6. IsTx(x)
    BY Zenon DEF Tx
<1> QED BY Zenon, <1>2, <1>3, <1>4, <1>5, <1>6 DEF Tx

\* A step of s that stores nothing keeps the invariant if the new state of s is
\* in order.
LEMMA QuietStep ==
    ASSUME IInv, UNCHANGED <<done, runs, allocs, features, compared>>,
           NEW s \in Session, LocksKept(s), NEW x, sess' = [sess EXCEPT ![s] = x],
           Tx(s, x)', \A t \in Session \ {s} : Apart(x, sess[t]) /\ Apart(sess[t], x)
    PROVE  IInv'
<1>1. Stores /\ LockTable /\ Sessions /\ Goal
    BY DEF IInv
<1>2. RunIds' = RunIds
    BY DEF RunIds
<1>3. Stores'
    BY Zenon, <1>1, <1>2 DEF Stores
<1>4. Goal'
    <2>1. OneRunPerEvidence'
        BY ZenonT(60), <1>1, <1>2 DEF Goal, OneRunPerEvidence
    <2>2. MatchedIsReserved'
        BY Zenon, <1>1, <1>2 DEF Goal, MatchedIsReserved, OwnAllocs
    <2>3. DuplicateNoticed'
        BY Zenon, <1>1, <1>2 DEF Goal, DuplicateNoticed
    <2> QED BY Zenon, <2>1, <2>2, <2>3 DEF Goal
<1>5. /\ DOMAIN sess' = Session /\ sess'[s] = x
      /\ \A t \in Session \ {s} : sess'[t] = sess[t]
    BY <1>1 DEF LockTable
<1>6. LockTable'
    BY Zenon, <1>5 DEF LockTable, LocksKept
<1>7. ASSUME NEW t \in Session PROVE Tx(t, sess[t])'
    <2>1. CASE t = s
        BY Zenon, <2>1, <1>5
    <2>2. CASE t # s
        <3>1. PICK y : y = sess[t]
            BY Zenon
        <3>4. \A o \in Order : /\ lock[o] = t => lock'[o] = t
                               /\ t \in share[o] => t \in share'[o]
            BY Zenon, <2>2 DEF LocksKept
        <3>5. Tx(t, y) /\ \A i \in RunIds : RunOK(runs[i])
            BY Zenon, <3>1, <1>1 DEF Sessions, Stores
        <3>2. Tx(t, y)'
            BY Zenon, <3>4, <3>5, TxKept
        <3>3. sess'[t] = y
            BY Zenon, <2>2, <3>1, <1>5
        <3> QED BY Zenon, <3>2, <3>3
    <2> QED BY <2>1, <2>2
<1>8. ASSUME NEW t \in Session, NEW u \in Session, t # u PROVE Apart(sess'[t], sess'[u])
    BY Zenon, <1>1, <1>5, <1>8 DEF Sessions
<1>9. Sessions'
    BY Zenon, <1>7, <1>8 DEF Sessions, Apart
<1> QED BY Zenon, <1>3, <1>4, <1>6, <1>9 DEF IInv

\* A session at rest, or with runs to repair, has nothing in flight.
LEMMA RestingTx ==
    ASSUME NEW s, NEW x, x = IdleSession \/ \E todo \in Seq(RunIds') : x = RepairSession(todo)
    PROVE  Tx(s, x)' /\ \A y : Apart(x, y) /\ Apart(y, x)
<1>1. /\ x.pc \in {"idle", "repair"} /\ x.todo \in Seq(RunIds') /\ DOMAIN x.claims = {}
      /\ IsTx(x)
    <2>1. CASE x = IdleSession
        BY <2>1 DEF IdleSession, IsTx
    <2>2. CASE \E todo \in Seq(RunIds') : x = RepairSession(todo)
        <3>1. PICK todo \in Seq(RunIds') : x = RepairSession(todo)
            BY Zenon, <2>2
        <3>2. x = [pc |-> "repair", new |-> NoRun, drafts |-> {}, cmp |-> {}, todo |-> todo,
                   claims |-> <<>>]
            BY Zenon, <3>1 DEF RepairSession, IdleSession
        <3> QED BY <3>2 DEF IsTx
    <2> QED BY <2>1, <2>2
<1>2. x.pc # "flush" /\ x.pc # "fresh" /\ x.pc # "inserted"
    BY <1>1
<1> QED BY Zenon, <1>1, <1>2 DEF Tx, Apart

\* A rollback, or a commit with nothing to say.
LEMMA FinishQuiet ==
    ASSUME IInv, UNCHANGED <<done, runs, allocs, features, compared>>,
           NEW s \in Session, Finish(s)
    PROVE  IInv'
<1>1. LocksKept(s)
    BY Released DEF IInv, Finish
<1>2. sess' = [sess EXCEPT ![s] = IdleSession]
    BY DEF Finish
<1> QED BY Zenon, <1>1, <1>2, RestingTx, QuietStep

\* A request is answered with runs that exist, and sees to their assessments.
LEMMA RepairQuiet ==
    ASSUME IInv, UNCHANGED <<done, runs, allocs, features, compared>>,
           NEW s \in Session, LocksKept(s), NEW todo \in Seq(RunIds),
           sess' = [sess EXCEPT ![s] = RepairSession(todo)]
    PROVE  IInv'
<1>1. RunIds' = RunIds
    BY DEF RunIds
<1> QED BY Zenon, <1>1, RestingTx, QuietStep

\* The one run a request is answered with.
LEMMA MaxRun ==
    ASSUME Stores, NEW T \in SUBSET RunIds, T # {}
    PROVE  <<Max(T)>> \in Seq(RunIds)
<1>1. Len(runs) \in Nat
    BY DEF Stores
<1>2. Max(T) \in RunIds
    BY Zenon, <1>1, MaxIn DEF RunIds
<1> QED BY <1>2

\* What the three-way decision and the invoice's own rows say together.
LEMMA PlanSound ==
    ASSUME NEW x \in Extraction, NEW o, NEW ctx, NEW plan, plan = ThreeWayPlan(x, o, ctx)
    PROVE  /\ plan.drafts \in {{}, Assigned(x, o)}
           /\ plan.drafts # {} => plan.decision = "MATCHED" /\ ctx.own = {}
           /\ plan.decision = "MATCHED" =>
                 /\ Assigned(x, o) # {}
                 /\ ctx.own = {} => plan.drafts = Assigned(x, o)
                 /\ ctx.own # {} => Rows(ctx.own) = Rows(Assigned(x, o))
<1> DEFINE failed == ThreeWayFailures(x, o, ctx)
           matched == failed = {} /\ ~Conflict(x, o, ctx.own)
<1>1. /\ plan.decision = IF matched THEN "MATCHED" ELSE "NEEDS_REVIEW"
      /\ plan.drafts = IF matched /\ ctx.own = {} THEN Assigned(x, o) ELSE {}
    BY Zenon DEF ThreeWayPlan
<1>2. failed = {} => Assigned(x, o) # {}
    <2> SUFFICES ASSUME failed = {} PROVE Assigned(x, o) # {}
        OBVIOUS
    <2>1. BaseFailures(x, o) = {}
        BY Zenon DEF ThreeWayFailures
    <2>2. Fails(~Invoice[x].sound, "INVOICE_CHECKS") = {}
        BY Zenon, <2>1 DEF BaseFailures
    <2>3. Fails(Invoice[x].bill # Assigned(x, o), "DESCRIPTION_BELOW_THRESHOLD") = {}
        BY Zenon, <2>1 DEF BaseFailures
    <2>4. Invoice[x].sound
        BY Zenon, <2>2 DEF Fails
    <2>5. Invoice[x].bill = Assigned(x, o)
        BY Zenon, <2>3 DEF Fails
    <2> QED BY Zenon, <2>4, <2>5, InvoiceAssumption
<1>3. matched /\ ctx.own # {} => Rows(ctx.own) = Rows(Assigned(x, o))
    BY Zenon DEF Conflict
<1> HIDE DEF failed
<1>4. "MATCHED" # "NEEDS_REVIEW"
    OBVIOUS
<1> QED BY Zenon, <1>1, <1>2, <1>3, <1>4

\* A request that found no run of its kind.
LEMMA FreshTx ==
    ASSUME NEW s, NEW new, NEW plan, NEW x, x = FreshSession(new, plan), Pending(s, x)'
    PROVE  Tx(s, x)' /\ \A y : Apart(x, y) /\ Apart(y, x)
<1>0. x = [pc |-> "fresh", new |-> new, drafts |-> plan.drafts, cmp |-> {}, todo |-> <<>>,
           claims |-> <<>>]
    BY Zenon DEF FreshSession, IdleSession
<1>1. /\ x.pc = "fresh" /\ x.todo = <<>> /\ DOMAIN x.claims = {}
      /\ IsTx(x)
    BY <1>0 DEF IsTx
<1>2. x.pc # "flush" /\ x.pc # "inserted" /\ x.todo \in Seq(RunIds')
    BY <1>1
<1> QED BY Zenon, <1>1, <1>2 DEF Tx, Apart

\* A two-way request.
LEMMA TwoWayKeeps ==
    ASSUME IInv, NEW s \in Session, NEW d \in Doc, NEW o \in Order, BeginTwoWay(s, d, o)
    PROVE  IInv'
<1>0. PICK e, plan, new, existing, x :
        /\ e = CurrentExtraction(d) /\ plan = TwoWayPlan(e, o)
        /\ new = NewRun(d, o, e, "TWO_WAY", TwoWayContext, plan.decision)
        /\ existing = {i \in RunIds : SameKey(runs[i], new)} /\ x = FreshSession(new, plan)
    BY Zenon
<1>1. /\ UNCHANGED <<done, runs, allocs, features, compared>> /\ UNCHANGED <<lock, share>>
      /\ sess' = [sess EXCEPT ![s] = IF existing = {} THEN x
                                     ELSE RepairSession(<<Max(existing)>>)]
    BY Zenon, <1>0 DEF BeginTwoWay
<1>2. Stores /\ LockTable /\ LocksKept(s)
    BY Zenon, <1>1, Untouched DEF IInv
<1>3. e \in Extraction
    BY Zenon, <1>0, <1>2, CurrentIn DEF BeginTwoWay, Stores
<1>4. existing \in SUBSET RunIds
    BY Zenon, <1>0
<1>5. plan.drafts = {}
    BY Zenon, <1>0 DEF TwoWayPlan
<1>6. /\ new.order = o /\ new.ext = e /\ new.mode = "TWO_WAY" /\ new.ctx = TwoWayContext
      /\ x.new = new /\ x.drafts = {}
    <2>1. /\ new.order = o /\ new.ext = e /\ new.mode = "TWO_WAY" /\ new.ctx = TwoWayContext
        BY Zenon, <1>0 DEF NewRun
    <2>2. x.new = new /\ x.drafts = plan.drafts
        BY Zenon, <1>0 DEF FreshSession, IdleSession
    <2> QED BY Zenon, <2>1, <2>2, <1>5
<1>7. "TWO_WAY" # "THREE_WAY"
    OBVIOUS
<1>8. Pending(s, x)'
    BY Zenon, <1>3, <1>6, <1>7 DEF Pending, RunOK
<1>9. CASE existing = {}
    <2>1. sess' = [sess EXCEPT ![s] = x]
        BY Zenon, <1>1, <1>9
    <2>2. Tx(s, x)' /\ \A y : Apart(x, y) /\ Apart(y, x)
        BY Zenon, <1>0, <1>8, FreshTx
    <2> QED BY Zenon, <1>1, <1>2, <2>1, <2>2, QuietStep
<1>10. CASE existing # {}
    <2>1. sess' = [sess EXCEPT ![s] = RepairSession(<<Max(existing)>>)]
        BY Zenon, <1>1, <1>10
    <2>2. <<Max(existing)>> \in Seq(RunIds)
        BY Zenon, <1>2, <1>4, <1>10, MaxRun
    <2> QED BY Zenon, <1>1, <1>2, <2>1, <2>2, RepairQuiet
<1> QED BY <1>9, <1>10

\* A three-way request holds the order's row lock from here on.
LEMMA ThreeWayKeeps ==
    ASSUME IInv, NEW s \in Session, NEW d \in Doc, NEW o \in Order, BeginThreeWay(s, d, o)
    PROVE  IInv'
<1>0. PICK e, ctx, plan, new, x :
        /\ e = CurrentExtraction(d) /\ ctx = Context(d, o) /\ plan = ThreeWayPlan(e, o, ctx)
        /\ new = NewRun(d, o, e, "THREE_WAY", ctx, plan.decision) /\ x = FreshSession(new, plan)
    BY Zenon
<1>1. /\ UNCHANGED <<done, runs, allocs, features, compared>> /\ LockOrder(s, o) /\ UNCHANGED share
      /\ sess' = [sess EXCEPT ![s] = IF ReplayOf(new) = {} THEN x
                                     ELSE RepairSession(<<Max(ReplayOf(new))>>)]
    BY Zenon, <1>0 DEF BeginThreeWay
<1>2. Stores /\ LockTable /\ LocksKept(s) /\ lock'[o] = s
    BY Zenon, <1>1, Locked DEF IInv
<1>3. e \in Extraction
    BY Zenon, <1>0, <1>2, CurrentIn DEF BeginThreeWay, Stores
<1>4. ReplayOf(new) \in SUBSET RunIds
    BY Zenon DEF ReplayOf
<1>5. /\ new.doc = d /\ new.order = o /\ new.ext = e /\ new.mode = "THREE_WAY"
      /\ new.decision = plan.decision
    BY Zenon, <1>0 DEF NewRun
<1>6. x.new = new /\ x.drafts = plan.drafts
    BY Zenon, <1>0 DEF FreshSession, IdleSession
<1>7. ctx.own = OwnAllocs(d, o) /\ OwnAllocs(d, o)' = OwnAllocs(d, o)
    BY Zenon, <1>0, <1>1 DEF Context, OwnAllocs
<1>8. Planned(x)'
    <2>1. /\ plan.drafts \in {{}, Assigned(e, o)}
          /\ plan.drafts # {} => plan.decision = "MATCHED" /\ ctx.own = {}
          /\ plan.decision = "MATCHED" =>
                /\ Assigned(e, o) # {}
                /\ ctx.own = {} => plan.drafts = Assigned(e, o)
                /\ ctx.own # {} => Rows(ctx.own) = Rows(Assigned(e, o))
        <3>1. plan = ThreeWayPlan(e, o, ctx)
            BY Zenon, <1>0
        <3> QED BY ZenonT(60), <3>1, <1>3, PlanSound
    <2> QED BY Zenon, <2>1, <1>5, <1>6, <1>7 DEF Planned
<1>9. CASE ReplayOf(new) = {}
    <2>1. sess' = [sess EXCEPT ![s] = x]
        BY Zenon, <1>1, <1>9
    <2>2. \A i \in RunIds' : ~SameEvidence(runs'[i], new)
        BY Zenon, <1>1, <1>9 DEF ReplayOf, SameEvidence, RunIds
    <2>3. new.mode # "TWO_WAY"
        BY <1>5
    <2>4. Pending(s, x)'
        BY Zenon, <1>2, <1>3, <1>5, <1>6, <1>8, <2>2, <2>3 DEF Pending, RunOK
    <2>5. Tx(s, x)' /\ \A y : Apart(x, y) /\ Apart(y, x)
        BY Zenon, <1>0, <2>4, FreshTx
    <2> QED BY Zenon, <1>1, <1>2, <2>1, <2>5, QuietStep
<1>10. CASE ReplayOf(new) # {}
    <2>1. sess' = [sess EXCEPT ![s] = RepairSession(<<Max(ReplayOf(new))>>)]
        BY Zenon, <1>1, <1>10
    <2>2. <<Max(ReplayOf(new))>> \in Seq(RunIds)
        BY Zenon, <1>2, <1>4, <1>10, MaxRun
    <2> QED BY Zenon, <1>1, <1>2, <2>1, <2>2, RepairQuiet
<1> QED BY <1>9, <1>10

\* How one field of a session's state changes: the others are as they were.
LEMMA SetPc ==
    ASSUME NEW y, IsTx(y), NEW v, NEW z, z = [y EXCEPT !.pc = v]
    PROVE  z = [pc |-> v, new |-> y.new, drafts |-> y.drafts, cmp |-> y.cmp,
                todo |-> y.todo, claims |-> y.claims]
BY SMT DEF IsTx

\* The same for the runs a repair still has to do.
LEMMA SetTodo ==
    ASSUME NEW y, IsTx(y), NEW v, NEW z, z = [y EXCEPT !.todo = v]
    PROVE  z = [pc |-> y.pc, new |-> y.new, drafts |-> y.drafts, cmp |-> y.cmp,
                todo |-> v, claims |-> y.claims]
BY SMT DEF IsTx

\* The same for the runs an assessment is compared with.
LEMMA SetCmp ==
    ASSUME NEW y, IsTx(y), NEW v, NEW z, z = [y EXCEPT !.cmp = v]
    PROVE  z = [pc |-> y.pc, new |-> y.new, drafts |-> y.drafts, cmp |-> v,
                todo |-> y.todo, claims |-> y.claims]
BY SMT DEF IsTx

\* The same for the runs a repair has written.
LEMMA SetClaims ==
    ASSUME NEW y, IsTx(y), NEW v, NEW z, z = [y EXCEPT !.claims = v]
    PROVE  z = [pc |-> y.pc, new |-> y.new, drafts |-> y.drafts, cmp |-> y.cmp,
                todo |-> y.todo, claims |-> v]
BY SMT DEF IsTx

\* Two-way runs of the same evidence have the same unique key.
LEMMA TwoWayKey ==
    ASSUME NEW r, NEW q, RunOK(r), RunOK(q), SameEvidence(r, q), r.mode = "TWO_WAY"
    PROVE  SameKey(r, q) /\ SameKey(q, r)
BY Zenon DEF RunOK, SameEvidence, SameKey

\* The rows of a run are written: the unique key and, in three-way mode, the row
\* lock keep every other transaction from writing the same run.
LEMMA InsertKeeps ==
    ASSUME IInv, NEW s \in Session, Insert(s)
    PROVE  IInv'
<1>0. PICK y, found, x :
        /\ y = sess[s] /\ found = Suspects(y.new.doc, y.new.ext, features)
        /\ x = [pc |-> "inserted", new |-> y.new, drafts |-> y.drafts, cmp |-> found,
                todo |-> y.todo, claims |-> y.claims]
    BY Zenon
<1>a. Stores /\ LockTable /\ Sessions
    BY DEF IInv
<1>b. Tx(s, y) /\ (\A i \in RunIds : RunOK(runs[i])) /\ s \in DOMAIN sess
    BY Zenon, <1>0, <1>a DEF Sessions, Stores, LockTable
<1>1. /\ y.pc = "fresh" /\ CanShare(s, y.new.order) /\ ~KeyInFlight(s) /\ ~KeyTaken(s)
      /\ UNCHANGED <<done, runs, allocs, features, compared>> /\ UNCHANGED lock
      /\ share' = [share EXCEPT ![y.new.order] = @ \cup {s}]
    BY Zenon, <1>0 DEF Insert
<1>2. Pending(s, y) /\ RunOK(y.new) /\ y.new.order \in Order
    BY Zenon, <1>b, <1>1 DEF Tx, Pending, RunOK
<1>3. LocksKept(s) /\ s \in share'[y.new.order]
    BY Zenon, <1>a, <1>1, <1>2, Shared
<1>4. sess' = [sess EXCEPT ![s] = x]
    <2>1. PICK z : z = [y EXCEPT !.pc = "inserted"]
        BY Zenon
    <2>c. PICK u : u = [z EXCEPT !.cmp = found]
        BY Zenon
    <2>2. IsTx(y)
        BY Zenon, <1>b DEF Tx
    <2>3. z = [pc |-> "inserted", new |-> y.new, drafts |-> y.drafts, cmp |-> y.cmp,
               todo |-> y.todo, claims |-> y.claims]
        BY Zenon, <2>1, <2>2, SetPc
    <2>a. /\ IsTx(z) /\ z.pc = "inserted" /\ z.new = y.new /\ z.drafts = y.drafts
          /\ z.todo = y.todo /\ z.claims = y.claims
        BY <2>3 DEF IsTx
    <2>d. IsTx(z)
        BY <2>a
    <2>b. u = [pc |-> z.pc, new |-> z.new, drafts |-> z.drafts, cmp |-> found,
               todo |-> z.todo, claims |-> z.claims]
        BY Zenon, <2>c, <2>d, SetCmp
    <2>4. u = x
        BY Zenon, <2>a, <2>b, <1>0
    <2>5. sess' = [sess EXCEPT ![s].pc = "inserted", ![s].cmp = found]
        BY Zenon, <1>0 DEF Insert
    <2>6. sess' = [sess EXCEPT ![s] = u]
        BY Zenon, <2>1, <2>c, <2>5, <1>0, <1>b
    <2> QED BY Zenon, <2>4, <2>6
<1>5. /\ x.pc = "inserted" /\ x.new = y.new /\ x.drafts = y.drafts /\ x.cmp = found
      /\ x.todo = y.todo /\ x.claims = y.claims
      /\ IsTx(x)
    BY Zenon, <1>0 DEF IsTx
<1>6. RunIds' = RunIds
    BY <1>1 DEF RunIds
<1>7. \A i \in RunIds : ~SameEvidence(runs[i], y.new)
    <2> SUFFICES ASSUME NEW i \in RunIds, SameEvidence(runs[i], y.new) PROVE FALSE
        BY Zenon
    <2>1. y.new.mode = "TWO_WAY"
        BY Zenon, <1>2 DEF Pending, RunOK
    <2>2. runs[i].mode = "TWO_WAY"
        BY Zenon, <2>1 DEF SameEvidence
    <2>3. SameKey(runs[i], y.new)
        BY Zenon, <2>2, <1>b, <1>2, TwoWayKey
    <2> QED BY Zenon, <2>3, <1>0, <1>1 DEF KeyTaken
<1>8. \A j \in features : Duplicates(y.new, runs[j]) => j \in found
    BY Zenon, <1>0 DEF Duplicates, Suspects
<1>9. Written(s, x)'
    BY Zenon, <1>1, <1>3, <1>5, <1>6, <1>7, <1>8 DEF Written
<1>10. Tx(s, y)'
    <2>1. \A o \in Order : s \in share[o] => s \in share'[o]
        BY <1>1, <1>2, <1>a DEF LockTable
    <2> QED BY Zenon, <2>1, <1>b, <1>1, TxKept
<1>11. Pending(s, x)'
    <2>1. Pending(s, y)'
        BY Zenon, <1>10, <1>1 DEF Tx
    <2> QED BY Zenon, <2>1, <1>5 DEF Pending, Planned
<1>12. Tx(s, x)'
    <2>1. x.pc # "flush"
        BY <1>5
    <2>2. x.todo \in Seq(RunIds') /\ \A r \in DOMAIN x.claims : Claim(s, r, x.claims[r])'
        BY Zenon, <1>5, <1>10 DEF Tx
    <2> QED BY Zenon, <1>5, <1>9, <1>11, <2>1, <2>2 DEF Tx
<1>13. ASSUME NEW t \in Session \ {s} PROVE Apart(x, sess[t]) /\ Apart(sess[t], x)
    <2> SUFFICES ASSUME sess[t].pc = "inserted",
                        SameEvidence(x.new, sess[t].new) \/ SameEvidence(sess[t].new, x.new)
                 PROVE  FALSE
        BY Zenon DEF Apart
    <2>1. SameEvidence(y.new, sess[t].new) /\ y.new.mode = sess[t].new.mode
          /\ y.new.order = sess[t].new.order
        BY Zenon, <1>5 DEF SameEvidence
    <2>2. Pending(t, sess[t]) /\ RunOK(sess[t].new)
        BY Zenon, <1>a DEF Sessions, Tx, Pending
    <2>3. CASE y.new.mode = "THREE_WAY"
        BY Zenon, <2>1, <2>2, <2>3, <1>2 DEF Pending
    <2>4. CASE y.new.mode = "TWO_WAY"
        <3>1. SameKey(sess[t].new, y.new)
            BY Zenon, <2>1, <2>2, <2>4, <1>2, TwoWayKey
        <3> QED BY Zenon, <3>1, <1>0, <1>1 DEF KeyInFlight
    <2> QED BY Zenon, <1>2, <2>3, <2>4 DEF RunOK
<1> QED BY Zenon, <1>1, <1>3, <1>4, <1>12, <1>13, QuietStep

\* A concurrent request committed the same run first.
LEMMA CollidesKeeps ==
    ASSUME IInv, NEW s \in Session, InsertCollides(s)
    PROVE  IInv'
<1>1. PICK T : T = {i \in RunIds : SameKey(runs[i], sess[s].new)}
    BY Zenon
<1>2. T \in SUBSET RunIds /\ T # {}
    BY Zenon, <1>1 DEF InsertCollides, KeyTaken
<1>3. <<Max(T)>> \in Seq(RunIds)
    BY Zenon, <1>2, MaxRun DEF IInv
<1>4. LocksKept(s)
    BY Zenon, Released DEF IInv, InsertCollides
<1>5. /\ sess' = [sess EXCEPT ![s] = RepairSession(<<Max(T)>>)]
      /\ UNCHANGED <<done, runs, allocs, features, compared>>
    BY Zenon, <1>1 DEF InsertCollides
<1> QED BY Zenon, <1>3, <1>4, <1>5, RepairQuiet

\* DuplicateRiskService.reconcile looks at every run.
LEMMA ReconcileKeeps ==
    ASSUME IInv, NEW s \in Session, ReconcileStart(s)
    PROVE  IInv'
<1>1. PICK todo : todo = [i \in RunIds |-> i]
    BY Zenon
<1>2. Len(runs) \in Nat
    BY DEF IInv, Stores
<1>3. todo \in Seq(RunIds)
    BY <1>1, <1>2 DEF RunIds
<1>4. LocksKept(s)
    BY Zenon, Untouched DEF IInv, ReconcileStart
<1>5. /\ sess' = [sess EXCEPT ![s] = RepairSession(todo)]
      /\ UNCHANGED <<done, runs, allocs, features, compared>>
    BY Zenon, <1>1 DEF ReconcileStart
<1> QED BY Zenon, <1>3, <1>4, <1>5, RepairQuiet

\* A repair that goes on has what it had, and no new run in flight.
LEMMA RepairTx ==
    ASSUME IInv, UNCHANGED <<done, runs, allocs, features, compared>>,
           NEW s \in Session, LocksKept(s),
           \A o \in Order : /\ lock[o] = s => lock'[o] = s
                            /\ s \in share[o] => s \in share'[o],
           NEW y, y = sess[s], NEW x, IsTx(x), sess' = [sess EXCEPT ![s] = x],
           x.pc \in {"repair", "flush"}, x.todo \in Seq(RunIds),
           x.pc = "flush" => x.todo # <<>>,
           \A r \in DOMAIN x.claims :
              \/ r \in DOMAIN y.claims /\ x.claims[r] = y.claims[r]
              \/ Claim(s, r, x.claims[r])'
    PROVE  IInv'
<1>1. Stores /\ LockTable /\ Sessions
    BY DEF IInv
<1>2. Tx(s, y) /\ \A i \in RunIds : RunOK(runs[i])
    BY Zenon, <1>1 DEF Sessions, Stores
<1>3. Tx(s, y)'
    BY Zenon, <1>2, TxKept
<1>4. \A r \in DOMAIN x.claims : Claim(s, r, x.claims[r])'
    BY Zenon, <1>3 DEF Tx
<1>5. x.pc # "fresh" /\ x.pc # "inserted"
    OBVIOUS
<1>6. RunIds' = RunIds
    BY DEF RunIds
<1>7. Tx(s, x)' /\ \A z : Apart(x, z) /\ Apart(z, x)
    BY Zenon, <1>4, <1>5, <1>6 DEF Tx, Apart
<1> QED BY Zenon, <1>7, QuietStep

\* A repair looks at the next run.
LEMMA RepairReadKeeps ==
    ASSUME IInv, NEW s \in Session, RepairRead(s)
    PROVE  IInv'
<1>0. PICK y : y = sess[s]
    BY Zenon
<1>1. Stores /\ LockTable /\ Sessions
    BY DEF IInv
<1>2. Tx(s, y) /\ IsTx(y) /\ y.todo \in Seq(RunIds)
    BY Zenon, <1>0, <1>1 DEF Sessions, Tx
<1>3. /\ y.pc = "repair" /\ y.todo # <<>>
      /\ UNCHANGED <<done, runs, allocs, features, compared>> /\ UNCHANGED <<lock, share>>
    BY Zenon, <1>0 DEF RepairRead
<1>4. LocksKept(s) /\ \A o \in Order : /\ lock[o] = s => lock'[o] = s
                                       /\ s \in share[o] => s \in share'[o]
    BY Zenon, <1>1, <1>3, Untouched
<1>5. CASE Head(y.todo) \in DOMAIN compared
    <2>1. PICK x : x = [y EXCEPT !.todo = Tail(y.todo)]
        BY Zenon
    <2>2. sess' = [sess EXCEPT ![s] = x]
        BY Zenon, <2>1, <1>0, <1>5 DEF RepairRead
    <2>3. IsTx(y)
        BY <1>2
    <2>4. x = [pc |-> y.pc, new |-> y.new, drafts |-> y.drafts, cmp |-> y.cmp,
               todo |-> Tail(y.todo), claims |-> y.claims]
        BY Zenon, <2>1, <2>3, SetTodo
    <2>5. IsTx(x) /\ x.pc = y.pc /\ x.todo = Tail(y.todo) /\ x.claims = y.claims
        BY <2>4 DEF IsTx
    <2>6. Tail(y.todo) \in Seq(RunIds)
        BY <1>2, <1>3
    <2>7. x.pc \in {"repair", "flush"} /\ x.pc # "flush"
        BY <2>5, <1>3
    <2>8. \A r \in DOMAIN x.claims : r \in DOMAIN y.claims /\ x.claims[r] = y.claims[r]
        BY Zenon, <2>5
    <2>9. x.todo \in Seq(RunIds)
        BY Zenon, <2>5, <2>6
    <2> QED BY ZenonT(60), <1>0, <1>3, <1>4, <2>2, <2>5, <2>7, <2>8, <2>9, RepairTx
<1>6. CASE Head(y.todo) \notin DOMAIN compared
    <2>1. PICK x : x = [y EXCEPT !.pc = "flush"]
        BY Zenon
    <2>2. sess' = [sess EXCEPT ![s] = x]
        BY Zenon, <2>1, <1>0, <1>6 DEF RepairRead
    <2>3. IsTx(y)
        BY <1>2
    <2>4. x = [pc |-> "flush", new |-> y.new, drafts |-> y.drafts, cmp |-> y.cmp,
               todo |-> y.todo, claims |-> y.claims]
        BY Zenon, <2>1, <2>3, SetPc
    <2>5. IsTx(x) /\ x.pc = "flush" /\ x.todo = y.todo /\ x.claims = y.claims
        BY <2>4 DEF IsTx
    <2>8. \A r \in DOMAIN x.claims : r \in DOMAIN y.claims /\ x.claims[r] = y.claims[r]
        BY Zenon, <2>5
    <2> QED BY Zenon, <1>0, <1>2, <1>3, <1>4, <2>2, <2>5, <2>8, RepairTx
<1> QED BY <1>5, <1>6

\* The assessment of one more run is written: a two-way run, since the others
\* have theirs.
LEMMA RepairFlushKeeps ==
    ASSUME IInv, NEW s \in Session, RepairFlush(s)
    PROVE  IInv'
<1>0. PICK y, r, found, claims :
        /\ y = sess[s] /\ r = Head(y.todo)
        /\ found = Suspects(runs[r].doc, runs[r].ext, RepairView(s))
        /\ claims = Merge(y.claims, [i \in {r} |-> found])
    BY Zenon
<1>1. Stores /\ LockTable /\ Sessions
    BY DEF IInv
<1>2. Tx(s, y) /\ IsTx(y) /\ y.todo \in Seq(RunIds)
    BY Zenon, <1>0, <1>1 DEF Sessions, Tx
<1>3. /\ y.pc = "flush" /\ r \notin DOMAIN compared /\ CanShare(s, runs[r].order)
      /\ UNCHANGED <<done, runs, allocs, features, compared>> /\ UNCHANGED lock
      /\ share' = [share EXCEPT ![runs[r].order] = @ \cup {s}]
    BY Zenon, <1>0 DEF RepairFlush
<1>4. y.todo # <<>>
    BY Zenon, <1>2, <1>3 DEF Tx
<1>5. r \in RunIds /\ Tail(y.todo) \in Seq(RunIds)
    <2>1. r = Head(y.todo)
        BY Zenon, <1>0
    <2> QED BY <2>1, <1>2, <1>4
<1>6. RunOK(runs[r]) /\ runs[r].mode = "TWO_WAY" /\ runs[r].order \in Order
    BY Zenon, <1>1, <1>3, <1>5 DEF Stores, RunOK
<1>7. LocksKept(s) /\ s \in share'[runs[r].order]
    BY Zenon, <1>1, <1>3, <1>6, Shared
<1>8. \A o \in Order : s \in share[o] => s \in share'[o]
    BY <1>1, <1>3, <1>6 DEF LockTable
<1>9. PICK x : x = [pc |-> "repair", new |-> y.new, drafts |-> y.drafts, cmp |-> y.cmp,
                    todo |-> Tail(y.todo), claims |-> claims]
    BY Zenon
<1>10. sess' = [sess EXCEPT ![s] = x]
    <2>1. PICK z : z = [y EXCEPT !.pc = "repair"]
        BY Zenon
    <2>2. PICK t : t = [z EXCEPT !.todo = Tail(y.todo)]
        BY Zenon
    <2>3. PICK u : u = [t EXCEPT !.claims = claims]
        BY Zenon
    <2>4. IsTx(y)
        BY <1>2
    <2>5. z = [pc |-> "repair", new |-> y.new, drafts |-> y.drafts, cmp |-> y.cmp,
               todo |-> y.todo, claims |-> y.claims]
        BY Zenon, <2>1, <2>4, SetPc
    <2>6. IsTx(z)
        BY <2>5 DEF IsTx
    <2>7. t = [pc |-> z.pc, new |-> z.new, drafts |-> z.drafts, cmp |-> z.cmp,
               todo |-> Tail(y.todo), claims |-> z.claims]
        BY Zenon, <2>2, <2>6, SetTodo
    <2>8. IsTx(t)
        BY <2>7 DEF IsTx
    <2>9. u = [pc |-> t.pc, new |-> t.new, drafts |-> t.drafts, cmp |-> t.cmp,
               todo |-> t.todo, claims |-> claims]
        BY Zenon, <2>3, <2>8, SetClaims
    <2>10. /\ z.pc = "repair" /\ z.new = y.new /\ z.drafts = y.drafts /\ z.cmp = y.cmp
           /\ z.todo = y.todo /\ z.claims = y.claims
        BY Zenon, <2>5
    <2>11. /\ t.pc = "repair" /\ t.new = y.new /\ t.drafts = y.drafts /\ t.cmp = y.cmp
           /\ t.todo = Tail(y.todo) /\ t.claims = y.claims
        BY Zenon, <2>7, <2>10
    <2>12. u = x
        BY Zenon, <2>9, <2>11, <1>9
    <2>13. sess' = [sess EXCEPT ![s] = u]
        <3>1. s \in DOMAIN sess
            BY <1>1 DEF LockTable
        <3>2. sess' = [sess EXCEPT ![s].pc = "repair", ![s].todo = Tail(@),
                         ![s].claims = Merge(@, [i \in {r} |-> found])]
            BY Zenon, <1>0 DEF RepairFlush
        <3>3. sess' = [sess EXCEPT ![s] =
                [[[y EXCEPT !.pc = "repair"] EXCEPT !.todo = Tail(y.todo)]
                    EXCEPT !.claims = claims]]
            BY Zenon, <3>1, <3>2, <1>0
        <3> QED BY Zenon, <3>3, <2>1, <2>2, <2>3
    <2> QED BY Zenon, <2>12, <2>13
<1>11. IsTx(x) /\ x.pc = "repair" /\ x.todo = Tail(y.todo) /\ x.claims = claims
    BY <1>9 DEF IsTx
<1>12. Claim(s, r, found)'
    <2>1. \A j \in features : Duplicates(runs[r], runs[j]) => j \in found
        BY Zenon, <1>0 DEF Duplicates, Suspects, RepairView
    <2>2. RunIds' = RunIds
        BY <1>3 DEF RunIds
    <2> QED BY Zenon, <1>3, <1>5, <1>6, <1>7, <2>1, <2>2 DEF Claim
<1>13. ASSUME NEW q \in DOMAIN x.claims
       PROVE  \/ q \in DOMAIN y.claims /\ x.claims[q] = y.claims[q]
              \/ Claim(s, q, x.claims[q])'
    <2>1. claims = [i \in DOMAIN y.claims \cup {r} |-> IF i \in {r} THEN found ELSE y.claims[i]]
        BY Zenon, <1>0 DEF Merge
    <2>2. CASE q = r
        BY Zenon, <2>1, <2>2, <1>11, <1>12
    <2>3. CASE q # r
        BY Zenon, <2>1, <2>3, <1>11
    <2> QED BY <2>2, <2>3
<1>14. x.pc \in {"repair", "flush"} /\ x.pc # "flush"
    BY <1>11
<1>15. \A o \in Order : /\ lock[o] = s => lock'[o] = s
                        /\ s \in share[o] => s \in share'[o]
    BY Zenon, <1>3, <1>8
<1> QED BY Zenon, <1>0, <1>3, <1>5, <1>7, <1>10, <1>11, <1>13, <1>14, <1>15, RepairTx

-----------------------------------------------------------------------------
(* The commit of a run *)

\* The stores after a commit of the run new, with the rows of drafts and the
\* comparison cmp.
Stored3(new, drafts, cmp) ==
    /\ runs' = Append(runs, new)
    /\ allocs' = allocs \cup {Allocation(new, Len(runs) + 1, b) : b \in drafts}
    /\ features' = features \cup {Len(runs) + 1}
    /\ compared' = Merge(compared, [i \in {Len(runs) + 1} |-> cmp])
    /\ done' = done

\* What was stored before is there, and the new run is the last.
LEMMA CommitFacts ==
    ASSUME Stores, NEW new, NEW drafts, NEW cmp, Stored3(new, drafts, cmp),
           NEW id, id = Len(runs) + 1
    PROVE  /\ runs' \in Seq({runs'[i] : i \in DOMAIN runs'})
           /\ RunIds' = RunIds \cup {id} /\ id \notin RunIds /\ RunIds \subseteq Nat
           /\ \A i \in RunIds : runs'[i] = runs[i]
           /\ runs'[id] = new
           /\ features' = features \cup {id} /\ DOMAIN compared' = features'
           /\ \A i \in features : compared'[i] = compared[i]
           /\ compared'[id] = cmp
<1>1. runs \in Seq({runs[i] : i \in DOMAIN runs})
    BY Zenon DEF Stores
<1>2. /\ runs' \in Seq({runs'[i] : i \in DOMAIN runs'})
      /\ Len(runs) \in Nat /\ Len(runs') = Len(runs) + 1
      /\ \A i \in 1..Len(runs) : runs'[i] = runs[i]
      /\ runs'[Len(runs) + 1] = new
    <2>1. runs' = Append(runs, new)
        BY Zenon DEF Stored3
    <2>2. PICK p : p = runs
        BY Zenon
    <2>3. PICK q : q = runs'
        BY Zenon
    <2>4. p \in Seq({p[i] : i \in DOMAIN p}) /\ q = Append(p, new)
        BY Zenon, <1>1, <2>1, <2>2, <2>3
    <2>5. /\ q \in Seq({q[i] : i \in DOMAIN q})
          /\ Len(p) \in Nat /\ Len(q) = Len(p) + 1
          /\ \A i \in 1..Len(p) : q[i] = p[i]
          /\ q[Len(p) + 1] = new
        <3>1. Lengthens(q, p, new)
            BY Zenon, <2>4, Appended
        <3> QED BY Zenon, <3>1 DEF Lengthens
    <2> QED BY Zenon, <2>2, <2>3, <2>5
<1>3. RunIds' = RunIds \cup {id} /\ id \notin RunIds /\ RunIds \subseteq Nat
    BY <1>2 DEF RunIds
<1>4. features \subseteq RunIds /\ DOMAIN compared = features
    BY Zenon DEF Stores
<1>5. features' = features \cup {id}
    BY Zenon DEF Stored3
<1>6. compared' = [i \in features \cup {id} |-> IF i \in {id} THEN cmp ELSE compared[i]]
    BY Zenon, <1>4 DEF Stored3, Merge
<1>7. DOMAIN compared' = features' /\ compared'[id] = cmp
    BY <1>5, <1>6
<1>8. \A i \in features : compared'[i] = compared[i]
    BY <1>3, <1>4, <1>6
<1> QED BY Zenon, <1>2, <1>3, <1>5, <1>7, <1>8 DEF RunIds

\* The rows a commit adds.
LEMMA AllocationFields ==
    ASSUME NEW new, NEW id, NEW b, NEW a, a = Allocation(new, id, b)
    PROVE  /\ a.doc = new.doc /\ a.order = new.order /\ a.run = id
           /\ a.idx = b.idx /\ a.line = b.line /\ a.qty = Stored(b.qty)
BY Zenon DEF Allocation

\* An order's allocations change with a commit for that order only.
LEMMA OwnKept ==
    ASSUME NEW new, NEW drafts, NEW cmp, Stored3(new, drafts, cmp), NEW d, NEW o,
           drafts = {} \/ d # new.doc \/ o # new.order
    PROVE  OwnAllocs(d, o)' = OwnAllocs(d, o)
<1>1. ASSUME NEW a, a.doc = d, a.order = o PROVE a \in allocs' <=> a \in allocs
    <2>1. ASSUME NEW b \in drafts PROVE a # Allocation(new, Len(runs) + 1, b)
        <3>1. PICK e : e = Allocation(new, Len(runs) + 1, b)
            BY Zenon
        <3>2. e.doc = new.doc /\ e.order = new.order
            BY <3>1, AllocationFields
        <3> QED BY Zenon, <1>1, <2>1, <3>1, <3>2
    <2> QED BY Zenon, <2>1 DEF Stored3
<1> QED BY Zenon, <1>1 DEF OwnAllocs

\* The first rows of an invoice on an order.
LEMMA OwnNew ==
    ASSUME NEW new, NEW drafts, NEW cmp, Stored3(new, drafts, cmp),
           OwnAllocs(new.doc, new.order) = {}
    PROVE  OwnAllocs(new.doc, new.order)' = {Allocation(new, Len(runs) + 1, b) : b \in drafts}
<1>1. ASSUME NEW b \in drafts, NEW a, a = Allocation(new, Len(runs) + 1, b)
      PROVE  a.doc = new.doc /\ a.order = new.order
    BY <1>1, AllocationFields
<1> QED BY Zenon, <1>1 DEF OwnAllocs, Stored3

\* The lines of an invoice as rows.
LEMMA BillRows ==
    ASSUME NEW x \in Extraction, NEW o
    PROVE  /\ \A b \in Assigned(x, o) : /\ b.qty \in Int
                                        /\ b = [idx |-> b.idx, line |-> b.line, qty |-> b.qty]
                                        /\ [b EXCEPT !.qty = Stored(b.qty)] =
                                             [idx |-> b.idx, line |-> b.line, qty |-> Stored(b.qty)]
           /\ Rows(Assigned(x, o)) = Assigned(x, o)
<1>1. \A b \in Assigned(x, o) : b.qty \in Int /\ b = [idx |-> b.idx, line |-> b.line, qty |-> b.qty]
    BY Zenon, InvoiceAssumption DEF Assigned
<1>2. ASSUME NEW b \in Assigned(x, o)
      PROVE  [b EXCEPT !.qty = Stored(b.qty)] =
               [idx |-> b.idx, line |-> b.line, qty |-> Stored(b.qty)]
    <2>1. b = [idx |-> b.idx, line |-> b.line, qty |-> b.qty]
        BY <1>1
    <2> QED BY SMT, <2>1
<1>3. Rows(Assigned(x, o)) = Assigned(x, o)
    <2>1. ASSUME NEW b PROVE b \in Rows(Assigned(x, o)) <=> b \in Assigned(x, o)
        BY <1>1 DEF Rows
    <2> QED BY <2>1
<1> QED BY Zenon, <1>1, <1>2, <1>3

\* A commit leaves the stores in order.
LEMMA CommitStores ==
    ASSUME Stores, NEW new, NEW drafts, NEW cmp, Stored3(new, drafts, cmp),
           RunOK(new), drafts \subseteq Assigned(new.ext, new.order),
           MatchedRun(new) => Assigned(new.ext, new.order) # {}
    PROVE  Stores'
<1>1. PICK id : id = Len(runs) + 1
    BY Zenon
<1>2. /\ runs' \in Seq({runs'[i] : i \in DOMAIN runs'})
      /\ RunIds' = RunIds \cup {id} /\ id \notin RunIds
      /\ \A i \in RunIds : runs'[i] = runs[i]
      /\ runs'[id] = new
      /\ features' = features \cup {id} /\ DOMAIN compared' = features'
    BY <1>1, CommitFacts
<1>3. \A i \in RunIds' : RunOK(runs'[i])
    BY Zenon, <1>2 DEF Stores
<1>4. \A i \in RunIds' : runs'[i].mode = "THREE_WAY" => i \in features'
    BY Zenon, <1>2 DEF Stores
<1>5. \A i \in RunIds' : MatchedRun(runs'[i]) => Assigned(runs'[i].ext, runs'[i].order) # {}
    BY Zenon, <1>2 DEF Stores
<1>6. ASSUME NEW a \in allocs'
      PROVE  /\ a.run \in RunIds' /\ Stored(a.qty) = a.qty
             /\ a.doc = runs'[a.run].doc /\ a.order = runs'[a.run].order
    <2>1. CASE a \in allocs
        BY Zenon, <2>1, <1>2 DEF Stores
    <2>2. CASE a \notin allocs
        <3>1. PICK b \in drafts : a = Allocation(new, id, b)
            BY Zenon, <1>1, <2>2 DEF Stored3
        <3>2. a.doc = new.doc /\ a.order = new.order /\ a.run = id /\ a.qty = Stored(b.qty)
            BY <3>1, AllocationFields
        <3>3. new.ext \in Extraction /\ b \in Assigned(new.ext, new.order)
            BY Zenon DEF RunOK
        <3>4. b.qty \in Int
            BY Zenon, <3>3, BillRows
        <3>5. Stored(Stored(b.qty)) = Stored(b.qty)
            BY Zenon, <3>4, StoredOnce
        <3> QED BY Zenon, <3>2, <3>5, <1>2
    <2> QED BY <2>1, <2>2
<1>7. done' \subseteq Extraction /\ features' \subseteq RunIds'
    BY Zenon, <1>2 DEF Stores, Stored3
<1>8. \A i \in RunIds' : RunOK(runs[i])'
    BY Zenon, <1>3 DEF RunOK
<1>9. \A i \in RunIds' : (MatchedRun(runs[i]) => Assigned(runs[i].ext, runs[i].order) # {})'
    BY Zenon, <1>5 DEF MatchedRun, Assigned
<1>10. \A a \in allocs' : (/\ a.run \in RunIds /\ Stored(a.qty) = a.qty
                           /\ a.doc = runs[a.run].doc /\ a.order = runs[a.run].order)'
    BY Zenon, <1>6 DEF Stored
<1> QED BY Zenon, <1>2, <1>4, <1>7, <1>8, <1>9, <1>10 DEF Stores

\* The evidence is decided once, because a request looks before it writes.
LEMMA CommitOneRun ==
    ASSUME Stores, NEW new, NEW drafts, NEW cmp, Stored3(new, drafts, cmp),
           OneRunPerEvidence, \A i \in RunIds : ~SameEvidence(runs[i], new)
    PROVE  OneRunPerEvidence'
<1>1. PICK id : id = Len(runs) + 1
    BY Zenon
<1>2. /\ RunIds' = RunIds \cup {id}
      /\ \A i \in RunIds : runs'[i] = runs[i]
      /\ runs'[id] = new
    BY Zenon, <1>1, CommitFacts
<1>3. ASSUME NEW i \in RunIds', NEW j \in RunIds', SameEvidence(runs'[i], runs'[j]) PROVE i = j
    <2>1. CASE i \in RunIds /\ j \in RunIds
        BY ZenonT(60), <2>1, <1>2, <1>3 DEF OneRunPerEvidence, SameEvidence
    <2>2. CASE i = id /\ j \in RunIds
        BY Zenon, <2>2, <1>2, <1>3 DEF SameEvidence
    <2>3. CASE i \in RunIds /\ j = id
        BY Zenon, <2>3, <1>2, <1>3
    <2> QED BY Zenon, <2>1, <2>2, <2>3, <1>2
<1> QED BY Zenon, <1>3 DEF OneRunPerEvidence, SameEvidence

\* Of two duplicates the one that is assessed later has seen the other.
LEMMA CommitNoticed ==
    ASSUME Stores, NEW new, NEW drafts, NEW cmp, Stored3(new, drafts, cmp),
           DuplicateNoticed, \A j \in features : Duplicates(new, runs[j]) => j \in cmp
    PROVE  DuplicateNoticed'
<1>1. PICK id : id = Len(runs) + 1
    BY Zenon
<1>2. /\ \A i \in RunIds : runs'[i] = runs[i]
      /\ runs'[id] = new
      /\ features' = features \cup {id}
      /\ \A i \in features : compared'[i] = compared[i]
      /\ compared'[id] = cmp
    BY ZenonT(60), <1>1, CommitFacts
<1>3. features \subseteq RunIds
    BY Zenon DEF Stores
<1>4. ASSUME NEW i \in features', NEW j \in features', Duplicates(runs'[i], runs'[j])
      PROVE  i \in compared'[j] \/ j \in compared'[i]
    <2>1. CASE i \in features /\ j \in features
        BY Zenon, <2>1, <1>2, <1>3, <1>4 DEF DuplicateNoticed, Duplicates
    <2>2. CASE i = id /\ j \in features
        BY Zenon, <2>2, <1>2, <1>3, <1>4
    <2>3. CASE i \in features /\ j = id
        <3>1. Duplicates(new, runs[i])
            BY <2>3, <1>2, <1>3, <1>4 DEF Duplicates
        <3> QED BY Zenon, <2>3, <3>1, <1>2
    <2>4. CASE i = id /\ j = id
        BY Zenon, <2>4, <1>4 DEF Duplicates
    <2> QED BY Zenon, <2>1, <2>2, <2>3, <2>4, <1>2
<1> QED BY Zenon, <1>4 DEF DuplicateNoticed, Duplicates

\* The rows of a matched run are the lines it matched, as they are stored.
LEMMA ReservedRows ==
    ASSUME Stores, NEW x \in Extraction, NEW d, NEW o, OwnAllocs(d, o) # {},
           Rows(OwnAllocs(d, o)) = Rows(Assigned(x, o))
    PROVE  Rows(OwnAllocs(d, o)) = {[b EXCEPT !.qty = Stored(@)] : b \in Assigned(x, o)}
<1> DEFINE A == Assigned(x, o)
<1>1. Rows(OwnAllocs(d, o)) = A
    BY Zenon, BillRows
<1>2. ASSUME NEW b \in A PROVE [b EXCEPT !.qty = Stored(b.qty)] = b
    <2>1. PICK a \in OwnAllocs(d, o) : b = [idx |-> a.idx, line |-> a.line, qty |-> a.qty]
        BY Zenon, <1>1 DEF Rows
    <2>2. Stored(a.qty) = a.qty
        BY Zenon DEF Stores, OwnAllocs
    <2>3. b.qty = a.qty
        BY <2>1
    <2>4. Stored(b.qty) = b.qty
        BY Zenon, <2>2, <2>3
    <2>5. b = [idx |-> b.idx, line |-> b.line, qty |-> b.qty]
        BY Zenon, InvoiceAssumption DEF Assigned
    <2>6. [b EXCEPT !.qty = Stored(b.qty)] = [idx |-> b.idx, line |-> b.line, qty |-> Stored(b.qty)]
        BY SMT, BillRows
    <2> QED BY Zenon, <2>4, <2>5, <2>6
<1>3. A = {[b EXCEPT !.qty = Stored(b.qty)] : b \in A}
    <2> HIDE DEF A
    <2> QED BY Zenon, <1>2
<1> QED BY Zenon, <1>1, <1>3

\* The rows a matched run writes are the lines it matched, as they are stored.
NewRows(new, id) == {Allocation(new, id, b) : b \in Assigned(new.ext, new.order)}
StoredLines(r) == {[b EXCEPT !.qty = Stored(@)] : b \in Assigned(r.ext, r.order)}

LEMMA WrittenRows ==
    ASSUME NEW new, new.ext \in Extraction, NEW id, NEW own, own = NewRows(new, id)
    PROVE  Rows(own) = StoredLines(new)
<1> DEFINE A == Assigned(new.ext, new.order)
           row(a) == [idx |-> a.idx, line |-> a.line, qty |-> a.qty]
<1>1. ASSUME NEW b \in A PROVE row(Allocation(new, id, b)) = [b EXCEPT !.qty = Stored(b.qty)]
    <2>1. PICK a : a = Allocation(new, id, b)
        BY Zenon
    <2>2. a.idx = b.idx /\ a.line = b.line /\ a.qty = Stored(b.qty)
        BY <2>1, AllocationFields
    <2>3. [b EXCEPT !.qty = Stored(b.qty)] = [idx |-> b.idx, line |-> b.line, qty |-> Stored(b.qty)]
        BY SMT, BillRows
    <2>4. row(a) = [idx |-> b.idx, line |-> b.line, qty |-> Stored(b.qty)]
        BY Zenon, <2>2
    <2> QED BY Zenon, <2>1, <2>3, <2>4
<1>2. Rows(own) = {row(a) : a \in own}
    BY Zenon DEF Rows
<1>3. Rows(own) = {row(Allocation(new, id, b)) : b \in A}
    <2> HIDE DEF A, row
    <2>1. own = {Allocation(new, id, b) : b \in A}
        BY Zenon DEF A, NewRows
    <2> QED BY Zenon, <1>2, <2>1
<1>4. Rows(own) = {[b EXCEPT !.qty = Stored(b.qty)] : b \in A}
    <2> HIDE DEF A, row
    <2> QED BY Zenon, <1>1, <1>3
<1> QED BY Zenon, <1>4 DEF StoredLines

\* A matched run has its goods reserved, by itself or by the run it repeats.
LEMMA CommitReserved ==
    ASSUME Stores, NEW new, NEW drafts, NEW cmp, Stored3(new, drafts, cmp),
           MatchedIsReserved, RunOK(new), new.mode = "TWO_WAY" => drafts = {},
           NEW x, x.new = new, x.drafts = drafts, new.mode = "THREE_WAY" => Planned(x)
    PROVE  MatchedIsReserved'
<1> DEFINE reserved(r) == {[b EXCEPT !.qty = Stored(@)] : b \in Assigned(r.ext, r.order)}
           own == OwnAllocs(new.doc, new.order)
<1>1. PICK id : id = Len(runs) + 1
    BY Zenon
<1>2. /\ RunIds' = RunIds \cup {id} /\ id \notin RunIds
      /\ \A i \in RunIds : runs'[i] = runs[i]
      /\ runs'[id] = new
    BY Zenon, <1>1, CommitFacts
<1>3. drafts # {} => new.mode = "THREE_WAY"
    BY Zenon DEF RunOK
<1>4. drafts # {} => new.decision = "MATCHED" /\ own = {}
    BY Zenon, <1>3 DEF Planned
<1>5. allocs' = allocs \cup {Allocation(new, id, b) : b \in drafts}
    BY Zenon, <1>1 DEF Stored3
<1>6. ASSUME NEW i \in RunIds, MatchedRun(runs[i])
      PROVE  Rows(OwnAllocs(runs[i].doc, runs[i].order)') = reserved(runs[i])
    <2>1. Rows(OwnAllocs(runs[i].doc, runs[i].order)) = reserved(runs[i])
        BY Zenon, <1>6 DEF MatchedIsReserved, MatchedRun
    <2>2. reserved(runs[i]) # {}
        BY ZenonT(60), <1>6 DEF Stores
    <2>3. OwnAllocs(runs[i].doc, runs[i].order) # {}
        BY Zenon, <2>1, <2>2 DEF Rows
    <2>4. drafts = {} \/ runs[i].doc # new.doc \/ runs[i].order # new.order
        BY Zenon, <2>3, <1>4
    <2>5. PICK d, o : d = runs[i].doc /\ o = runs[i].order
        BY Zenon
    <2>6. OwnAllocs(d, o)' = OwnAllocs(d, o)
        BY <2>4, <2>5, OwnKept
    <2> QED BY Zenon, <2>1, <2>5, <2>6, <1>2 DEF OwnAllocs
<1>7. ASSUME MatchedRun(new) PROVE Rows(OwnAllocs(new.doc, new.order)') = reserved(new)
    <2>1. new.ext \in Extraction /\ Planned(x) /\ new.decision = "MATCHED"
        BY Zenon, <1>7 DEF RunOK, MatchedRun
    <2>2. CASE own = {}
        <3>1. drafts = Assigned(new.ext, new.order)
            BY Zenon, <2>1, <2>2 DEF Planned
        <3>2. own' = {Allocation(new, id, b) : b \in drafts}
            BY <1>1, <2>2, OwnNew
        <3>3. PICK q : q = own'
            BY Zenon
        <3>4. q = NewRows(new, id)
            BY Zenon, <3>1, <3>2, <3>3 DEF NewRows
        <3>5. Rows(q) = StoredLines(new)
            BY <2>1, <3>4, WrittenRows
        <3> QED BY Zenon, <3>3, <3>5 DEF StoredLines
    <2>3. CASE own # {}
        <3>1. drafts = {} /\ Rows(own) = Rows(Assigned(new.ext, new.order))
            BY Zenon, <2>1, <2>3 DEF Planned
        <3>2. own' = own
            BY <3>1, OwnKept
        <3>3. Rows(own) = reserved(new)
            BY Zenon, <2>1, <2>3, <3>1, ReservedRows
        <3> QED BY Zenon, <3>2, <3>3
    <2> QED BY <2>2, <2>3
<1>8. \A i \in RunIds' : MatchedRun(runs'[i]) =>
          Rows(OwnAllocs(runs[i].doc, runs[i].order)') = reserved(runs'[i])
    BY ZenonT(60), <1>2, <1>6, <1>7 DEF OwnAllocs
<1>9. ASSUME NEW a \in allocs', NEW b \in allocs', a.doc = b.doc, a.order = b.order
      PROVE  a.run = b.run
    <2>1. ASSUME NEW e \in allocs', e \notin allocs
          PROVE  e.run = id /\ e.doc = new.doc /\ e.order = new.order /\ drafts # {}
        <3>1. PICK c \in drafts : e = Allocation(new, id, c)
            BY Zenon, <1>5, <2>1
        <3>2. e.run = id /\ e.doc = new.doc /\ e.order = new.order
            BY <3>1, AllocationFields
        <3> QED BY Zenon, <3>2
    <2>2. \A e \in allocs : drafts # {} => e.doc # new.doc \/ e.order # new.order
        BY Zenon, <1>4 DEF OwnAllocs
    <2>3. CASE a \in allocs /\ b \in allocs
        BY Zenon, <2>3, <1>9 DEF MatchedIsReserved
    <2> QED BY Zenon, <2>1, <2>2, <2>3, <1>9
<1>10. ASSUME NEW a \in allocs' PROVE MatchedRun(runs'[a.run])
    <2>1. CASE a \in allocs
        BY Zenon, <2>1, <1>2 DEF MatchedIsReserved, MatchedRun, Stores
    <2>2. CASE a \notin allocs
        <3>1. PICK c \in drafts : a = Allocation(new, id, c)
            BY Zenon, <1>5, <2>2
        <3>2. a.run = id
            BY <3>1, AllocationFields
        <3> QED BY Zenon, <3>2, <1>2, <1>3, <1>4 DEF MatchedRun
    <2> QED BY <2>1, <2>2
<1>11. \A i \in RunIds' : (runs[i].mode = "THREE_WAY" /\ runs[i].decision = "MATCHED" =>
          Rows(OwnAllocs(runs[i].doc, runs[i].order)) =
            {[b EXCEPT !.qty = Stored(@)] : b \in Assigned(runs[i].ext, runs[i].order)})'
    BY Zenon, <1>8 DEF MatchedRun, Rows, Assigned, Stored
<1> QED BY Zenon, <1>9, <1>10, <1>11 DEF MatchedIsReserved, MatchedRun

\* Whoever has the row lock of an order is alone on it.
LEMMA LockExcludes ==
    ASSUME LockTable, NEW s \in Session, NEW t \in Session, s # t, NEW o \in Order, lock[o] = s
    PROVE  lock[o] # t /\ t \notin share[o]
BY Zenon, FreeAssumption DEF LockTable

\* The commit of s changes nothing that another transaction has relied on.
LEMMA CommitOthers ==
    ASSUME Stores, LockTable, NEW s \in Session, NEW t \in Session, s # t, LocksKept(s),
           NEW y, Tx(s, y), y.pc = "inserted", NEW x, Tx(t, x), Apart(y, x),
           Stored3(y.new, y.drafts, y.cmp)
    PROVE  Tx(t, x)'
<1>1. PICK id, new, drafts, cmp : /\ id = Len(runs) + 1 /\ new = y.new /\ drafts = y.drafts
                                  /\ cmp = y.cmp
    BY Zenon
<1>2. Stored3(new, drafts, cmp)
    BY Zenon, <1>1 DEF Stored3
<1>3. /\ RunIds' = RunIds \cup {id}
      /\ \A i \in RunIds : runs'[i] = runs[i]
      /\ runs'[id] = new
      /\ features' = features \cup {id}
    BY ZenonT(60), <1>1, <1>2, CommitFacts
<1>4. Pending(s, y) /\ Written(s, y)
    BY Zenon DEF Tx
<1>5. new.order \in Order /\ s \in share[new.order]
    BY Zenon, <1>1, <1>4 DEF Pending, RunOK, Written
<1>6. new.mode = "THREE_WAY" => lock[new.order] = s
    BY Zenon, <1>1, <1>4 DEF Pending
<1>7. drafts # {} => new.mode = "THREE_WAY"
    BY Zenon, <1>1, <1>4 DEF Pending, RunOK
<1>8. \A o \in Order : /\ lock[o] = t => lock'[o] = t
                       /\ t \in share[o] => t \in share'[o]
    BY Zenon DEF LocksKept
<1>9. features \subseteq RunIds
    BY Zenon DEF Stores
<1>10. ASSUME x.pc \in {"fresh", "inserted"} PROVE Pending(t, x)'
    <2>1. Pending(t, x) /\ RunOK(x.new) /\ x.new.order \in Order
        BY Zenon, <1>10 DEF Tx, Pending, RunOK
    <2>2. ASSUME x.new.mode = "THREE_WAY"
          PROVE  /\ lock'[x.new.order] = t /\ Planned(x)'
                 /\ \A i \in RunIds' : ~SameEvidence(runs'[i], x.new)
        <3>1. lock[x.new.order] = t
            BY Zenon, <2>1, <2>2 DEF Pending
        <3>2. drafts = {} \/ x.new.order # new.order
            BY Zenon, <3>1, <2>1, <1>6, <1>7, LockExcludes
        <3>3. PICK d, o : d = x.new.doc /\ o = x.new.order
            BY Zenon
        <3>4. OwnAllocs(d, o)' = OwnAllocs(d, o)
            BY <1>2, <3>2, <3>3, OwnKept
        <3>5. Planned(x)'
            BY Zenon, <2>1, <2>2, <3>3, <3>4 DEF Pending, Planned
        <3>6. ~SameEvidence(new, x.new)
            BY Zenon, <2>1, <2>2, <3>1, <1>6, LockExcludes DEF SameEvidence
        <3>7. \A i \in RunIds : ~SameEvidence(runs[i], x.new)
            BY Zenon, <2>1, <2>2 DEF Pending
        <3> QED BY Zenon, <1>3, <1>8, <2>1, <3>1, <3>5, <3>6, <3>7
    <2> QED BY Zenon, <2>1, <2>2 DEF Pending, RunOK, SameEvidence
<1>11. ASSUME x.pc = "inserted" PROVE Written(t, x)'
    <2>1. Pending(t, x) /\ Written(t, x) /\ x.new.order \in Order
        BY Zenon, <1>11 DEF Tx, Pending, RunOK
    <2>2. t \in share'[x.new.order]
        BY Zenon, <2>1, <1>8 DEF Written
    <2>3. ~SameEvidence(new, x.new)
        BY Zenon, <1>1, <1>11 DEF Apart
    <2>4. ~Duplicates(x.new, new)
        <3> SUFFICES ASSUME Duplicates(x.new, new) PROVE FALSE
            BY Zenon
        <3>1. x.new.order = new.order /\ (x.new.mode = "THREE_WAY" \/ new.mode = "THREE_WAY")
            BY Zenon DEF Duplicates
        <3>2. x.new.mode = "THREE_WAY" => lock[x.new.order] = t
            BY Zenon, <2>1 DEF Pending
        <3>3. t \in share[x.new.order]
            BY Zenon, <2>1 DEF Written
        <3> QED BY Zenon, <3>1, <3>2, <3>3, <1>5, <1>6, LockExcludes
    <2>5. \A i \in RunIds' : ~SameEvidence(runs'[i], x.new)
        BY Zenon, <1>3, <2>1, <2>3 DEF Written
    <2>6. \A j \in features' : Duplicates(x.new, runs'[j]) => j \in x.cmp
        BY Zenon, <1>3, <1>9, <2>1, <2>4 DEF Written
    <2> QED BY Zenon, <2>2, <2>5, <2>6 DEF Written, SameEvidence, Duplicates
<1>12. ASSUME NEW r \in DOMAIN x.claims PROVE Claim(t, r, x.claims[r])'
    <2>1. Claim(t, r, x.claims[r])
        BY Zenon DEF Tx
    <2>2. r \in RunIds /\ runs[r].mode = "TWO_WAY" /\ t \in share[runs[r].order]
        BY Zenon, <2>1 DEF Claim
    <2>3. runs[r].order \in Order
        BY Zenon, <2>2 DEF Stores, RunOK
    <2>4. ~Duplicates(runs[r], new)
        <3> SUFFICES ASSUME Duplicates(runs[r], new) PROVE FALSE
            BY Zenon
        <3>1. runs[r].order = new.order /\ new.mode = "THREE_WAY"
            BY <2>2 DEF Duplicates
        <3> QED BY Zenon, <3>1, <2>2, <1>5, <1>6, LockExcludes
    <2>5. \A j \in features' : Duplicates(runs'[r], runs'[j]) => j \in x.claims[r]
        BY Zenon, <1>3, <1>9, <2>1, <2>2, <2>4 DEF Claim
    <2> QED BY Zenon, <1>3, <1>8, <2>2, <2>3, <2>5 DEF Claim, Duplicates
<1>13. x.todo \in Seq(RunIds') /\ (x.pc = "flush" => x.todo # <<>>)
    <2>1. x.todo \in Seq(RunIds) /\ (x.pc = "flush" => x.todo # <<>>)
        BY Zenon DEF Tx
    <2>2. RunIds \subseteq RunIds'
        BY Zenon, <1>3
    <2> HIDE DEF RunIds
    <2> QED BY <2>1, <2>2
<1>14. IsTx(x)
    BY Zenon DEF Tx
<1> QED BY Zenon, <1>10, <1>11, <1>12, <1>13, <1>14 DEF Tx

\* A step that ends the transaction of s keeps the sessions in order, if the
\* others do not mind what it stored.
LEMMA EndOfTransaction ==
    ASSUME LockTable, Sessions, NEW s \in Session, Finish(s),
           \A t \in Session \ {s} : \A x : x = sess[t] => Tx(t, x)'
    PROVE  LockTable' /\ Sessions'
<1>1. LocksKept(s)
    BY Released DEF Finish
<1>2. sess' = [sess EXCEPT ![s] = IdleSession]
    BY DEF Finish
<1>3. /\ DOMAIN sess' = Session /\ sess'[s] = IdleSession
      /\ \A t \in Session \ {s} : sess'[t] = sess[t]
    BY <1>2 DEF LockTable
<1>4. LockTable'
    BY Zenon, <1>1, <1>3 DEF LockTable, LocksKept
<1>5. PICK i : i = IdleSession
    BY Zenon
<1>6. Tx(s, i)' /\ \A y : Apart(i, y) /\ Apart(y, i)
    BY Zenon, <1>5, RestingTx
<1>7. ASSUME NEW t \in Session PROVE Tx(t, sess[t])'
    <2>1. CASE t = s
        BY Zenon, <2>1, <1>3, <1>5, <1>6
    <2>2. CASE t # s
        <3>1. PICK x : x = sess[t]
            BY Zenon
        <3>2. Tx(t, x)' /\ sess'[t] = x
            BY Zenon, <2>2, <3>1, <1>3
        <3> QED BY Zenon, <3>2
    <2> QED BY <2>1, <2>2
<1>8. ASSUME NEW t \in Session, NEW u \in Session, t # u PROVE Apart(sess'[t], sess'[u])
    BY Zenon, <1>3, <1>5, <1>6, <1>8 DEF Sessions
<1>9. Sessions'
    BY Zenon, <1>7, <1>8 DEF Sessions, Apart
<1> QED BY Zenon, <1>4, <1>9

LEMMA CommitKeeps ==
    ASSUME IInv, NEW s \in Session, CommitRun(s)
    PROVE  IInv'
<1>1. Stores /\ LockTable /\ Sessions /\ Goal
    BY DEF IInv
<1>2. PICK y : y = sess[s]
    BY Zenon
<1>3. Tx(s, y) /\ y.pc = "inserted" /\ Pending(s, y) /\ Written(s, y)
    BY Zenon, <1>1, <1>2 DEF Sessions, Tx, CommitRun
<1>4. Stored3(y.new, y.drafts, y.cmp) /\ Finish(s)
    BY Zenon, <1>2 DEF CommitRun, Stored3
<1>5. LocksKept(s)
    BY <1>1, <1>4, Released DEF Finish
<1>6. PICK new, drafts, cmp : new = y.new /\ drafts = y.drafts /\ cmp = y.cmp
    BY Zenon
<1>7. Stored3(new, drafts, cmp)
    BY Zenon, <1>4, <1>6 DEF Stored3
<1>8. /\ RunOK(new) /\ (new.mode = "TWO_WAY" => drafts = {})
      /\ (new.mode = "THREE_WAY" => Planned(y))
      /\ \A i \in RunIds : ~SameEvidence(runs[i], new)
      /\ \A j \in features : Duplicates(new, runs[j]) => j \in cmp
    BY Zenon, <1>3, <1>6 DEF Pending, Written
<1>9. drafts \subseteq Assigned(new.ext, new.order)
    BY Zenon, <1>6, <1>8 DEF Planned, RunOK
<1>10. MatchedRun(new) => Assigned(new.ext, new.order) # {}
    BY Zenon, <1>6, <1>8 DEF Planned, MatchedRun
<1>11. Stores'
    BY Zenon, <1>1, <1>7, <1>8, <1>9, <1>10, CommitStores
<1>12. OneRunPerEvidence'
    BY Zenon, <1>1, <1>7, <1>8, CommitOneRun DEF Goal
<1>13. MatchedIsReserved'
    BY Zenon, <1>1, <1>6, <1>7, <1>8, CommitReserved DEF Goal
<1>14. DuplicateNoticed'
    BY Zenon, <1>1, <1>7, <1>8, CommitNoticed DEF Goal
<1>15. ASSUME NEW t \in Session \ {s}, NEW x, x = sess[t] PROVE Tx(t, x)'
    <2>1. Tx(t, x) /\ Apart(y, x) /\ t \in Session /\ s # t
        BY Zenon, <1>1, <1>2, <1>15 DEF Sessions
    <2> QED BY Zenon, <2>1, <1>1, <1>3, <1>4, <1>5, CommitOthers
<1>16. LockTable' /\ Sessions'
    BY Zenon, <1>1, <1>4, <1>15, EndOfTransaction
<1> QED BY Zenon, <1>11, <1>12, <1>13, <1>14, <1>16 DEF IInv, Goal

-----------------------------------------------------------------------------
(* The commit of a repair *)

\* The repairs that s commits change nothing another transaction has relied on.
LEMMA RepairOthers ==
    ASSUME Stores, LockTable, NEW s \in Session, NEW t \in Session, s # t, LocksKept(s),
           NEW y, Tx(s, y), NEW x, Tx(t, x),
           UNCHANGED <<runs, allocs>>, features' = features \cup DOMAIN y.claims
    PROVE  Tx(t, x)'
<1>1. RunIds' = RunIds
    BY DEF RunIds
<1>2. \A o \in Order : /\ lock[o] = t => lock'[o] = t
                       /\ t \in share[o] => t \in share'[o]
    BY Zenon DEF LocksKept
<1>3. \A j \in DOMAIN y.claims :
          j \in RunIds /\ runs[j].mode = "TWO_WAY" /\ s \in share[runs[j].order]
    BY Zenon DEF Tx, Claim
<1>4. x.pc \in {"fresh", "inserted"} => Pending(t, x)'
    <2>1. Planned(x) => Planned(x)'
        BY Zenon DEF Planned, OwnAllocs
    <2> QED BY Zenon, <1>1, <1>2, <2>1 DEF Tx, Pending, RunOK
<1>5. ASSUME x.pc = "inserted" PROVE Written(t, x)'
    <2>1. Pending(t, x) /\ Written(t, x) /\ x.new.order \in Order
        BY Zenon, <1>5 DEF Tx, Pending, RunOK
    <2>2. ASSUME NEW j \in DOMAIN y.claims, Duplicates(x.new, runs[j]) PROVE FALSE
        <3>1. x.new.order = runs[j].order /\ x.new.mode = "THREE_WAY"
            BY <2>2, <1>3 DEF Duplicates
        <3>2. lock[x.new.order] = t /\ s \in share[x.new.order]
            BY Zenon, <3>1, <2>1, <1>3 DEF Pending
        <3> QED BY Zenon, <3>2, <2>1, LockExcludes
    <2> QED BY Zenon, <2>1, <2>2, <1>1, <1>2 DEF Written
<1>6. ASSUME NEW r \in DOMAIN x.claims PROVE Claim(t, r, x.claims[r])'
    <2>1. Claim(t, r, x.claims[r])
        BY Zenon DEF Tx
    <2>2. runs[r].order \in Order
        BY Zenon, <2>1 DEF Claim, Stores, RunOK
    <2>3. ASSUME NEW j \in DOMAIN y.claims, Duplicates(runs[r], runs[j]) PROVE FALSE
        <3>1. runs[r].mode = "TWO_WAY" /\ runs[j].mode = "TWO_WAY"
            BY Zenon, <2>1, <1>3 DEF Claim
        <3> QED BY <3>1, <2>3 DEF Duplicates
    <2> QED BY Zenon, <2>1, <2>2, <2>3, <1>1, <1>2 DEF Claim
<1>7. x.todo \in Seq(RunIds') /\ (x.pc = "flush" => x.todo # <<>>) /\ IsTx(x)
    BY Zenon, <1>1 DEF Tx
<1> QED BY Zenon, <1>4, <1>5, <1>6, <1>7 DEF Tx

LEMMA RepairCommitKeeps ==
    ASSUME IInv, NEW s \in Session, RepairCommit(s)
    PROVE  IInv'
<1>1. Stores /\ LockTable /\ Sessions /\ Goal
    BY DEF IInv
<1>2. PICK y : y = sess[s]
    BY Zenon
<1>3. Tx(s, y)
    BY Zenon, <1>1, <1>2 DEF Sessions
<1>4. /\ features' = features \cup DOMAIN y.claims /\ compared' = Merge(compared, y.claims)
      /\ Finish(s) /\ UNCHANGED <<done, runs, allocs>>
    BY Zenon, <1>2 DEF RepairCommit
<1>5. LocksKept(s)
    BY <1>1, <1>4, Released DEF Finish
<1>6. RunIds' = RunIds
    BY <1>4 DEF RunIds
<1>7. \A j \in DOMAIN y.claims : Claim(s, j, y.claims[j])
    BY Zenon, <1>3 DEF Tx
<1>8. \A j \in DOMAIN y.claims : j \in RunIds /\ runs[j].mode = "TWO_WAY"
    BY Zenon, <1>7 DEF Claim
<1>9. /\ DOMAIN compared' = features'
      /\ \A j \in DOMAIN y.claims : compared'[j] = y.claims[j]
      /\ \A j \in features \ DOMAIN y.claims : compared'[j] = compared[j]
    <2>1. DOMAIN compared = features
        BY Zenon, <1>1 DEF Stores
    <2>2. compared' = [i \in features \cup DOMAIN y.claims |->
                         IF i \in DOMAIN y.claims THEN y.claims[i] ELSE compared[i]]
        BY Zenon, <1>4, <2>1 DEF Merge
    <2> QED BY <2>2, <1>4
<1>10. Stores'
    <2>1. done' \subseteq Extraction /\ runs' \in Seq({runs'[i] : i \in DOMAIN runs'})
        BY Zenon, <1>1, <1>4 DEF Stores
    <2>2. features' \subseteq RunIds'
        BY Zenon, <1>1, <1>4, <1>6, <1>8 DEF Stores
    <2>3. \A i \in RunIds' : runs'[i].mode = "THREE_WAY" => i \in features'
        BY Zenon, <1>1, <1>4, <1>6 DEF Stores
    <2>4. /\ \A i \in RunIds' : RunOK(runs[i])'
          /\ \A i \in RunIds' : (MatchedRun(runs[i]) => Assigned(runs[i].ext, runs[i].order) # {})'
        BY Zenon, <1>1, <1>4, <1>6 DEF Stores
    <2>5. \A a \in allocs' : (/\ a.run \in RunIds /\ Stored(a.qty) = a.qty
                              /\ a.doc = runs[a.run].doc /\ a.order = runs[a.run].order)'
        BY Zenon, <1>1, <1>4, <1>6 DEF Stores
    <2> QED BY Zenon, <1>9, <2>1, <2>2, <2>3, <2>4, <2>5 DEF Stores
<1>11. OneRunPerEvidence'
    BY ZenonT(60), <1>1, <1>4, <1>6 DEF Goal, OneRunPerEvidence
<1>12. MatchedIsReserved'
    BY Zenon, <1>1, <1>4, <1>6 DEF Goal, MatchedIsReserved, OwnAllocs
<1>13. ASSUME NEW i \in features', NEW j \in features', Duplicates(runs[i], runs[j])
       PROVE  i \in compared'[j] \/ j \in compared'[i]
    <2>1. Duplicates(runs[j], runs[i])
        BY <1>13 DEF Duplicates
    <2>2. i \notin DOMAIN y.claims \/ j \notin DOMAIN y.claims
        BY <1>8, <1>13 DEF Duplicates
    <2>3. CASE i \in DOMAIN y.claims
        <3>1. j \in features
            BY Zenon, <2>2, <2>3, <1>4
        <3>2. j \in y.claims[i]
            BY Zenon, <2>3, <3>1, <1>7, <1>13 DEF Claim
        <3> QED BY Zenon, <2>3, <3>2, <1>9
    <2>4. CASE j \in DOMAIN y.claims
        <3>1. i \in features
            BY Zenon, <2>2, <2>4, <1>4
        <3>2. i \in y.claims[j]
            BY Zenon, <2>1, <2>4, <3>1, <1>7 DEF Claim
        <3> QED BY Zenon, <2>4, <3>2, <1>9
    <2>5. CASE i \notin DOMAIN y.claims /\ j \notin DOMAIN y.claims
        <3>1. i \in features \ DOMAIN y.claims /\ j \in features \ DOMAIN y.claims
            BY Zenon, <2>5, <1>4
        <3>2. i \in compared[j] \/ j \in compared[i]
            BY Zenon, <3>1, <1>1, <1>13 DEF Goal, DuplicateNoticed, Duplicates
        <3> QED BY Zenon, <3>1, <3>2, <1>9
    <2> QED BY Zenon, <2>3, <2>4, <2>5
<1>14. DuplicateNoticed'
    BY Zenon, <1>4, <1>13 DEF DuplicateNoticed, Duplicates
<1>15. ASSUME NEW t \in Session \ {s}, NEW x, x = sess[t] PROVE Tx(t, x)'
    <2>1. Tx(t, x) /\ t \in Session /\ s # t
        BY Zenon, <1>1, <1>15 DEF Sessions
    <2> QED BY Zenon, <2>1, <1>1, <1>3, <1>4, <1>5, RepairOthers
<1>16. LockTable' /\ Sessions'
    BY Zenon, <1>1, <1>4, <1>15, EndOfTransaction
<1> QED BY Zenon, <1>10, <1>11, <1>12, <1>14, <1>16 DEF IInv, Goal

-----------------------------------------------------------------------------
(* The invariant *)

\* What happens outside the matching transactions stores no run.
LEMMA OutsideKeeps ==
    ASSUME IInv, done' \subseteq Extraction,
           UNCHANGED <<runs, allocs, features, compared, lock, share, sess>>
    PROVE  IInv'
<1>1. Stores /\ LockTable /\ Sessions /\ Goal
    BY DEF IInv
<1>2. RunIds' = RunIds
    BY DEF RunIds
<1>3. Stores'
    BY Zenon, <1>1, <1>2 DEF Stores
<1>4. OneRunPerEvidence'
    BY ZenonT(60), <1>1, <1>2 DEF Goal, OneRunPerEvidence
<1>5. MatchedIsReserved'
    BY Zenon, <1>1, <1>2 DEF Goal, MatchedIsReserved, OwnAllocs
<1>6. DuplicateNoticed'
    BY Zenon, <1>1, <1>2 DEF Goal, DuplicateNoticed
<1>7. LockTable'
    BY Zenon, <1>1 DEF LockTable
<1>8. ASSUME NEW t \in Session PROVE Tx(t, sess[t])'
    <2>1. PICK x : x = sess[t]
        BY Zenon
    <2>2. Tx(t, x) /\ \A i \in RunIds : RunOK(runs[i])
        BY Zenon, <1>1, <2>1 DEF Sessions, Stores
    <2>3. Tx(t, x)'
        BY Zenon, <2>2, TxKept
    <2> QED BY Zenon, <2>1, <2>3
<1>9. Sessions'
    BY Zenon, <1>1, <1>8 DEF Sessions, Apart, SameEvidence
<1> QED BY Zenon, <1>3, <1>4, <1>5, <1>6, <1>7, <1>9 DEF IInv, Goal

\* At the start there are the runs of the time before the three-way mode.
LEMMA InitIInv ==
    ASSUME Init
    PROVE  IInv
<1>1. /\ runs \in Seq([doc : Doc, order : Order, ext : Extraction, mode : {"TWO_WAY"},
                       ctx : {TwoWayContext}, decision : {"MATCHED", "NEEDS_REVIEW"}])
      /\ \A i, j \in DOMAIN runs : SameKey(runs[i], runs[j]) => i = j
    BY Zenon, LegacyAssumption DEF Init
<1>2. /\ runs \in Seq({runs[i] : i \in DOMAIN runs}) /\ RunIds = DOMAIN runs
      /\ \A i \in RunIds : /\ runs[i].order \in Order /\ runs[i].ext \in Extraction
                           /\ runs[i].mode = "TWO_WAY" /\ runs[i].ctx = TwoWayContext
    <2> HIDE DEF TwoWayContext
    <2>1. DOMAIN runs = 1..Len(runs) /\ RunIds = 1..Len(runs)
        BY <1>1 DEF RunIds
    <2>2. \A i \in DOMAIN runs :
              runs[i] \in [doc : Doc, order : Order, ext : Extraction, mode : {"TWO_WAY"},
                           ctx : {TwoWayContext}, decision : {"MATCHED", "NEEDS_REVIEW"}]
        <3> DEFINE R == [doc : Doc, order : Order, ext : Extraction, mode : {"TWO_WAY"},
                         ctx : {TwoWayContext}, decision : {"MATCHED", "NEEDS_REVIEW"}]
        <3>1. runs \in Seq(R)
            BY Zenon, <1>1
        <3> HIDE DEF R
        <3>2. \A i \in DOMAIN runs : runs[i] \in R
            BY SMT, <3>1
        <3> QED BY Zenon, <3>2 DEF R
    <2>3. \A i \in DOMAIN runs : /\ runs[i].order \in Order /\ runs[i].ext \in Extraction
                                 /\ runs[i].mode = "TWO_WAY" /\ runs[i].ctx = TwoWayContext
        BY <2>2
    <2>4. runs \in Seq({runs[i] : i \in DOMAIN runs})
        BY <1>1
    <2> QED BY Zenon, <2>1, <2>3, <2>4
<1>3. "TWO_WAY" # "THREE_WAY" /\ DOMAIN <<>> = {}
    OBVIOUS
<1>4. /\ done = Extracted /\ allocs = {} /\ features = {} /\ compared = <<>>
      /\ lock = [o \in Order |-> Free] /\ share = [o \in Order |-> {}]
      /\ sess = [s \in Session |-> IdleSession]
    BY Zenon DEF Init
<1>5. \A i \in RunIds : RunOK(runs[i]) /\ runs[i].mode # "THREE_WAY"
    BY Zenon, <1>2, <1>3 DEF RunOK
<1>6. Stores
    BY Zenon, <1>2, <1>3, <1>4, <1>5, ExtractedAssumption DEF Stores, MatchedRun
<1>7. LockTable
    BY <1>4 DEF LockTable
<1>8. OneRunPerEvidence
    <2>1. ASSUME NEW i \in RunIds, NEW j \in RunIds,
                 runs[i].doc = runs[j].doc /\ runs[i].order = runs[j].order
                   /\ runs[i].ext = runs[j].ext
          PROVE  i = j
        <3>1. runs[i].mode = runs[j].mode /\ runs[i].ctx = runs[j].ctx
            BY Zenon, <1>2
        <3>2. SameKey(runs[i], runs[j])
            BY Zenon, <2>1, <3>1 DEF SameKey
        <3> QED BY Zenon, <3>2, <1>1, <1>2
    <2> QED BY Zenon, <2>1 DEF OneRunPerEvidence
<1>9. MatchedIsReserved /\ DuplicateNoticed
    BY Zenon, <1>4, <1>5 DEF MatchedIsReserved, DuplicateNoticed
<1>10. PICK x : x = IdleSession
    BY Zenon
<1>11. /\ x.pc = "idle" /\ x.todo = <<>> /\ x.claims = <<>> /\ IsTx(x)
    BY Zenon, <1>10 DEF IdleSession, IsTx
<1>12. x.pc # "flush" /\ x.pc # "fresh" /\ x.pc # "inserted" /\ x.todo \in Seq(RunIds)
    BY <1>11
<1>13. \A s \in Session : Tx(s, x)
    BY Zenon, <1>3, <1>11, <1>12 DEF Tx
<1>14. \A s \in Session : sess[s] = x
    BY Zenon, <1>4, <1>10
<1>15. Sessions
    BY Zenon, <1>12, <1>13, <1>14 DEF Sessions, Apart
<1> QED BY Zenon, <1>6, <1>7, <1>8, <1>9, <1>15 DEF IInv, Goal

\* Every step keeps the invariant.
LEMMA StepIInv ==
    ASSUME IInv, [Next]_vars
    PROVE  IInv'
<1>1. CASE \E s \in Session, d \in Doc, o \in Order : BeginTwoWay(s, d, o) \/ BeginThreeWay(s, d, o)
    BY Zenon, <1>1, TwoWayKeeps, ThreeWayKeeps
<1>2. ASSUME NEW s \in Session, ReconcileStart(s) \/ Continue(s) \/ Abort(s)
      PROVE  IInv'
    <2>1. CASE ReconcileStart(s)
        BY Zenon, <2>1, ReconcileKeeps
    <2>2. CASE Insert(s)
        BY Zenon, <2>2, InsertKeeps
    <2>3. CASE InsertCollides(s)
        BY Zenon, <2>3, CollidesKeeps
    <2>4. CASE InsertRefused(s)
        BY Zenon, <2>4, FinishQuiet DEF InsertRefused
    <2>5. CASE CommitRun(s)
        BY Zenon, <2>5, CommitKeeps
    <2>6. CASE RepairRead(s)
        BY Zenon, <2>6, RepairReadKeeps
    <2>7. CASE RepairFlush(s)
        BY Zenon, <2>7, RepairFlushKeeps
    <2>8. CASE RepairCollides(s)
        BY Zenon, <2>8, FinishQuiet DEF RepairCollides
    <2>9. CASE RepairCommit(s)
        BY Zenon, <2>9, RepairCommitKeeps
    <2>10. CASE Abort(s)
        BY Zenon, <2>10, FinishQuiet DEF Abort
    <2> QED BY Zenon, <1>2, <2>1, <2>2, <2>3, <2>4, <2>5, <2>6, <2>7, <2>8, <2>9, <2>10 DEF Continue
<1>3. done \subseteq Extraction
    BY Zenon DEF IInv, Stores
<1>4. ASSUME NEW c \in Delivery, CreateReceipt(c) PROVE IInv'
    BY Zenon, <1>3, <1>4, OutsideKeeps DEF CreateReceipt
<1>5. ASSUME NEW r \in receipts, ReverseReceipt(r) PROVE IInv'
    BY Zenon, <1>3, <1>5, OutsideKeeps DEF ReverseReceipt
<1>6. ASSUME NEW x \in Extraction, ExtractionSucceeds(x) PROVE IInv'
    BY Zenon, <1>3, <1>6, OutsideKeeps DEF ExtractionSucceeds
<1>7. CASE UNCHANGED vars
    BY Zenon, <1>3, <1>7, OutsideKeeps DEF vars
<1> QED BY Zenon, <1>1, <1>2, <1>4, <1>5, <1>6, <1>7 DEF Next

\* The stores, the lock table and what every transaction in flight relies on
\* fit together in every state of MatchingService, DuplicateRiskService and
\* GoodsReceiptService.
THEOREM Invariant == Spec => []IInv
<1>1. Init => IInv
    BY InitIInv
<1>2. IInv /\ [Next]_vars => IInv'
    BY StepIInv
<1> QED BY <1>1, <1>2, PTL DEF Spec

\* MatchingService.match decides the same evidence once, for any number of
\* concurrent requests, receipts and retries.
THEOREM EvidenceDecidedOnce == Spec => []OneRunPerEvidence
<1>1. IInv => OneRunPerEvidence
    BY DEF IInv, Goal
<1> QED BY <1>1, Invariant, PTL

\* The goods of a three-way run that says MATCHED are reserved, by one run, and
\* stay so.
THEOREM MatchedStaysReserved == Spec => []MatchedIsReserved
<1>1. IInv => MatchedIsReserved
    BY DEF IInv, Goal
<1> QED BY <1>1, Invariant, PTL

\* Of two invoices with one business key on an order, of which one was matched
\* three-way, DuplicateRiskService compares one with the other.
THEOREM DuplicatesNoticed == Spec => []DuplicateNoticed
<1>1. IInv => DuplicateNoticed
    BY DEF IInv, Goal
<1> QED BY <1>1, Invariant, PTL

\* A reservation is never changed or taken back, and all the rows a step adds
\* belong to one invoice and order that had none.
ReservedAtOnce ==
    /\ allocs \subseteq allocs'
    /\ \A a, b \in allocs' \ allocs :
          OwnAllocs(a.doc, a.order) = {} /\ a.doc = b.doc /\ a.order = b.order

LEMMA CommitReservesAtOnce ==
    ASSUME IInv, NEW s \in Session, CommitRun(s)
    PROVE  ReservedAtOnce
<1>1. PICK y, id, new : y = sess[s] /\ id = Len(runs) + 1 /\ new = y.new
    BY Zenon
<1>2. y.pc = "inserted" /\ Pending(s, y)
    BY Zenon, <1>1 DEF IInv, Sessions, Tx, CommitRun
<1>3. allocs' = allocs \cup {Allocation(new, id, b) : b \in y.drafts}
    BY Zenon, <1>1 DEF CommitRun
<1>4. y.drafts # {} => OwnAllocs(new.doc, new.order) = {}
    BY Zenon, <1>1, <1>2 DEF Pending, Planned, RunOK
<1>5. ASSUME NEW a \in allocs' \ allocs
      PROVE  a.doc = new.doc /\ a.order = new.order /\ OwnAllocs(new.doc, new.order) = {}
    <2>1. PICK b \in y.drafts : a = Allocation(new, id, b)
        BY Zenon, <1>3
    <2>2. a.doc = new.doc /\ a.order = new.order
        BY <2>1, AllocationFields
    <2> QED BY Zenon, <2>2, <1>4
<1>6. allocs \subseteq allocs'
    BY Zenon, <1>3
<1> QED BY ZenonT(30), <1>5, <1>6 DEF ReservedAtOnce

\* Goods are reserved as ReservationLedger says, but for the quantities: once
\* per invoice and order, all at once, and for good, whatever else is matched,
\* received or reversed.
THEOREM ReservationsKept == Spec => [][ReservedAtOnce]_vars
<1>1. IInv /\ [Next]_vars => [ReservedAtOnce]_vars
    <2> SUFFICES ASSUME IInv, Next PROVE ReservedAtOnce
        BY Zenon
    <2>1. UNCHANGED allocs => ReservedAtOnce
        BY Zenon DEF ReservedAtOnce
    <2>2. (\E s \in Session : CommitRun(s)) \/ UNCHANGED allocs
        BY ZenonT(60) DEF Next, Continue, BeginTwoWay, BeginThreeWay, ReconcileStart, Abort, Insert,
                     InsertCollides, InsertRefused, RepairRead, RepairFlush, RepairCollides,
                     RepairCommit, CreateReceipt, ReverseReceipt, ExtractionSucceeds
    <2> QED BY Zenon, <2>1, <2>2, CommitReservesAtOnce
<1> QED BY <1>1, Invariant, PTL DEF Spec
=============================================================================
