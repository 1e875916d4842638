------------------------- MODULE PayableCase_proofs -------------------------
(***************************************************************************)
(* Proofs about PayableCase, for any documents, teams and bounds.          *)
(***************************************************************************)
EXTENDS PayableCase, FiniteSetTheorems, TLAPS

AttRow == [doc : Document, supersedes : Nat, slot : BOOLEAN]

\* The documents there are: every invoice among them has a job.
Known == DOMAIN jobs \cup Order \cup Receipt

\* What the rows and the requests in flight look like.
Shape ==
    /\ atts \in Seq(AttRow)
    /\ \A a \in Att : atts[a].supersedes \in {0} \cup Att
    /\ confs \subseteq Att
    /\ DOMAIN jobs \subseteq Invoice
    /\ DOMAIN runs \subseteq Order \cup Receipt
    /\ \A a \in Att : atts[a].doc \in Known
    /\ IsFiniteSet(DOMAIN req)
    /\ \A s \in DOMAIN req : /\ req[s].pc = "attach" => req[s].doc \in Known
                             /\ req[s].pc = "confirm" => req[s].att \in Att

\* The inductive form of SlotExclusive.
Slots ==
    /\ \A a, b \in InSlot(Invoice) : a = b
    /\ \A a, b \in InSlot(Order) : a = b
    /\ \A a \in Att : Slotted(atts[a].doc) => (atts[a].slot <=> ~HasSuccessor(a))
    /\ \A a, b \in Att : atts[a].supersedes = atts[b].supersedes /\ atts[a].supersedes # 0
                         => a = b

\* The role of a document.
LEMMA Roles ==
    ASSUME NEW d \in Document
    PROVE  /\ RoleOf(d) \in {Invoice, Order, Receipt} /\ d \in RoleOf(d)
           /\ Slotted(d) => RoleOf(d) \in {Invoice, Order} /\ RoleOf(d) # Receipt
           /\ d \in Invoice => RoleOf(d) = Invoice
           /\ d \in Order => RoleOf(d) = Order
<1>1. \E role \in {Invoice, Order, Receipt} : d \in role
    BY DEF Document
<1>2. RoleOf(d) \in {Invoice, Order, Receipt} /\ d \in RoleOf(d)
    BY <1>1 DEF RoleOf
<1> QED BY <1>2, DocumentAssumption DEF Slotted

-----------------------------------------------------------------------------
(* A new attachment *)

\* The rows after an attach: the new one last, the superseded one out of its
\* slot, everything else as it was.
LEMMA AttachedRows ==
    ASSUME Shape, NEW d \in Document, NEW old \in Nat, atts' = Superseding(d, old)
    PROVE  /\ atts' \in Seq(AttRow)
           /\ Len(atts) \in Nat /\ Att = 1..Len(atts) /\ Att' = 1..(Len(atts) + 1)
           /\ \A a \in Att : /\ atts'[a].doc = atts[a].doc
                             /\ atts'[a].supersedes = atts[a].supersedes
                             /\ atts'[a].slot <=> (a # old /\ atts[a].slot)
           /\ atts'[Len(atts) + 1].doc = d
           /\ atts'[Len(atts) + 1].supersedes = old
           /\ atts'[Len(atts) + 1].slot <=> Slotted(d)
<1> DEFINE m == Len(atts)
           new == [doc |-> d, supersedes |-> old, slot |-> Slotted(d)]
           row(a) == IF a = old THEN [atts[a] EXCEPT !.slot = FALSE] ELSE atts[a]
           g == [a \in Att |-> row(a)]
<1>1. atts \in Seq(AttRow) /\ m \in Nat /\ Att = 1..m /\ \A a \in Att : atts[a] \in AttRow
    BY DEF Shape, Att
<1>2. new \in AttRow /\ new.doc = d /\ new.supersedes = old /\ (new.slot <=> Slotted(d))
    BY Zenon DEF AttRow, Slotted
<1>3. ASSUME NEW a \in Att
      PROVE  /\ row(a) \in AttRow
             /\ row(a).doc = atts[a].doc /\ row(a).supersedes = atts[a].supersedes
             /\ row(a).slot <=> (a # old /\ atts[a].slot)
    BY Zenon, <1>1 DEF AttRow
<1>4. atts' = Append(g, new)
    BY Zenon DEF Superseding
<1>5. \A a \in 1..m : g[a] = row(a) /\ g[a] \in AttRow
    BY Zenon, <1>1, <1>3
<1>6. g \in Seq(AttRow) /\ Len(g) = m
    <2>1. g \in [1..m -> AttRow]
        BY Zenon, <1>1, <1>3
    <2> HIDE DEF g, row, m
    <2>2. m \in Nat
        BY <1>1
    <2> QED BY <2>1, <2>2
<1> HIDE DEF g, new, row
<1>7. /\ atts' \in Seq(AttRow) /\ Len(atts') = m + 1
      /\ \A a \in 1..m : atts'[a] = g[a]
      /\ atts'[m + 1] = new
    BY <1>1, <1>2, <1>4, <1>6
<1>8. Att' = 1..(m + 1)
    BY <1>7 DEF Att
<1>9. \A a \in Att : atts'[a] = row(a)
    BY Zenon, <1>1, <1>5, <1>7
<1>10. \A a \in Att : /\ atts'[a].doc = atts[a].doc
                      /\ atts'[a].supersedes = atts[a].supersedes
                      /\ atts'[a].slot <=> (a # old /\ atts[a].slot)
    BY Zenon, <1>3, <1>9
<1>11. /\ atts'[m + 1].doc = d /\ atts'[m + 1].supersedes = old
       /\ atts'[m + 1].slot <=> Slotted(d)
    BY Zenon, <1>2, <1>7
<1> QED BY Zenon, <1>1, <1>7, <1>8, <1>10, <1>11

\* An attach that is not refused keeps the slots exclusive.
LEMMA AttachKeepsSlots ==
    ASSUME Shape, Slots, NEW d \in Document, NEW old, MayAttach(d, old),
           atts' = Superseding(d, old)
    PROVE  /\ Slots'
           /\ atts' \in Seq(AttRow)
           /\ \A a \in Att' : atts'[a].supersedes \in {0} \cup Att'
           /\ Att \subseteq Att'
           /\ \A a \in Att : atts'[a].doc = atts[a].doc
           /\ \A a \in Att' : a \in Att \/ atts'[a].doc = d
<1>n. PICK n : n = Len(atts) + 1
    BY Zenon
<1>1. \/ old = 0
      \/ /\ old \in Att /\ ~HasSuccessor(old)
         /\ Slotted(d) => old \in InSlot(RoleOf(d))
    <2>1. CASE Slotted(d) /\ InSlot(RoleOf(d)) # {}
        <3>1. old \in InSlot(RoleOf(d))
            BY <2>1 DEF MayAttach
        <3>2. old \in Att /\ atts[old].slot /\ Slotted(atts[old].doc)
            BY <2>1, <3>1, Roles, DocumentAssumption DEF InSlot, Slotted
        <3> QED BY Zenon, <3>1, <3>2 DEF Slots
    <2> QED BY Zenon, <2>1 DEF MayAttach
<1>2. old \in Nat
    BY <1>1 DEF Shape, Att
<1>3. /\ atts' \in Seq(AttRow)
      /\ Len(atts) \in Nat /\ Att = 1..Len(atts) /\ Att' = 1..n
      /\ \A a \in Att : /\ atts'[a].doc = atts[a].doc
                        /\ atts'[a].supersedes = atts[a].supersedes
                        /\ atts'[a].slot <=> (a # old /\ atts[a].slot)
      /\ atts'[n].doc = d /\ atts'[n].supersedes = old
      /\ atts'[n].slot <=> Slotted(d)
    BY Zenon, <1>2, <1>n, AttachedRows
<1>a. atts'[n].supersedes = old /\ \A a \in Att : atts'[a].supersedes = atts[a].supersedes
    BY Zenon, <1>3
<1>b. /\ atts'[n].slot <=> Slotted(d)
      /\ \A a \in Att : atts'[a].slot <=> (a # old /\ atts[a].slot)
    BY Zenon, <1>3
<1>c. atts'[n].doc = d /\ \A a \in Att : atts'[a].doc = atts[a].doc
    BY Zenon, <1>3
<1>4. n \in Nat /\ n \notin Att /\ Att' = Att \cup {n} /\ 0 \notin Att /\ n # 0
    BY <1>n, <1>3
<1>5. \A a \in Att : HasSuccessor(a)' <=> (HasSuccessor(a) \/ a = old)
    BY Zenon, <1>a, <1>4 DEF HasSuccessor
<1>6. ~HasSuccessor(n)'
    <2>1. \A a \in Att : atts[a].supersedes \in {0} \cup Att
        BY DEF Shape
    <2> QED BY ZenonT(60), <1>1, <1>a, <1>4, <2>1 DEF HasSuccessor
<1>7. ASSUME NEW role, role \in {Invoice, Order}, \A a, b \in InSlot(role) : a = b,
             NEW a \in InSlot(role)', NEW b \in InSlot(role)'
      PROVE  a = b
    <2>1. \A c \in InSlot(role)' : c = n \/ (c \in InSlot(role) /\ c # old)
        BY Zenon, <1>b, <1>c, <1>4 DEF InSlot
    <2>2. CASE d \in role
        <3>1. Slotted(d) /\ RoleOf(d) = role
            BY <1>7, <2>2, Roles, DocumentAssumption DEF Slotted
        <3>2. InSlot(role) = {} \/ old \in InSlot(role)
            BY Zenon, <3>1 DEF MayAttach
        <3> QED BY Zenon, <1>7, <2>1, <3>2
    <2>3. CASE d \notin role
        <3>1. n \notin InSlot(role)'
            BY Zenon, <1>c, <2>3 DEF InSlot
        <3> QED BY Zenon, <1>7, <2>1, <3>1
    <2> QED BY Zenon, <2>2, <2>3
<1>8. /\ \A a, b \in InSlot(Invoice)' : a = b
      /\ \A a, b \in InSlot(Order)' : a = b
    BY Zenon, <1>7 DEF Slots
<1>9. ASSUME NEW a \in Att', Slotted(atts'[a].doc)
      PROVE  atts'[a].slot <=> ~HasSuccessor(a)'
    <2>1. CASE a = n
        BY Zenon, <1>b, <1>c, <1>6, <1>9, <2>1
    <2>2. CASE a \in Att
        <3>1. atts[a].slot <=> ~HasSuccessor(a)
            BY Zenon, <1>c, <1>9, <2>2 DEF Slots
        <3> QED BY Zenon, <1>b, <1>5, <2>2, <3>1
    <2> QED BY Zenon, <1>4, <2>1, <2>2
<1>10. ASSUME NEW a \in Att', NEW b \in Att', atts'[a].supersedes = atts'[b].supersedes,
              atts'[a].supersedes # 0
       PROVE  a = b
    <2>1. ASSUME NEW c \in Att, atts'[c].supersedes = old, old # 0 PROVE FALSE
        BY Zenon, <1>1, <1>a, <2>1 DEF HasSuccessor
    <2>2. CASE a \in Att /\ b \in Att
        BY Zenon, <1>a, <1>10, <2>2 DEF Slots
    <2>3. CASE a = n \/ b = n
        BY Zenon, <1>a, <1>4, <1>10, <2>1, <2>3
    <2> QED BY Zenon, <1>4, <2>2, <2>3
<1>11. Slots'
    BY Zenon, <1>8, <1>9, <1>10 DEF Slots, Slotted
<1>12. \A a \in Att' : atts'[a].supersedes \in {0} \cup Att'
    <2>1. \A a \in Att : atts[a].supersedes \in {0} \cup Att
        BY DEF Shape
    <2> QED BY Zenon, <1>1, <1>a, <1>4, <2>1
<1>13. \A a \in Att' : a \in Att \/ atts'[a].doc = d
    BY Zenon, <1>c, <1>4
<1> QED BY Zenon, <1>3, <1>4, <1>11, <1>12, <1>13

-----------------------------------------------------------------------------
(* The inductive invariant *)

\* The context of a match made of confirmed records and an extracted invoice.
Sound(c) ==
    /\ c.order \in confs /\ atts[c.order].doc \in Order
    /\ c.receipts \subseteq confs
    /\ c.invoice \in Att /\ atts[c.invoice].doc \in DOMAIN jobs
    /\ jobs[atts[c.invoice].doc] = "SUCCEEDED"

\* The context of a match with exactly the documents active in the case.
Current(c) ==
    /\ InSlot(Invoice) = {c.invoice} /\ InSlot(Order) = {c.order}
    /\ c.receipts = {a \in Att : atts[a].doc \in Receipt /\ ~HasSuccessor(a)} \cap confs

Matched == {"MATCHED", "NEEDS_REVIEW"}

\* The inductive form of ConfirmedFirst: it also holds of a match that is going
\* to be recorded, which was found under a lock that is free again.
Consumed ==
    /\ \A c \in ctxs : Sound(c)
    /\ \A s \in DOMAIN req : req[s].pc = "match" => Sound(req[s].ctx)
    /\ ReceiptHasOrder

\* The inductive form of MatchedIsCurrent: while the only operator is matching,
\* nothing is attached or confirmed; while they are attaching, the case becomes
\* matched for nobody else.
Alone ==
    \A s : DOMAIN req = {s} =>
        /\ req[s].pc = "match" => Current(req[s].ctx)
        /\ req[s].pc = "attach" /\ kase.status \in Matched => req[s].seen.status = kase.status
        /\ kase.status \in Matched => \E c \in ctxs : Current(c)

IInv == Shape /\ Slots /\ Consumed /\ Alone

\* A job that a worker is about to commit is held by no other, and is open.
JobsHeld ==
    /\ \A w \in DOMAIN sup : sup[w].pc = "invoice" =>
          sup[w].doc \in DOMAIN jobs /\ jobs[sup[w].doc] # "SUCCEEDED"
    /\ \A v, w \in DOMAIN sup :
          sup[v].pc = "invoice" /\ sup[w].pc = "invoice" /\ sup[v].doc = sup[w].doc => v = w

JobsKept ==
    /\ DOMAIN jobs' = DOMAIN jobs
    /\ \A d \in DOMAIN jobs : jobs[d] = "SUCCEEDED" => jobs'[d] = "SUCCEEDED"

\* The state of a request is replaced; the other requests are as they were.
LEMMA ReqUpdate ==
    ASSUME NEW s \in DOMAIN req, NEW x, req' = [req EXCEPT ![s] = x]
    PROVE  /\ DOMAIN req' = DOMAIN req /\ req'[s] = x
           /\ \A t \in DOMAIN req : t # s => req'[t] = req[t]
OBVIOUS

\* Predicates on the rows depend on the rows only.
LEMMA RowsKept ==
    ASSUME UNCHANGED atts
    PROVE  /\ Att' = Att /\ (Slots => Slots')
           /\ \A R : InSlot(R)' = InSlot(R)
           /\ \A a : HasSuccessor(a)' = HasSuccessor(a)
BY Zenon DEF Att, Slots, InSlot, HasSuccessor, Slotted

\* What keeps a context sound: its rows, confirmations and jobs are kept.
LEMMA SoundKept ==
    ASSUME Shape, NEW c, Sound(c), Att \subseteq Att',
           \A a \in Att : atts'[a].doc = atts[a].doc,
           confs \subseteq confs', JobsKept
    PROVE  Sound(c)'
<1>1. c.order \in Att /\ c.invoice \in Att
    BY DEF Sound, Shape
<1> QED BY Zenon, <1>1 DEF Sound, JobsKept

\* Steps of the workers and reads: they change neither rows, confirmations,
\* contexts nor requests, and make no case matched.
LEMMA WorkKeeps ==
    ASSUME IInv, UNCHANGED <<atts, confs, ctxs, req>>, JobsKept,
           DOMAIN runs' = DOMAIN runs,
           kase'.status \in Matched => kase.status = kase'.status
    PROVE  IInv'
<1>1. Shape /\ Slots /\ Consumed /\ Alone
    BY DEF IInv
<1>2. Att' = Att /\ Slots' /\ \A R : InSlot(R)' = InSlot(R)
    BY Zenon, <1>1, RowsKept
<1>3. Shape'
    BY Zenon, <1>1, <1>2 DEF Shape, JobsKept, Known
<1>4. \A c : Sound(c) => Sound(c)'
    BY Zenon, <1>1, <1>2, SoundKept
<1>5. \A c : Current(c) => Current(c)'
    BY Zenon, <1>2, RowsKept DEF Current
<1>6. Consumed'
    BY Zenon, <1>1, <1>4 DEF Consumed, ReceiptHasOrder
<1>7. Alone'
    BY Zenon, <1>1, <1>5 DEF Alone
<1> QED BY <1>2, <1>3, <1>6, <1>7 DEF IInv

-----------------------------------------------------------------------------
(* The requests *)

\* A request that is given up, or opened, with nothing stored: it is enough to
\* look at the request's own new state.
LEMMA RequestKeeps ==
    ASSUME IInv, UNCHANGED <<kase, atts, confs, ctxs, runs>>, JobsKept,
           NEW s \in DOMAIN req, NEW x, req' = [req EXCEPT ![s] = x],
           x.pc = "attach" => x.doc \in Known /\ x.seen = kase,
           x.pc = "confirm" => x.att \in Att,
           x.pc = "match" => Sound(x.ctx) /\ Current(x.ctx)
    PROVE  IInv'
<1>1. Shape /\ Slots /\ Consumed /\ Alone
    BY DEF IInv
<1>2. Att' = Att /\ Slots' /\ \A R : InSlot(R)' = InSlot(R)
    BY Zenon, <1>1, RowsKept
<1>3. /\ DOMAIN req' = DOMAIN req /\ req'[s] = x
      /\ \A t \in DOMAIN req : t # s => req'[t] = req[t]
    BY ReqUpdate
<1>4. Shape'
    <2>1. \A t \in DOMAIN req : /\ req'[t].pc = "attach" => req'[t].doc \in Known'
                                /\ req'[t].pc = "confirm" => req'[t].att \in Att
        BY Zenon, <1>1, <1>3 DEF Shape, JobsKept, Known
    <2>2. Known' = Known
        BY Zenon DEF Known, JobsKept
    <2> QED BY Zenon, <1>1, <1>2, <1>3, <2>1, <2>2 DEF Shape, JobsKept
<1>5. \A c : Sound(c) => Sound(c)'
    BY Zenon, <1>1, <1>2, SoundKept
<1>6. \A c : Current(c) => Current(c)'
    BY Zenon, <1>2, RowsKept DEF Current
<1>7. Consumed'
    <2>1. \A c \in ctxs' : Sound(c)'
        BY Zenon, <1>1, <1>5 DEF Consumed
    <2>2. ASSUME NEW t \in DOMAIN req', req'[t].pc = "match" PROVE Sound(req[t].ctx)'
        <3>1. CASE t = s
            BY Zenon, <3>1, <1>3, <1>5, <2>2
        <3>2. CASE t # s
            BY Zenon, <3>2, <1>1, <1>3, <1>5, <2>2 DEF Consumed
        <3> QED BY <3>1, <3>2
    <2>3. ReceiptHasOrder'
        BY Zenon, <1>1 DEF Consumed, ReceiptHasOrder
    <2> QED BY Zenon, <2>1, <2>2, <2>3 DEF Consumed
<1>8. Alone'
    <2> SUFFICES ASSUME NEW t, DOMAIN req' = {t}
                 PROVE  /\ req'[t].pc = "match" => Current(req[t].ctx)'
                        /\ req'[t].pc = "attach" /\ kase.status \in Matched
                           => req'[t].seen.status = kase.status
                        /\ kase.status \in Matched => \E c \in ctxs : Current(c)'
        BY Zenon DEF Alone
    <2>1. t = s /\ DOMAIN req = {t}
        BY Zenon, <1>3
    <2> QED BY Zenon, <2>1, <1>1, <1>3, <1>6 DEF Alone
<1> QED BY <1>2, <1>4, <1>7, <1>8 DEF IInv

\* An attach request is opened with the case as it is.
LEMMA AttachBeginKeeps ==
    ASSUME IInv, JobsKept, NEW s \in DOMAIN req, NEW d \in AtHand, NEW old,
           AttachBegin(s, d, old)
    PROVE  IInv'
<1>1. d \in Known
    BY DEF IInv, Shape, AtHand, Known
<1> DEFINE x == [Free EXCEPT !.pc = "attach", !.doc = d, !.supersedes = old, !.seen = kase,
                             !.job = IF d \in Invoice THEN jobs[d] ELSE None]
<1>2. x.pc = "attach" /\ x.doc = d /\ x.seen = kase
    BY DEF Free
<1>3. req' = [req EXCEPT ![s] = x] /\ UNCHANGED <<kase, atts, confs, ctxs, runs>>
    BY DEF AttachBegin
<1> HIDE DEF x
<1> QED BY Zenon, <1>1, <1>2, <1>3, RequestKeeps

\* A confirmation request is opened for an attachment of the case.
LEMMA ConfirmBeginKeeps ==
    ASSUME IInv, JobsKept, NEW s \in DOMAIN req, NEW a \in Att, ConfirmBegin(s, a)
    PROVE  IInv'
<1> DEFINE x == [Free EXCEPT !.pc = "confirm", !.att = a, !.seen = kase]
<1>2. x.pc = "confirm" /\ x.att = a
    BY DEF Free
<1>3. req' = [req EXCEPT ![s] = x] /\ UNCHANGED <<kase, atts, confs, ctxs, runs>>
    BY DEF ConfirmBegin
<1> HIDE DEF x
<1> QED BY Zenon, <1>2, <1>3, RequestKeeps

\* A match is opened for the documents active at that moment.
LEMMA MatchBeginKeeps ==
    ASSUME IInv, JobsKept, NEW s \in DOMAIN req, MatchBegin(s)
    PROVE  IInv'
<1>1. PICK i \in InSlot(Invoice), o \in InSlot(Order) :
        req' = [req EXCEPT ![s] =
                  [Free EXCEPT !.pc = "match", !.seen = kase,
                               !.ctx = [invoice |-> i, order |-> o,
                                        receipts |-> {r \in confs : atts[r].doc \in Receipt
                                                                    /\ ~HasSuccessor(r)}]]]
    BY Zenon DEF MatchBegin
<1> DEFINE ctx == [invoice |-> i, order |-> o,
                   receipts |-> {r \in confs : atts[r].doc \in Receipt /\ ~HasSuccessor(r)}]
           x == [Free EXCEPT !.pc = "match", !.seen = kase, !.ctx = ctx]
<1>2. x.pc = "match" /\ x.ctx = ctx
    BY Zenon DEF Free
<1>3. req' = [req EXCEPT ![s] = x] /\ UNCHANGED <<kase, atts, confs, ctxs, runs>>
    BY Zenon, <1>1 DEF MatchBegin
<1>4. Slots /\ confs \subseteq Att
    BY DEF IInv, Shape
<1>5. InSlot(Invoice) = {i} /\ InSlot(Order) = {o}
    BY Zenon, <1>4 DEF Slots
<1>6. o \in confs /\ jobs[atts[i].doc] = "SUCCEEDED"
    <2>1. Matchable
        BY DEF MatchBegin
    <2> QED BY Zenon, <2>1, <1>5 DEF Matchable
<1>7. Sound(ctx)
    <2>1. ctx.order = o /\ ctx.invoice = i /\ ctx.receipts \subseteq confs
        BY Zenon
    <2>2. i \in Att /\ atts[i].doc \in Invoice /\ atts[i].doc \in Known
        BY Zenon DEF IInv, Shape, InSlot
    <2>3. atts[i].doc \in DOMAIN jobs
        BY Zenon, <2>2, DocumentAssumption DEF Known
    <2> QED BY Zenon, <2>1, <2>2, <2>3, <1>6 DEF Sound, InSlot
<1>8. Current(ctx)
    <2>1. ctx.order = o /\ ctx.invoice = i
        BY Zenon
    <2>2. ctx.receipts = {a \in Att : atts[a].doc \in Receipt /\ ~HasSuccessor(a)} \cap confs
        BY Zenon, <1>4
    <2> QED BY Zenon, <2>1, <2>2, <1>5 DEF Current
<1> HIDE DEF ctx, x
<1> QED BY Zenon, <1>2, <1>3, <1>7, <1>8, RequestKeeps

\* The status a commit of a request or a worker may write.
LEMMA MovedStatus ==
    ASSUME NEW st, st \notin Matched
    PROVE  /\ Moved(st).status \notin Matched
           /\ \A seen, v : (kase.status \in Matched => seen.status = kase.status)
                           => Flush(seen, st, v).status \notin Matched
BY Zenon DEF Moved, Flush

\* An attach leaves no matched case behind.
LEMMA AttachCommitKeeps ==
    ASSUME IInv, JobsKept, NEW s \in DOMAIN req, AttachCommit(s)
    PROVE  IInv'
<1> DEFINE d == req[s].doc
           old == req[s].supersedes
<1>1. Shape /\ Slots /\ Consumed /\ Alone
    BY DEF IInv
<1>2. /\ req[s].pc = "attach" /\ MayAttach(d, old) /\ atts' = Superseding(d, old)
      /\ req' = [req EXCEPT ![s] = Free] /\ UNCHANGED <<jobs, runs, confs, ctxs>>
    BY Zenon DEF AttachCommit
<1>3. d \in Known /\ d \in Document
    BY Zenon, <1>1, <1>2 DEF Shape, Known, Document
<1>4. /\ Slots' /\ atts' \in Seq(AttRow)
      /\ (\A a \in Att : atts[a].supersedes \in {0} \cup Att)'
      /\ Att \subseteq Att' /\ \A a \in Att : atts'[a].doc = atts[a].doc
      /\ \A a \in Att' : a \in Att \/ atts'[a].doc = d
    <2> HIDE DEF d, old
    <2> QED BY Zenon, <1>1, <1>2, <1>3, AttachKeepsSlots
<1>5. /\ DOMAIN req' = DOMAIN req /\ req'[s] = Free
      /\ \A t \in DOMAIN req : t # s => req'[t] = req[t]
    BY Zenon, <1>2, ReqUpdate
<1>6. Free.pc = "free"
    BY DEF Free
<1>7. Shape'
    <2>1. ASSUME NEW t \in DOMAIN req
          PROVE  /\ req'[t].pc = "attach" => req'[t].doc \in Known'
                 /\ req'[t].pc = "confirm" => req'[t].att \in Att'
        <3>1. CASE t = s
            BY <3>1, <1>5, <1>6
        <3>2. CASE t # s
            BY Zenon, <3>2, <1>1, <1>2, <1>4, <1>5 DEF Shape, Known
        <3> QED BY <3>1, <3>2
    <2>2. confs' \subseteq Att'
        BY Zenon, <1>1, <1>2, <1>4 DEF Shape
    <2>3. /\ DOMAIN jobs' \subseteq Invoice /\ DOMAIN runs' \subseteq Order \cup Receipt
          /\ IsFiniteSet(DOMAIN req')
        BY Zenon, <1>1, <1>2, <1>5 DEF Shape
    <2>4. (\A a \in Att : atts[a].doc \in Known)'
        BY Zenon, <1>1, <1>2, <1>3, <1>4 DEF Shape, Known
    <2> QED BY Zenon, <1>4, <1>5, <2>1, <2>2, <2>3, <2>4 DEF Shape
<1>8. \A c : Sound(c) => Sound(c)'
    BY Zenon, <1>1, <1>2, <1>4, SoundKept
<1>9. Consumed'
    <2>1. \A c \in ctxs' : Sound(c)'
        BY Zenon, <1>1, <1>2, <1>8 DEF Consumed
    <2>2. ASSUME NEW t \in DOMAIN req', req'[t].pc = "match" PROVE Sound(req[t].ctx)'
        <3>1. t # s
            BY <2>2, <1>5, <1>6
        <3> QED BY Zenon, <3>1, <1>1, <1>5, <1>8, <2>2 DEF Consumed
    <2>3. ReceiptHasOrder'
        BY Zenon, <1>1, <1>2, <1>4 DEF Consumed, ReceiptHasOrder, Shape
    <2> QED BY Zenon, <2>1, <2>2, <2>3 DEF Consumed
<1>10. ASSUME NEW t, DOMAIN req' = {t} PROVE kase'.status \notin Matched
    <2>1. t = s /\ DOMAIN req = {s}
        BY Zenon, <1>5, <1>10
    <2>2. PICK seen \in Reloaded(s), st \in {"NEEDS_CONFIRMATION", "PROCESSING"} :
            kase' = Flush(seen, st, seen.version + 1)
        BY Zenon DEF AttachCommit
    <2>3. kase.status \in Matched => seen.status = kase.status
        BY Zenon, <1>1, <1>2, <2>1, <2>2 DEF Reloaded, Alone
    <2>4. st \notin Matched
        BY <2>2 DEF Matched
    <2> QED BY Zenon, <2>2, <2>3, <2>4, MovedStatus
<1>11. Alone'
    <2> SUFFICES ASSUME NEW t, DOMAIN req' = {t}
                 PROVE  req'[t].pc = "free" /\ kase'.status \notin Matched
        BY Zenon, <1>6 DEF Alone
    <2> QED BY Zenon, <1>5, <1>6, <1>10
<1> QED BY Zenon, <1>4, <1>7, <1>9, <1>11 DEF IInv

\* A confirmation leaves no matched case behind, and a receipt's follows its
\* order's.
LEMMA ConfirmCommitKeeps ==
    ASSUME IInv, JobsKept, NEW s \in DOMAIN req, ConfirmCommit(s)
    PROVE  IInv'
<1> DEFINE a == req[s].att
<1>1. Shape /\ Slots /\ Consumed /\ Alone
    BY DEF IInv
<1>2. /\ req[s].pc = "confirm" /\ req' = [req EXCEPT ![s] = Free]
      /\ UNCHANGED <<atts, jobs, runs, ctxs>>
    BY Zenon DEF ConfirmCommit
<1>3. Free.pc = "free"
    BY DEF Free
<1>4. CASE UNCHANGED <<confs, kase>>
    <2>1. Free.pc # "attach" /\ Free.pc # "confirm" /\ Free.pc # "match"
        BY <1>3
    <2> QED BY Zenon, <2>1, <1>2, <1>4, RequestKeeps
<1>5. CASE confs' = Confirmed(a) /\ kase' = Moved(StatusAfterConfirmation(a)) /\ Confirmable(a)
    <2>1. a \in Att
        BY Zenon, <1>1, <1>2 DEF Shape
    <2>2. confs' = confs \cup {a}
        BY <1>5 DEF Confirmed
    <2>3. Att' = Att /\ Slots' /\ \A R : InSlot(R)' = InSlot(R)
        BY Zenon, <1>1, <1>2, RowsKept
    <2>4. /\ DOMAIN req' = DOMAIN req /\ req'[s] = Free
          /\ \A t \in DOMAIN req : t # s => req'[t] = req[t]
        BY Zenon, <1>2, ReqUpdate
    <2>5. Shape'
        <3>1. ASSUME NEW t \in DOMAIN req
              PROVE  /\ req'[t].pc = "attach" => req'[t].doc \in Known'
                     /\ req'[t].pc = "confirm" => req'[t].att \in Att'
            <4>1. CASE t = s
                BY <4>1, <2>4, <1>3
            <4>2. CASE t # s
                BY Zenon, <4>2, <1>1, <1>2, <2>3, <2>4 DEF Shape, Known
            <4> QED BY <4>1, <4>2
        <3>2. confs' \subseteq Att'
            BY Zenon, <1>1, <2>1, <2>2, <2>3 DEF Shape
        <3> QED BY Zenon, <1>1, <1>2, <2>3, <2>4, <3>1, <3>2 DEF Shape, Known
    <2>6. \A c : Sound(c) => Sound(c)'
        BY Zenon, <1>1, <1>2, <2>2, <2>3, SoundKept
    <2>7. Consumed'
        <3>1. \A c \in ctxs' : Sound(c)'
            BY Zenon, <1>1, <1>2, <2>6 DEF Consumed
        <3>2. ASSUME NEW t \in DOMAIN req', req'[t].pc = "match" PROVE Sound(req[t].ctx)'
            <4>1. t # s
                BY <3>2, <2>4, <1>3
            <4> QED BY Zenon, <4>1, <1>1, <2>4, <2>6, <3>2 DEF Consumed
        <3>3. ReceiptHasOrder'
            <4>1. CASE atts[a].doc \in Receipt
                BY Zenon, <4>1, <1>2, <1>5, <2>2 DEF Confirmable, InSlot, ReceiptHasOrder
            <4>2. CASE atts[a].doc \notin Receipt
                BY Zenon, <4>2, <1>1, <1>2, <2>2 DEF Consumed, ReceiptHasOrder
            <4> QED BY <4>1, <4>2
        <3> QED BY Zenon, <3>1, <3>2, <3>3 DEF Consumed
    <2>8. kase'.status \notin Matched
        <3>1. StatusAfterConfirmation(a) \notin Matched
            BY DEF StatusAfterConfirmation, Matched
        <3> QED BY Zenon, <3>1, <1>5, MovedStatus
    <2>9. Alone'
        <3> SUFFICES ASSUME NEW t, DOMAIN req' = {t} PROVE req'[t].pc = "free"
            BY Zenon, <2>8, <1>3 DEF Alone
        <3> QED BY Zenon, <2>4, <1>3
    <2> QED BY Zenon, <2>3, <2>5, <2>7, <2>9 DEF IInv
<1> QED BY Zenon, <1>4, <1>5 DEF ConfirmCommit

\* A match is recorded with the context it was opened with.
LEMMA MatchCommitKeeps ==
    ASSUME IInv, JobsKept, NEW s \in DOMAIN req, MatchCommit(s)
    PROVE  IInv'
<1>1. Shape /\ Slots /\ Consumed /\ Alone
    BY DEF IInv
<1>2. /\ req[s].pc = "match" /\ req' = [req EXCEPT ![s] = Free]
      /\ UNCHANGED <<atts, jobs, runs, confs>>
    BY Zenon DEF MatchCommit
<1>3. Free.pc = "free"
    BY DEF Free
<1>4. CASE UNCHANGED <<ctxs, kase>>
    <2>1. Free.pc # "attach" /\ Free.pc # "confirm" /\ Free.pc # "match"
        BY <1>3
    <2> QED BY Zenon, <2>1, <1>2, <1>4, RequestKeeps
<1>5. CASE ctxs' = ctxs \cup {req[s].ctx}
    <2>1. Att' = Att /\ Slots' /\ \A R : InSlot(R)' = InSlot(R)
        BY Zenon, <1>1, <1>2, RowsKept
    <2>2. /\ DOMAIN req' = DOMAIN req /\ req'[s] = Free
          /\ \A t \in DOMAIN req : t # s => req'[t] = req[t]
        BY Zenon, <1>2, ReqUpdate
    <2>3. Shape'
        <3>1. ASSUME NEW t \in DOMAIN req
              PROVE  /\ req'[t].pc = "attach" => req'[t].doc \in Known'
                     /\ req'[t].pc = "confirm" => req'[t].att \in Att'
            <4>1. CASE t = s
                BY <4>1, <2>2, <1>3
            <4>2. CASE t # s
                BY Zenon, <4>2, <1>1, <1>2, <2>1, <2>2 DEF Shape, Known
            <4> QED BY <4>1, <4>2
        <3> QED BY Zenon, <1>1, <1>2, <2>1, <2>2, <3>1 DEF Shape, Known
    <2>4. \A c : Sound(c) => Sound(c)'
        BY Zenon, <1>1, <1>2, <2>1, SoundKept
    <2>5. Consumed'
        <3>1. \A c \in ctxs' : Sound(c)'
            BY Zenon, <1>1, <1>2, <1>5, <2>4 DEF Consumed
        <3>2. ASSUME NEW t \in DOMAIN req', req'[t].pc = "match" PROVE Sound(req[t].ctx)'
            <4>1. t # s
                BY <3>2, <2>2, <1>3
            <4> QED BY Zenon, <4>1, <1>1, <2>2, <2>4, <3>2 DEF Consumed
        <3>3. ReceiptHasOrder'
            BY Zenon, <1>1, <1>2 DEF Consumed, ReceiptHasOrder
        <3> QED BY Zenon, <3>1, <3>2, <3>3 DEF Consumed
    <2>6. Alone'
        <3> SUFFICES ASSUME NEW t, DOMAIN req' = {t}
                     PROVE  req'[t].pc = "free" /\ \E c \in ctxs' : Current(c)'
            BY Zenon, <1>3 DEF Alone
        <3>1. t = s /\ DOMAIN req = {s}
            BY Zenon, <2>2
        <3>2. Current(req[s].ctx)
            BY Zenon, <1>1, <1>2, <3>1 DEF Alone
        <3>3. PICK c : c = req[s].ctx
            BY Zenon
        <3>4. Current(c)'
            BY Zenon, <3>2, <3>3, <1>2, <2>1, RowsKept DEF Current
        <3> QED BY Zenon, <1>3, <1>5, <2>2, <3>1, <3>3, <3>4
    <2> QED BY Zenon, <2>1, <2>3, <2>5, <2>6 DEF IInv
<1> QED BY Zenon, <1>4, <1>5 DEF MatchCommit

-----------------------------------------------------------------------------
(* Every step *)

\* A job that succeeded stays so: a redelivery does nothing, an upload of the
\* same bytes finds it.
LEMMA JobsStep ==
    ASSUME JobsHeld, [Next]_vars
    PROVE  JobsKept
<1>1. ASSUME NEW d \in AtHand, Upload(d) PROVE JobsKept
    BY <1>1 DEF Upload, JobsKept, None
<1>2. ASSUME NEW w \in DOMAIN sup, InvoiceWork(w) PROVE JobsKept
    <2>1. PICK d, outcome : d = sup[w].doc /\ jobs' = [jobs EXCEPT ![d] = outcome]
        BY Zenon, <1>2 DEF InvoiceWork
    <2>2. jobs[d] # "SUCCEEDED"
        BY Zenon, <1>2, <2>1 DEF InvoiceWork, JobsHeld
    <2> QED BY <2>1, <2>2 DEF JobsKept
<1>3. ASSUME NEW s \in DOMAIN req, NEW d \in AtHand, NEW old, AttachBegin(s, d, old)
      PROVE  JobsKept
    <2>1. jobs' = [i \in DOMAIN jobs |-> IF i = d /\ jobs[i] = None THEN "QUEUED" ELSE jobs[i]]
        BY Zenon, <1>3 DEF AttachBegin
    <2> QED BY <2>1 DEF JobsKept, None
<1>4. CASE UNCHANGED jobs
    BY Zenon, <1>4 DEF JobsKept
<1>5. ASSUME NEW w, \/ SupportSucceeds(w) \/ SupportFails(w) \/ SupportExhausted(w)
                    \/ \E d \in AtHand : InvoiceDone(d) \/ InvoiceLook(w, d)
                    \/ \E a \in Att : SupportLoad(w, a)
      PROVE  UNCHANGED jobs
    BY Zenon, <1>5 DEF SupportSucceeds, SupportFails, SupportExhausted, SupportDone,
       SupportLoad, InvoiceDone, InvoiceLook
<1>6. ASSUME NEW s, Request(s) \/ (\E a \in Att : ConfirmBegin(s, a)) \/ MatchBegin(s)
      PROVE  UNCHANGED jobs
    BY Zenon, <1>6 DEF Request, AttachCommit, AttachRefused, ConfirmCommit, MatchCommit,
       ConfirmBegin, MatchBegin
<1>7. ASSUME NEW a, AttachReplay(a) PROVE UNCHANGED jobs
    BY Zenon, <1>7 DEF AttachReplay
<1>8. CASE UNCHANGED vars
    BY Zenon, <1>4, <1>8 DEF vars
<1> QED BY Zenon, <1>1, <1>2, <1>3, <1>4, <1>5, <1>6, <1>7, <1>8 DEF Next, Work

\* A worker keeps the job's row locked from its look to its commit, and nobody
\* else lets the job succeed.
LEMMA HeldStep ==
    ASSUME Shape, JobsHeld, [Next]_vars
    PROVE  JobsHeld'
<1>k. JobsKept
    BY Zenon, JobsStep
<1>1. ASSUME UNCHANGED sup,
             \A d \in DOMAIN jobs : jobs'[d] = "SUCCEEDED" => jobs[d] = "SUCCEEDED"
      PROVE  JobsHeld'
    BY Zenon, <1>k, <1>1 DEF JobsHeld, JobsKept
<1>2. ASSUME UNCHANGED <<sup, jobs>> PROVE JobsHeld'
    BY Zenon, <1>2 DEF JobsHeld
<1>3. ASSUME NEW d \in AtHand, Upload(d) PROVE JobsHeld'
    <2>1. /\ UNCHANGED sup
          /\ \A e \in DOMAIN jobs : jobs'[e] = "SUCCEEDED" => jobs[e] = "SUCCEEDED"
        BY <1>3 DEF Upload
    <2> QED BY Zenon, <1>1, <2>1
<1>4. ASSUME NEW s \in DOMAIN req, NEW d \in AtHand, NEW old, AttachBegin(s, d, old)
      PROVE  JobsHeld'
    <2>1. jobs' = [i \in DOMAIN jobs |-> IF i = d /\ jobs[i] = None THEN "QUEUED" ELSE jobs[i]]
        BY Zenon, <1>4 DEF AttachBegin
    <2>2. \A e \in DOMAIN jobs : jobs'[e] = "SUCCEEDED" => jobs[e] = "SUCCEEDED"
        BY <2>1
    <2>3. UNCHANGED sup
        BY Zenon, <1>4 DEF AttachBegin
    <2> QED BY Zenon, <1>1, <2>2, <2>3
<1>5. ASSUME NEW w \in DOMAIN sup, NEW x, x.pc # "invoice", sup' = [sup EXCEPT ![w] = x],
             \A v \in DOMAIN sup : v # w /\ sup[v].pc = "invoice"
                                  => jobs'[sup[v].doc] = jobs[sup[v].doc]
      PROVE  JobsHeld'
    <2>1. /\ DOMAIN sup' = DOMAIN sup /\ sup'[w].pc # "invoice"
          /\ \A v \in DOMAIN sup : v # w => sup'[v] = sup[v]
        BY <1>5
    <2>2. \A v \in DOMAIN sup' :
             sup'[v].pc = "invoice" => v \in DOMAIN sup /\ sup'[v] = sup[v] /\ v # w
        BY Zenon, <2>1
    <2>3. ASSUME NEW v \in DOMAIN sup', sup'[v].pc = "invoice"
          PROVE  sup'[v].doc \in DOMAIN jobs' /\ jobs'[sup'[v].doc] # "SUCCEEDED"
        BY Zenon, <1>5, <1>k, <2>2, <2>3 DEF JobsHeld, JobsKept
    <2> QED BY Zenon, <2>2, <2>3 DEF JobsHeld
<1>6. Resting.pc # "invoice"
    BY DEF Resting
<1>7. ASSUME NEW w \in DOMAIN sup, InvoiceWork(w) PROVE JobsHeld'
    <2>1. PICK d, outcome : d = sup[w].doc /\ jobs' = [jobs EXCEPT ![d] = outcome]
        BY Zenon, <1>7 DEF InvoiceWork
    <2>2. sup[w].pc = "invoice" /\ sup' = [sup EXCEPT ![w] = Resting]
        BY Zenon, <1>7 DEF InvoiceWork
    <2>3. ASSUME NEW v \in DOMAIN sup, v # w, sup[v].pc = "invoice"
          PROVE  jobs'[sup[v].doc] = jobs[sup[v].doc]
        <3>1. PICK e : e = sup[v].doc
            BY Zenon
        <3>2. e \in DOMAIN jobs /\ e # d
            BY Zenon, <2>1, <2>2, <2>3, <3>1 DEF JobsHeld
        <3>3. jobs'[e] = jobs[e]
            BY <2>1, <3>2
        <3> QED BY Zenon, <3>1, <3>3
    <2> QED BY Zenon, <1>5, <1>6, <2>2, <2>3
<1>8. ASSUME NEW w \in DOMAIN sup, SupportSucceeds(w) \/ SupportFails(w) \/ SupportExhausted(w)
      PROVE  JobsHeld'
    <2>1. sup' = [sup EXCEPT ![w] = Resting] /\ UNCHANGED jobs
        BY Zenon, <1>8 DEF SupportSucceeds, SupportFails, SupportExhausted, SupportDone
    <2> QED BY Zenon, <1>5, <1>6, <2>1
<1>9. ASSUME NEW w \in DOMAIN sup, NEW a \in Att, SupportLoad(w, a) PROVE JobsHeld'
    <2> DEFINE x == [Resting EXCEPT !.pc = "work", !.att = a,
                        !.active = atts[a].slot, !.extracted = Extracted(atts[a].doc)]
    <2>1. sup' = [sup EXCEPT ![w] = x] /\ UNCHANGED jobs
        BY Zenon, <1>9 DEF SupportLoad
    <2>2. x.pc # "invoice"
        BY DEF Resting
    <2> HIDE DEF x
    <2> QED BY Zenon, <1>5, <2>1, <2>2
<1>10. ASSUME NEW w \in DOMAIN sup, NEW d \in AtHand, InvoiceLook(w, d) PROVE JobsHeld'
    <2> DEFINE x == [Resting EXCEPT !.pc = "invoice", !.doc = d,
                        !.active = \E a \in InSlot(Invoice) : atts[a].doc = d]
    <2>1. sup' = [sup EXCEPT ![w] = x] /\ UNCHANGED jobs
        BY Zenon, <1>10 DEF InvoiceLook
    <2>2. x.doc = d
        BY DEF Resting
    <2> HIDE DEF x
    <2>3. /\ DOMAIN sup' = DOMAIN sup /\ sup'[w] = x
          /\ \A v \in DOMAIN sup : v # w => sup'[v] = sup[v]
        BY <2>1
    <2>4. /\ jobs[d] # "SUCCEEDED" /\ d \in Invoice
          /\ \A v \in DOMAIN sup : sup[v].pc = "invoice" => sup[v].doc # d
        BY Zenon, <1>10 DEF InvoiceLook
    <2>5. d \in DOMAIN jobs
        BY Zenon, <1>10, <2>4, DocumentAssumption DEF Shape, AtHand
    <2> QED BY Zenon, <2>1, <2>2, <2>3, <2>4, <2>5 DEF JobsHeld
<1>11. ASSUME NEW s, Request(s) \/ (\E a \in Att : ConfirmBegin(s, a)) \/ MatchBegin(s)
       PROVE  UNCHANGED <<sup, jobs>>
    BY Zenon, <1>11 DEF Request, AttachCommit, AttachRefused, ConfirmCommit, MatchCommit,
       ConfirmBegin, MatchBegin
<1>12. ASSUME (\E d \in AtHand : InvoiceDone(d)) \/ (\E a \in Att : AttachReplay(a))
              \/ UNCHANGED vars
       PROVE  UNCHANGED <<sup, jobs>>
    BY Zenon, <1>12 DEF InvoiceDone, AttachReplay, vars
<1> QED BY Zenon, <1>2, <1>3, <1>4, <1>7, <1>8, <1>9, <1>10, <1>11, <1>12 DEF Next, Work

\* A supporting worker's last transaction.
LEMMA SupportDoneKeeps ==
    ASSUME IInv, JobsKept, NEW w, NEW run, NEW k, SupportDone(w, run, k),
           k.status \in Matched => kase.status = k.status
    PROVE  IInv'
<1>1. UNCHANGED <<atts, confs, ctxs, req>> /\ kase' = k
    BY Zenon DEF SupportDone
<1>2. DOMAIN runs' = DOMAIN runs
    BY DEF SupportDone
<1> QED BY Zenon, <1>1, <1>2, WorkKeeps

\* No worker makes a case matched.
LEMMA WorkersKeep ==
    ASSUME IInv, JobsKept, NEW w,
           \/ SupportSucceeds(w) \/ SupportFails(w) \/ SupportExhausted(w)
           \/ \E a \in Att : SupportLoad(w, a)
    PROVE  IInv'
<1>f. Moved("FAILED").status \notin Matched
    <2>1. "FAILED" \notin Matched
        BY DEF Matched
    <2> QED BY Zenon, <2>1, MovedStatus
<1>n. Moved("NEEDS_CONFIRMATION").status \notin Matched
    <2>1. "NEEDS_CONFIRMATION" \notin Matched
        BY DEF Matched
    <2> QED BY Zenon, <2>1, MovedStatus
<1>1. CASE SupportSucceeds(w)
    <2>1. PICK run, k : SupportDone(w, run, k) /\ k \in {kase, Moved("NEEDS_CONFIRMATION")}
        BY Zenon, <1>1 DEF SupportSucceeds
    <2>2. k.status \in Matched => kase.status = k.status
        BY Zenon, <1>n, <2>1
    <2> QED BY Zenon, <2>1, <2>2, SupportDoneKeeps
<1>2. CASE SupportFails(w)
    <2>1. PICK run, k : SupportDone(w, run, k) /\ k \in {kase, Moved("FAILED")}
        BY Zenon, <1>2 DEF SupportFails
    <2>2. k.status \in Matched => kase.status = k.status
        BY Zenon, <1>f, <2>1
    <2> QED BY Zenon, <2>1, <2>2, SupportDoneKeeps
<1>3. CASE SupportExhausted(w)
    <2>1. PICK run, k : SupportDone(w, run, k) /\ k \in {kase, Moved("FAILED")}
        BY Zenon, <1>3 DEF SupportExhausted
    <2>2. k.status \in Matched => kase.status = k.status
        BY Zenon, <1>f, <2>1
    <2> QED BY Zenon, <2>1, <2>2, SupportDoneKeeps
<1>4. CASE \E a \in Att : SupportLoad(w, a)
    <2>1. UNCHANGED <<kase, atts, confs, ctxs, req, runs>>
        BY Zenon, <1>4 DEF SupportLoad
    <2> QED BY Zenon, <2>1, WorkKeeps
<1> QED BY Zenon, <1>1, <1>2, <1>3, <1>4

\* An invoice's worker does not, either.
LEMMA InvoiceWorkKeeps ==
    ASSUME IInv, JobsKept, NEW w, InvoiceWork(w)
    PROVE  IInv'
<1>1. UNCHANGED <<atts, confs, ctxs, req, runs>>
    BY Zenon DEF InvoiceWork
<1>2. kase' \in {kase, Moved("FAILED"), Moved("NEEDS_CONFIRMATION")}
    BY Zenon DEF InvoiceWork
<1>3. "FAILED" \notin Matched /\ "NEEDS_CONFIRMATION" \notin Matched
    BY DEF Matched
<1>4. kase'.status \in Matched => kase.status = kase'.status
    BY Zenon, <1>2, <1>3, MovedStatus
<1> QED BY Zenon, <1>1, <1>4, WorkKeeps

\* Every step keeps the invariant.
LEMMA Step ==
    ASSUME IInv, JobsHeld, [Next]_vars
    PROVE  IInv'
<1>j. JobsKept
    BY JobsStep
<1>1. ASSUME NEW d \in AtHand, Upload(d) PROVE IInv'
    <2>1. UNCHANGED <<kase, atts, confs, ctxs, req, runs>>
        BY Zenon, <1>1 DEF Upload
    <2> QED BY Zenon, <2>1, <1>j, WorkKeeps
<1>2. ASSUME NEW a \in Att, AttachReplay(a) PROVE IInv'
    <2>1. UNCHANGED <<kase, atts, confs, ctxs, req, runs>>
        BY Zenon, <1>2 DEF AttachReplay
    <2> QED BY Zenon, <2>1, <1>j, WorkKeeps
<1>6. ASSUME NEW d \in AtHand, NEW w, InvoiceDone(d) \/ InvoiceLook(w, d) PROVE IInv'
    <2>1. UNCHANGED <<kase, atts, confs, ctxs, req, runs>>
        BY Zenon, <1>6 DEF InvoiceDone, InvoiceLook
    <2> QED BY Zenon, <2>1, <1>j, WorkKeeps
<1>3. ASSUME NEW s \in DOMAIN req, AttachRefused(s) PROVE IInv'
    <2>1. UNCHANGED <<kase, atts, confs, ctxs, runs>> /\ req' = [req EXCEPT ![s] = Free]
        BY Zenon, <1>3 DEF AttachRefused
    <2>2. Free.pc # "attach" /\ Free.pc # "confirm" /\ Free.pc # "match"
        BY DEF Free
    <2> QED BY Zenon, <2>1, <2>2, <1>j, RequestKeeps
<1>4. ASSUME NEW s \in DOMAIN req, Request(s) PROVE IInv'
    BY Zenon, <1>4, <1>j, <1>3, AttachCommitKeeps, ConfirmCommitKeeps, MatchCommitKeeps
       DEF Request
<1>5. CASE UNCHANGED vars
    <2>1. UNCHANGED <<kase, atts, confs, ctxs, req, runs>>
        BY Zenon, <1>5 DEF vars
    <2> QED BY Zenon, <2>1, <1>j, WorkKeeps
<1> QED BY Zenon, <1>1, <1>2, <1>4, <1>5, <1>6, <1>j, AttachBeginKeeps, ConfirmBeginKeeps,
           MatchBeginKeeps, InvoiceWorkKeeps, WorkersKeep DEF Next, Work

\* A new case: no row, no request in flight, a finite team.
LEMMA InitIInv ==
    ASSUME Init
    PROVE  IInv /\ JobsHeld
<1>1. PICK t \in Teams : /\ jobs \in [t.invoices -> {None, "SUCCEEDED"}]
                        /\ runs = [d \in t.supporting |-> NoRun]
                        /\ req = [s \in t.sessions |-> Free]
                        /\ sup = [w \in t.workers |-> Resting]
    BY Zenon DEF Init
<1>2. atts = << >> /\ Att = {} /\ confs = {} /\ ctxs = {} /\ kase.status = "DRAFT"
    BY DEF Init, Att
<1>3. \A s \in DOMAIN req : req[s].pc = "free"
    BY <1>1 DEF Free
<1>4. DOMAIN req = t.sessions /\ DOMAIN runs = t.supporting /\ DOMAIN jobs = t.invoices
    BY <1>1
<1>5. Shape
    <2>1. atts \in Seq(AttRow)
        BY <1>2
    <2>2. IsFiniteSet(DOMAIN req) /\ DOMAIN runs \subseteq Order \cup Receipt
        BY Zenon, <1>4, TeamAssumption
    <2>3. DOMAIN jobs \subseteq Invoice
        BY Zenon, <1>4, TeamAssumption
    <2>4. \A s \in DOMAIN req : req[s].pc # "attach" /\ req[s].pc # "confirm"
        BY <1>3
    <2> QED BY Zenon, <1>2, <2>1, <2>2, <2>3, <2>4 DEF Shape
<1>6. Slots
    BY Zenon, <1>2 DEF Slots, InSlot
<1>7. \A s \in DOMAIN req : req[s].pc # "match" /\ req[s].pc # "attach"
    BY <1>3
<1>8. Consumed
    BY Zenon, <1>2, <1>7 DEF Consumed, ReceiptHasOrder
<1>9. kase.status \notin Matched
    BY <1>2 DEF Matched
<1>10. Alone
    BY Zenon, <1>7, <1>9 DEF Alone
<1>11. JobsHeld
    <2>1. \A w \in DOMAIN sup : sup[w].pc = "free"
        BY <1>1 DEF Resting
    <2> QED BY <2>1 DEF JobsHeld
<1> QED BY <1>5, <1>6, <1>8, <1>10, <1>11 DEF IInv

\* The invariant holds in every reachable state.
THEOREM Invariant == Spec => [](IInv /\ JobsHeld)
<1>1. Init => IInv /\ JobsHeld
    BY InitIInv
<1>2. IInv /\ JobsHeld /\ [Next]_vars => (IInv /\ JobsHeld)'
    BY Zenon, Step, HeldStep DEF IInv
<1> QED BY <1>1, <1>2, PTL DEF Spec

\* However attaches and supersessions of the same case interleave, one invoice
\* and one order are active in it, and no document is replaced twice.
THEOREM SlotsStayExclusive == Spec => []SlotExclusive
<1>1. IInv => SlotExclusive
    <2> SUFFICES ASSUME Shape, Slots PROVE SlotExclusive
        BY DEF IInv
    <2>1. ASSUME NEW S, \A a, b \in S : a = b PROVE Cardinality(S) <= 1
        <3>1. CASE S = {}
            BY <3>1, FS_EmptySet
        <3>2. CASE S # {}
            <4>0. PICK a \in S : TRUE
                BY Zenon, <3>2
            <4>1. S = {a}
                BY Zenon, <2>1, <4>0
            <4> QED BY SMTT(30), <4>1, FS_Singleton
        <3> QED BY <3>1, <3>2
    <2>2. Cardinality(InSlot(Invoice)) <= 1 /\ Cardinality(InSlot(Order)) <= 1
        BY Zenon, <2>1 DEF Slots
    <2> QED BY Zenon, <2>2 DEF Slots, SlotExclusive
<1> QED BY <1>1, Invariant, PTL

\* A match consumes confirmed records and an extracted invoice only, also when
\* it is recorded after the lock it was found under is free; a receipt is
\* confirmed after its order.
THEOREM MatchesConfirmed == Spec => []ConfirmedFirst
<1>1. IInv => ConfirmedFirst
    BY Zenon DEF IInv, Consumed, Sound, ConfirmedFirst, MatchUsesConfirmed
<1> QED BY <1>1, Invariant, PTL

\* While one operator works on a case, whatever the workers do, a case shown as
\* matched was matched with exactly the documents active in it.
THEOREM MatchedStaysCurrent == Spec => []MatchedIsCurrent
<1>1. IInv => MatchedIsCurrent
    <2> SUFFICES ASSUME IInv, kase.status \in Matched, Cardinality(DOMAIN req) = 1
                 PROVE  \E c \in ctxs : Current(c)
        BY Zenon DEF MatchedIsCurrent, Current, Matched
    <2>1. IsFiniteSet(DOMAIN req)
        BY DEF IInv, Shape
    <2>2. PICK s : DOMAIN req = {s}
        BY Zenon, <2>1, FS_Singleton
    <2> QED BY Zenon, <2>2 DEF IInv, Alone
<1> QED BY <1>1, Invariant, PTL
=============================================================================
