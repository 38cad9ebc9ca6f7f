---------------------------- MODULE GiftsProofs ----------------------------
(***************************************************************************)
(* Theorems about Gifts, for any number of requests, gifts, ledger ids and *)
(* invitations, and any amounts, quotas and limits; and, at the end, that  *)
(* it implements Ledger: every step of every interleaving of its           *)
(* statements is a step of Ledger, or is not seen there at all.            *)
(***************************************************************************)
EXTENDS GiftsRefinement, FiniteSetTheorems, TLAPS

-----------------------------------------------------------------------------
\* Type correctness.

LEMMA AnswerType ==
  ASSUME RequestsOK, NEW c \in Clients, NEW what \in Replies, Answer(c, what)
  PROVE  RequestsOK'
<1>1. lock' \in [Gifts -> NullOr(Clients)]
  BY DEF RequestsOK, Answer, NullOr
<1>2. pc' \in [Clients -> {"idle"} \cup DeclarePCs \cup EditPCs \cup RemovePCs]
  BY DEF RequestsOK, Answer
<1>3. req' \in [Clients -> NullOr(DeclareReq \cup EditReq \cup RemoveReq)]
  BY DEF RequestsOK, Answer, NullOr
<1>4. ASSUME NEW d \in Clients PROVE Carries(d)'
  BY DEF RequestsOK, Answer, Carries, DeclarePCs, EditPCs, RemovePCs, ValidGift
<1>5. reply' \in Replies
  BY DEF Answer
<1> QED
  BY <1>1, <1>2, <1>3, <1>4, <1>5 DEF RequestsOK

\* Where a request may be, carrying r.
Fits(at, r) ==
  \/ at \in DeclarePCs /\ r \in DeclareReq
  \/ at \in EditPCs /\ r \in EditReq /\ ValidGift(r.row)
  \/ at \in RemovePCs /\ r \in RemoveReq

LEMMA GoToType ==
  ASSUME RequestsOK, NEW c \in Clients, NEW at, NEW r, Fits(at, r), GoTo(c, at, r),
         lock' \in [Gifts -> NullOr(Clients)]
  PROVE  RequestsOK'
<1>2. pc' \in [Clients -> {"idle"} \cup DeclarePCs \cup EditPCs \cup RemovePCs]
  BY DEF RequestsOK, GoTo, Fits
<1>3. req' \in [Clients -> NullOr(DeclareReq \cup EditReq \cup RemoveReq)]
  BY DEF RequestsOK, GoTo, NullOr, Fits
<1>4. ASSUME NEW d \in Clients PROVE Carries(d)'
  <2>1. CASE d = c
    BY <2>1 DEF RequestsOK, GoTo, Carries, Fits, DeclarePCs, EditPCs, RemovePCs, ValidGift
  <2>2. CASE d # c
    BY <2>2 DEF RequestsOK, GoTo, Carries, ValidGift
  <2> QED BY <2>1, <2>2
<1>5. reply' \in Replies
  BY DEF GoTo, Replies
<1> QED
  BY <1>2, <1>3, <1>4, <1>5 DEF RequestsOK

LEMMA TypeInit == Init => TypeOK
BY ConstantsAssumption
   DEF Init, TypeOK, TablesOK, RequestsOK, HistoryOK, Carries, NullOr, Present,
       DeclarePCs, EditPCs, RemovePCs, Replies

LEMMA TablesUnchanged ==
  ASSUME TypeOK, UNCHANGED <<tables, history>>
  PROVE  TablesOK' /\ HistoryOK'
BY DEF TypeOK, TablesOK, HistoryOK, tables, history, Present, ValidGift

LEMMA ClosedIsReply == \A g : Closed(g) # "open" => Closed(g) \in Replies
BY DEF Closed, Replies

LEMMA TypePreview ==
  ASSUME TypeOK, NEW c \in Clients, NEW g \in Gifts, NEW offer \in Offers,
         PixPreview(c, g, offer)
  PROVE  TypeOK'
<1>1. PICK what \in Replies : Answer(c, what)
  BY DEF PixPreview, Closed, Replies
<1>2. RequestsOK'
  BY <1>1, AnswerType DEF TypeOK
<1> QED
  BY <1>2, TablesUnchanged DEF PixPreview, TypeOK

LEMMA Resolved ==
  ASSUME NEW quota \in NullOr(Prices), NEW offer, AmountResolves(quota, offer)
  PROVE  /\ ResolveAmount(quota, offer) \in Prices
         /\ offer # Null => ValidAmount(quota, ResolveAmount(quota, offer))
BY DEF AmountResolves, ResolveAmount, NullOr, ValidAmount

LEMMA TypeDeclareRead ==
  ASSUME TypeOK, NEW c \in Clients, NEW g \in Gifts, NEW offer \in Offers,
         NEW group \in NullOr(Groups), DeclareRead(c, g, offer, group)
  PROVE  TypeOK'
<1> SUFFICES RequestsOK'
  BY TablesUnchanged DEF DeclareRead, TypeOK
<1>1. ASSUME NEW what \in Replies, Answer(c, what) PROVE RequestsOK'
  BY <1>1, AnswerType DEF TypeOK
<1>2. CASE Closed(g) # "open" /\ Answer(c, Closed(g))
  BY <1>1, <1>2, ClosedIsReply
<1>3. CASE Answer(c, "invalidAmount")
  BY <1>1, <1>3 DEF Replies
<1>4. CASE /\ Closed(g) = "open"
           /\ AmountResolves(gift[g].quota, offer)
           /\ GoTo(c, "lock", [gift |-> g, group |-> group,
                               amount |-> ResolveAmount(gift[g].quota, offer)])
           /\ UNCHANGED lock
  <2>1. gift[g] \in GiftRow
    BY <1>4 DEF Closed, Present, TypeOK, TablesOK
  <2>2. ResolveAmount(gift[g].quota, offer) \in Prices
    BY <1>4, <2>1, Resolved DEF GiftRow
  <2>3. Fits("lock", [gift |-> g, group |-> group,
                      amount |-> ResolveAmount(gift[g].quota, offer)])
    BY <2>2 DEF Fits, DeclarePCs, DeclareReq
  <2> QED
    BY <1>4, <2>3, GoToType DEF TypeOK, RequestsOK
<1> QED
  BY <1>2, <1>3, <1>4 DEF DeclareRead

LEMMA TypeDeclareLock ==
  ASSUME TypeOK, NEW c \in Clients, DeclareLock(c)
  PROVE  TypeOK'
<1> SUFFICES RequestsOK'
  BY TablesUnchanged DEF DeclareLock, TypeOK
<1>1. ASSUME NEW what \in Replies, Answer(c, what) PROVE RequestsOK'
  BY <1>1, AnswerType DEF TypeOK
<1>2. CASE Closed(req[c].gift) # "open" /\ Answer(c, Closed(req[c].gift))
  BY <1>1, <1>2, ClosedIsReply
<1>3. CASE Answer(c, "invalidAmount")
  BY <1>1, <1>3 DEF Replies
<1>4. CASE /\ lock' = [lock EXCEPT ![req[c].gift] = c]
           /\ GoTo(c, "sum", req[c])
  <2>1. pc[c] = "lock" /\ Carries(c)
    BY DEF DeclareLock, TypeOK, RequestsOK
  <2>2. Fits("sum", req[c])
    BY <2>1 DEF Carries, Fits, DeclarePCs
  <2>3. lock' \in [Gifts -> NullOr(Clients)]
    BY <1>4 DEF TypeOK, RequestsOK, NullOr
  <2> QED
    BY <1>4, <2>2, <2>3, GoToType DEF TypeOK
<1> QED
  BY <1>2, <1>3, <1>4 DEF DeclareLock

LEMMA TypeDeclareSum ==
  ASSUME TypeOK, NEW c \in Clients, DeclareSum(c)
  PROVE  TypeOK'
<1> SUFFICES RequestsOK'
  BY TablesUnchanged DEF DeclareSum, TypeOK
<1>1. CASE Answer(c, "noUnits")
  BY <1>1, AnswerType DEF TypeOK, Replies
<1>2. CASE GoTo(c, "insert", req[c]) /\ UNCHANGED lock
  <2>1. pc[c] = "sum" /\ Carries(c)
    BY DEF DeclareSum, TypeOK, RequestsOK
  <2>2. Fits("insert", req[c])
    BY <2>1 DEF Carries, Fits, DeclarePCs
  <2> QED
    BY <1>2, <2>2, GoToType DEF TypeOK, RequestsOK
<1> QED
  BY <1>1, <1>2 DEF DeclareSum

LEMMA TypeDeclareInsert ==
  ASSUME TypeOK, NEW c \in Clients, DeclareInsert(c)
  PROVE  TypeOK'
<1>1. RequestsOK'
  <2>1. PICK what \in Replies : Answer(c, what)
    BY DEF DeclareInsert, Replies
  <2> QED
    BY <2>1, AnswerType DEF TypeOK
<1>2. TablesOK'
  <2>1. ledger' \in [Contributions -> NullOr(LedgerRow)]
    <3>1. CASE UNCHANGED ledger
      BY <3>1 DEF TypeOK, TablesOK
    <3>2. CASE \E i \in Contributions :
                 ledger' = [ledger EXCEPT ![i] =
                   [gift |-> req[c].gift, group |-> req[c].group,
                    amount |-> req[c].amount, status |-> "declared"]]
      <4>1. req[c] \in DeclareReq
        BY DEF DeclareInsert, TypeOK, RequestsOK, Carries, DeclarePCs
      <4>2. [gift |-> req[c].gift, group |-> req[c].group,
             amount |-> req[c].amount, status |-> "declared"] \in LedgerRow
        BY <4>1 DEF DeclareReq, LedgerRow, Statuses
      <4> QED
        BY <3>2, <4>2 DEF TypeOK, TablesOK, NullOr
    <3> QED
      BY <3>1, <3>2 DEF DeclareInsert
  <2> QED
    BY <2>1 DEF DeclareInsert, TypeOK, TablesOK, Present, ValidGift
<1>3. HistoryOK'
  BY DEF DeclareInsert, TypeOK, HistoryOK, history
<1> QED
  BY <1>1, <1>2, <1>3 DEF TypeOK

\* A gift row written by the couple's forms or by the switch of DeactivateGift.
LEMMA GiftWritten ==
  ASSUME TypeOK, NEW g \in Gifts, NEW row,
         row \in {Absent, Deleted} \/ (row \in GiftRow /\ ValidGift(row)),
         gift' = [gift EXCEPT ![g] = row], UNCHANGED <<ledger, groups>>
  PROVE  TablesOK'
<1>1. gift' \in [Gifts -> GiftRow \cup {Absent, Deleted}]
  BY DEF TypeOK, TablesOK
<1>2. ASSUME NEW h \in Gifts, Present(h)' PROVE ValidGift(gift[h])'
  <2>1. CASE h = g
    BY <1>2, <2>1 DEF TypeOK, TablesOK, Present, ValidGift
  <2>2. CASE h # g
    BY <1>2, <2>2 DEF TypeOK, TablesOK, Present, ValidGift
  <2> QED
    BY <2>1, <2>2
<1> QED
  BY <1>1, <1>2 DEF TypeOK, TablesOK

LEMMA NamedFormIsRow ==
  ASSUME NEW form \in GiftForm, form.kind # ""
  PROVE  form \in GiftRow
BY DEF GiftForm, GiftRow

LEMMA TypeCreateGift ==
  ASSUME TypeOK, NEW c \in Clients, NEW form \in GiftInputs, CreateGift(c, form)
  PROVE  TypeOK'
<1> DEFINE row == IF form.kind = "" THEN [form EXCEPT !.kind = "pix"] ELSE form
<1>1. HistoryOK'
  BY DEF CreateGift, TypeOK, HistoryOK, history
<1>2. row \in GiftRow
  BY ConstantsAssumption DEF GiftForm, GiftRow, Kinds
<1>3. CASE Answer(c, "invalidGift") /\ UNCHANGED gift
  <2>1. RequestsOK'
    BY <1>3, AnswerType DEF TypeOK, Replies
  <2>2. TablesOK'
    BY <1>3 DEF CreateGift, TypeOK, TablesOK, Present, ValidGift
  <2> QED
    BY <1>1, <2>1, <2>2 DEF TypeOK
<1>4. CASE ValidGift(row) /\ \E g \in Gifts :
             /\ gift[g] = Absent
             /\ gift' = [gift EXCEPT ![g] = row]
             /\ GoTo(c, "reread", [gift |-> g, row |-> row, noRows |-> TRUE])
             /\ UNCHANGED lock
  <2>1. PICK g \in Gifts : /\ gift' = [gift EXCEPT ![g] = row]
                           /\ GoTo(c, "reread", [gift |-> g, row |-> row, noRows |-> TRUE])
    BY <1>4
  <2>2. TablesOK'
    BY <1>2, <1>4, <2>1, GiftWritten DEF CreateGift
  <2>3. Fits("reread", [gift |-> g, row |-> row, noRows |-> TRUE])
    BY <1>2, <1>4 DEF Fits, EditPCs, EditReq
  <2>4. RequestsOK'
    BY <1>4, <2>1, <2>3, GoToType DEF TypeOK, RequestsOK
  <2> QED
    BY <1>1, <2>2, <2>4 DEF TypeOK
<1> QED
  BY <1>3, <1>4 DEF CreateGift

LEMMA TypeUpdateGiftScan ==
  ASSUME TypeOK, NEW c \in Clients, NEW g \in Gifts, NEW form \in GiftInputs,
         UpdateGiftScan(c, g, form)
  PROVE  TypeOK'
<1> SUFFICES RequestsOK'
  BY TablesUnchanged DEF UpdateGiftScan, TypeOK
<1>1. CASE Answer(c, "kindRequired") \/ Answer(c, "invalidGift")
  BY <1>1, AnswerType DEF TypeOK, Replies
<1>2. CASE /\ form.kind # "" /\ ValidGift(form)
           /\ \E at \in {"update", "explain"}, noRows \in BOOLEAN :
                GoTo(c, at, [gift |-> g, row |-> form, noRows |-> noRows])
           /\ UNCHANGED lock
  <2>1. PICK at \in {"update", "explain"}, noRows \in BOOLEAN :
          GoTo(c, at, [gift |-> g, row |-> form, noRows |-> noRows])
    BY <1>2
  <2>2. form \in GiftRow
    BY <1>2, NamedFormIsRow, ConstantsAssumption
  <2>3. Fits(at, [gift |-> g, row |-> form, noRows |-> noRows])
    BY <1>2, <2>2 DEF Fits, EditPCs, EditReq
  <2> QED
    BY <1>2, <2>1, <2>3, GoToType DEF TypeOK, RequestsOK
<1> QED
  BY <1>1, <1>2 DEF UpdateGiftScan

LEMMA TypeUpdateGiftWrite ==
  ASSUME TypeOK, NEW c \in Clients, UpdateGiftWrite(c)
  PROVE  TypeOK'
<1>1. req[c] \in EditReq /\ ValidGift(req[c].row)
  BY DEF UpdateGiftWrite, TypeOK, RequestsOK, Carries, EditPCs
<1>2. HistoryOK'
  BY <1>1 DEF UpdateGiftWrite, TypeOK, HistoryOK, EditReq
<1>3. TablesOK'
  <2>1. CASE UNCHANGED gift
    BY <2>1 DEF UpdateGiftWrite, TypeOK, TablesOK, Present, ValidGift
  <2>2. CASE gift' = [gift EXCEPT ![req[c].gift] = req[c].row]
    BY <1>1, <2>2, GiftWritten DEF UpdateGiftWrite, EditReq
  <2> QED
    BY <2>1, <2>2 DEF UpdateGiftWrite
<1>4. RequestsOK'
  <2>1. PICK at \in {"reread", "explain"} : GoTo(c, at, req[c])
    BY DEF UpdateGiftWrite
  <2>2. Fits(at, req[c])
    BY <1>1 DEF Fits, EditPCs
  <2> QED
    BY <2>1, <2>2, GoToType DEF UpdateGiftWrite, TypeOK, RequestsOK
<1> QED
  BY <1>2, <1>3, <1>4 DEF TypeOK

LEMMA TypeAnswerOnly ==
  ASSUME TypeOK, NEW c \in Clients, UpdateGiftExplain(c) \/ GetGiftBack(c) \/ Abort(c)
  PROVE  TypeOK'
<1>1. PICK what \in Replies : Answer(c, what)
  BY DEF UpdateGiftExplain, GetGiftBack, Abort, Replies
<1>2. RequestsOK'
  BY <1>1, AnswerType DEF TypeOK
<1> QED
  BY <1>2, TablesUnchanged DEF UpdateGiftExplain, GetGiftBack, Abort, TypeOK

LEMMA TypeDeleteGiftScan ==
  ASSUME TypeOK, NEW c \in Clients, NEW g \in Gifts, DeleteGiftScan(c, g)
  PROVE  TypeOK'
<1>1. PICK at \in RemovePCs : GoTo(c, at, [gift |-> g])
  BY DEF DeleteGiftScan, RemovePCs
<1>2. Fits(at, [gift |-> g])
  BY DEF Fits, RemoveReq
<1>3. RequestsOK'
  BY <1>1, <1>2, GoToType DEF DeleteGiftScan, TypeOK, RequestsOK
<1> QED
  BY <1>3, TablesUnchanged DEF DeleteGiftScan, TypeOK

LEMMA TypeDeleteGiftWrite ==
  ASSUME TypeOK, NEW c \in Clients, DeleteGiftWrite(c)
  PROVE  TypeOK'
<1>1. req[c] \in RemoveReq
  BY DEF DeleteGiftWrite, TypeOK, RequestsOK, Carries, RemovePCs
<1>2. HistoryOK'
  BY DEF DeleteGiftWrite, TypeOK, HistoryOK, history
<1>3. TablesOK'
  <2>1. CASE UNCHANGED gift
    BY <2>1 DEF DeleteGiftWrite, TypeOK, TablesOK, Present, ValidGift
  <2>2. CASE gift' = [gift EXCEPT ![req[c].gift] = Deleted]
    BY <1>1, <2>2, GiftWritten DEF DeleteGiftWrite, RemoveReq
  <2> QED
    BY <2>1, <2>2 DEF DeleteGiftWrite
<1>4. RequestsOK'
  <2>1. CASE GoTo(c, "deactivate", req[c]) /\ UNCHANGED lock
    BY <1>1, <2>1, GoToType DEF TypeOK, RequestsOK, Fits, RemovePCs
  <2>2. CASE \E what \in Replies : Answer(c, what)
    BY <2>2, AnswerType DEF TypeOK
  <2> QED
    BY <2>1, <2>2 DEF DeleteGiftWrite, Replies
<1> QED
  BY <1>2, <1>3, <1>4 DEF TypeOK

LEMMA TypeDeactivateGift ==
  ASSUME TypeOK, NEW c \in Clients, DeactivateGift(c)
  PROVE  TypeOK'
<1>1. req[c].gift \in Gifts
  BY DEF DeactivateGift, TypeOK, RequestsOK, Carries, RemovePCs, RemoveReq
<1>2. HistoryOK'
  BY DEF DeactivateGift, TypeOK, HistoryOK, history
<1>3. TablesOK'
  <2>1. CASE UNCHANGED gift
    BY <2>1 DEF DeactivateGift, TypeOK, TablesOK, Present, ValidGift
  <2>2. CASE Present(req[c].gift) /\ gift' = [gift EXCEPT ![req[c].gift].active = FALSE]
    <3> DEFINE g   == req[c].gift
               row == [gift[g] EXCEPT !.active = FALSE]
    <3>1. gift[g] \in GiftRow /\ ValidGift(gift[g])
      BY <1>1, <2>2 DEF TypeOK, TablesOK, Present
    <3>2. row \in GiftRow /\ ValidGift(row)
      BY <3>1 DEF GiftRow, ValidGift
    <3>3. gift' = [gift EXCEPT ![g] = row]
      BY <2>2
    <3> HIDE DEF row
    <3> QED
      BY <1>1, <3>2, <3>3, GiftWritten DEF DeactivateGift
  <2> QED
    BY <2>1, <2>2 DEF DeactivateGift
<1>4. RequestsOK'
  <2>1. PICK what \in Replies : Answer(c, what)
    BY DEF DeactivateGift, Replies
  <2> QED
    BY <2>1, AnswerType DEF TypeOK
<1> QED
  BY <1>2, <1>3, <1>4 DEF TypeOK

LEMMA TypeModerate ==
  ASSUME TypeOK, NEW c \in Clients, NEW i \in Contributions, NEW status \in Statuses,
         ModerateContribution(c, i, status)
  PROVE  TypeOK'
<1>1. RequestsOK'
  <2>1. PICK what \in Replies : Answer(c, what)
    BY DEF ModerateContribution, Replies
  <2> QED
    BY <2>1, AnswerType DEF TypeOK
<1>2. CASE UNCHANGED <<ledger, reopened>>
  BY <1>1, <1>2, TablesUnchanged DEF ModerateContribution, TypeOK, tables, history
<1>3. CASE /\ ledger[i] # Null
           /\ ledger' = [ledger EXCEPT ![i].status = status]
           /\ reopened' = IF ledger[i].status = "cancelled"
                          THEN reopened \cup {ledger[i].gift} ELSE reopened
  <2>1. ledger[i] \in LedgerRow
    BY <1>3 DEF TypeOK, TablesOK, NullOr
  <2>2. [ledger[i] EXCEPT !.status = status] \in LedgerRow
    BY <2>1 DEF LedgerRow
  <2>3. ledger' \in [Contributions -> NullOr(LedgerRow)]
    BY <1>3, <2>2 DEF TypeOK, TablesOK, NullOr
  <2>4. TablesOK'
    BY <2>3 DEF ModerateContribution, TypeOK, TablesOK, Present, ValidGift
  <2>5. HistoryOK'
    BY <1>3, <2>1 DEF ModerateContribution, TypeOK, HistoryOK, LedgerRow
  <2> QED
    BY <1>1, <2>4, <2>5 DEF TypeOK
<1> QED
  BY <1>2, <1>3 DEF ModerateContribution

LEMMA TypeInvitationRemoved ==
  ASSUME TypeOK, NEW group \in Groups, InvitationRemoved(group)
  PROVE  TypeOK'
<1>1. RequestsOK'
  BY DEF InvitationRemoved, TypeOK, RequestsOK, Carries, Replies, ValidGift
<1>2. ledger' \in [Contributions -> NullOr(LedgerRow)]
  <2>1. ASSUME NEW i \in Contributions, ledger[i] # Null
        PROVE  [ledger[i] EXCEPT !.group = Null] \in LedgerRow
    BY <2>1 DEF TypeOK, TablesOK, NullOr, LedgerRow
  <2> QED
    BY <2>1 DEF InvitationRemoved, TypeOK, TablesOK, NullOr
<1>3. TablesOK' /\ HistoryOK'
  BY <1>2 DEF InvitationRemoved, TypeOK, TablesOK, HistoryOK, history, Present, ValidGift
<1> QED
  BY <1>1, <1>3 DEF TypeOK

LEMMA TypeStutter ==
  ASSUME TypeOK, UNCHANGED vars
  PROVE  TypeOK'
BY TablesUnchanged DEF vars, tables, history, TypeOK, RequestsOK, Carries, ValidGift

LEMMA StepType ==
  ASSUME TypeOK, [Next]_vars
  PROVE  TypeOK'
<1>1. ASSUME NEW c \in Clients, Begin(c) PROVE TypeOK'
  BY <1>1, TypePreview, TypeDeclareRead, TypeUpdateGiftScan, TypeDeleteGiftScan,
     TypeCreateGift, TypeModerate DEF Begin
<1>2. ASSUME NEW c \in Clients, Advance(c) PROVE TypeOK'
  BY <1>2, TypeDeclareLock, TypeDeclareSum, TypeDeclareInsert, TypeUpdateGiftWrite,
     TypeAnswerOnly, TypeDeleteGiftWrite, TypeDeactivateGift DEF Advance
<1>3. ASSUME NEW c \in Clients, Abort(c) PROVE TypeOK'
  BY <1>3, TypeAnswerOnly
<1>4. ASSUME NEW group \in Groups, InvitationRemoved(group) PROVE TypeOK'
  BY <1>4, TypeInvitationRemoved
<1>5. CASE UNCHANGED vars
  BY <1>5, TypeStutter
<1> QED
  BY <1>1, <1>2, <1>3, <1>4, <1>5 DEF Next

\* Every step of every interleaving keeps the types: TypeOK is inductive as it
\* stands.
THEOREM TypeCorrect == Spec => []TypeOK
<1>1. Init => TypeOK
  BY TypeInit
<1>2. TypeOK /\ [Next]_vars => TypeOK'
  BY StepType
<1> QED
  BY <1>1, <1>2, PTL DEF Spec

-----------------------------------------------------------------------------
\* The ledger is append-only.

LEMMA ModeratedRow ==
  ASSUME TypeOK, NEW i \in Contributions, NEW status \in Statuses, ledger[i] # Null,
         ledger' = [ledger EXCEPT ![i].status = status]
  PROVE  /\ ledger[i] \in LedgerRow /\ ledger'[i] \in LedgerRow
         /\ ledger'[i] # Null
         /\ ledger'[i].gift = ledger[i].gift
         /\ ledger'[i].amount = ledger[i].amount
         /\ ledger'[i].group = ledger[i].group
         /\ ledger'[i].status = status
         /\ \A j \in Contributions : j # i => ledger'[j] = ledger[j]
<1>1. ledger[i] \in LedgerRow
  BY DEF TypeOK, TablesOK, NullOr
<1>2. ledger'[i] = [ledger[i] EXCEPT !.status = status]
  BY DEF TypeOK, TablesOK
<1>3. ledger'[i] \in LedgerRow
  BY <1>1, <1>2 DEF LedgerRow
<1> QED
  BY <1>1, <1>2, <1>3, ConstantsAssumption DEF LedgerRow, TypeOK, TablesOK

LEMMA UnsignedRow ==
  ASSUME TypeOK, NEW group \in Groups, InvitationRemoved(group), NEW i \in Contributions
  PROVE  /\ ledger[i] = Null <=> ledger'[i] = Null
         /\ ledger[i] # Null =>
              /\ ledger'[i].gift = ledger[i].gift
              /\ ledger'[i].amount = ledger[i].amount
              /\ ledger'[i].status = ledger[i].status
              /\ ledger'[i].group \in NullOr({ledger[i].group} \ {group})
<1>1. CASE ledger[i] # Null /\ ledger[i].group = group
  <2>1. ledger[i] \in LedgerRow
    BY <1>1 DEF TypeOK, TablesOK, NullOr
  <2>2. ledger'[i] = [ledger[i] EXCEPT !.group = Null]
    BY <1>1 DEF InvitationRemoved
  <2>3. ledger'[i] \in LedgerRow
    BY <2>1, <2>2 DEF LedgerRow, NullOr
  <2> QED
    BY <1>1, <2>1, <2>2, <2>3, ConstantsAssumption DEF LedgerRow, NullOr
<1>2. CASE ~(ledger[i] # Null /\ ledger[i].group = group)
  <2>1. ledger'[i] = ledger[i]
    BY <1>2 DEF InvitationRemoved
  <2> QED
    BY <1>2, <2>1 DEF NullOr
<1> QED
  BY <1>1, <1>2

LEMMA InsertedRow ==
  ASSUME TypeOK, NEW c \in Clients, DeclareInsert(c), ledger' # ledger
  PROVE  /\ req[c] \in DeclareReq
         /\ req[c].group \in NullOr(groups)
         /\ \E i \in Contributions :
              /\ ledger[i] = Null
              /\ ledger'[i] # Null
              /\ ledger'[i].gift = req[c].gift
              /\ ledger'[i].amount = req[c].amount
              /\ ledger'[i].group = req[c].group
              /\ ledger'[i].status = "declared"
              /\ \A j \in Contributions : j # i => ledger'[j] = ledger[j]
<1>1. req[c] \in DeclareReq
  BY DEF DeclareInsert, TypeOK, RequestsOK, Carries, DeclarePCs
<1> DEFINE row == [gift |-> req[c].gift, group |-> req[c].group,
                   amount |-> req[c].amount, status |-> "declared"]
<1>2. PICK i \in Contributions : ledger[i] = Null /\ ledger' = [ledger EXCEPT ![i] = row]
  BY DEF DeclareInsert
<1>3. row \in LedgerRow
  BY <1>1 DEF DeclareReq, LedgerRow, Statuses
<1>4. ledger'[i] = row /\ \A j \in Contributions : j # i => ledger'[j] = ledger[j]
  BY <1>2 DEF TypeOK, TablesOK
<1>5. ledger'[i] # Null
  BY <1>3, <1>4, ConstantsAssumption
<1> QED
  BY <1>1, <1>2, <1>4, <1>5 DEF DeclareInsert

\* The statements that write table contributions.
LedgerWrite ==
  \/ \E c \in Clients : DeclareInsert(c)
  \/ \E c \in Clients, i \in Contributions, status \in Statuses :
       ModerateContribution(c, i, status)
  \/ \E group \in Groups : InvitationRemoved(group)

LEMMA LedgerWriters ==
  ASSUME [Next]_vars
  PROVE  UNCHANGED ledger \/ LedgerWrite
<1>1. ASSUME NEW c \in Clients, Begin(c) PROVE UNCHANGED ledger \/ LedgerWrite
  BY <1>1 DEF Begin, PixPreview, DeclareRead, CreateGift, UpdateGiftScan, DeleteGiftScan,
       tables, LedgerWrite
<1>2. ASSUME NEW c \in Clients, Advance(c) PROVE UNCHANGED ledger \/ LedgerWrite
  BY <1>2 DEF Advance, DeclareLock, DeclareSum, UpdateGiftWrite, UpdateGiftExplain,
       GetGiftBack, DeleteGiftWrite, DeactivateGift, tables, LedgerWrite
<1>3. ASSUME NEW c \in Clients, Abort(c) PROVE UNCHANGED ledger
  BY <1>3 DEF Abort, tables
<1>4. ASSUME NEW group \in Groups, InvitationRemoved(group) PROVE LedgerWrite
  BY <1>4 DEF LedgerWrite
<1>5. CASE UNCHANGED vars
  BY <1>5 DEF vars
<1> QED
  BY <1>1, <1>2, <1>3, <1>4, <1>5 DEF Next

LEMMA StepRowsSurvive ==
  ASSUME TypeOK, [Next]_vars
  PROVE  RowsSurvive
<1>1. CASE UNCHANGED ledger
  BY <1>1 DEF RowsSurvive
<1>2. ASSUME NEW c \in Clients, DeclareInsert(c), ledger' # ledger PROVE RowsSurvive
  BY <1>2, InsertedRow DEF RowsSurvive
<1>3. ASSUME NEW c \in Clients, NEW i \in Contributions, NEW status \in Statuses,
             ModerateContribution(c, i, status), ledger' # ledger
      PROVE  RowsSurvive
  <2>1. ledger[i] # Null /\ ledger' = [ledger EXCEPT ![i].status = status]
    BY <1>3 DEF ModerateContribution
  <2> QED
    BY <2>1, ModeratedRow DEF RowsSurvive
<1>4. ASSUME NEW group \in Groups, InvitationRemoved(group) PROVE RowsSurvive
  BY <1>4, UnsignedRow DEF RowsSurvive, NullOr
<1> QED
  BY <1>1, <1>2, <1>3, <1>4, LedgerWriters DEF LedgerWrite

\* No interleaving of requests, deleted gifts or deleted invitations removes a
\* ledger row or changes what it says was given to which gift.
THEOREM AppendOnly == Spec => LedgerAppendOnly
<1>1. TypeOK /\ [Next]_vars => [RowsSurvive]_vars
  BY StepRowsSurvive
<1> QED
  BY <1>1, TypeCorrect, PTL DEF Spec, LedgerAppendOnly

-----------------------------------------------------------------------------
\* The row lock.

\* The statements that hold the lock of a gift row.
Holding == {"sum", "insert"}

LEMMA AnswerLock ==
  ASSUME TypeOK, LockDiscipline, NEW c \in Clients, NEW what, Answer(c, what)
  PROVE  LockDiscipline'
<1> SUFFICES ASSUME NEW g \in Gifts, NEW d \in Clients
             PROVE  (lock[g] = d <=> pc[d] \in {"sum", "insert"} /\ req[d].gift = g)'
  BY DEF LockDiscipline
<1>1. lock[g] = d <=> pc[d] \in {"sum", "insert"} /\ req[d].gift = g
  BY DEF LockDiscipline
<1>2. CASE d = c
  <2>1. pc'[d] = "idle"
    BY <1>2 DEF Answer, TypeOK, RequestsOK
  <2>2. lock'[g] # d
    BY <1>2, ConstantsAssumption DEF Answer
  <2> QED
    BY <2>1, <2>2
<1>3. CASE d # c
  <2>1. pc'[d] = pc[d] /\ req'[d] = req[d]
    BY <1>3 DEF Answer, TypeOK, RequestsOK
  <2>2. lock'[g] = d <=> lock[g] = d
    BY <1>3, ConstantsAssumption DEF Answer
  <2> QED
    BY <1>1, <2>1, <2>2
<1> QED
  BY <1>2, <1>3

\* Going on without taking a lock: from outside the locked part to outside it,
\* or within it.
LEMMA GoToLock ==
  ASSUME TypeOK, LockDiscipline, NEW c \in Clients, NEW at, NEW r, GoTo(c, at, r),
         UNCHANGED lock,
         \/ pc[c] \notin Holding /\ at \notin Holding
         \/ pc[c] \in Holding /\ at \in Holding /\ r = req[c]
  PROVE  LockDiscipline'
<1> SUFFICES ASSUME NEW g \in Gifts, NEW d \in Clients
             PROVE  (lock[g] = d <=> pc[d] \in {"sum", "insert"} /\ req[d].gift = g)'
  BY DEF LockDiscipline
<1>1. lock[g] = d <=> pc[d] \in {"sum", "insert"} /\ req[d].gift = g
  BY DEF LockDiscipline
<1>2. pc'[d] = (IF d = c THEN at ELSE pc[d]) /\ req'[d] = (IF d = c THEN r ELSE req[d])
  BY DEF GoTo, TypeOK, RequestsOK
<1> QED
  BY <1>1, <1>2 DEF Holding

LEMMA TakeLock ==
  ASSUME TypeOK, LockDiscipline, NEW c \in Clients, pc[c] = "lock",
         lock[req[c].gift] = Null, lock' = [lock EXCEPT ![req[c].gift] = c],
         GoTo(c, "sum", req[c])
  PROVE  LockDiscipline'
<1> SUFFICES ASSUME NEW g \in Gifts, NEW d \in Clients
             PROVE  (lock[g] = d <=> pc[d] \in {"sum", "insert"} /\ req[d].gift = g)'
  BY DEF LockDiscipline
<1>1. \A h \in Gifts, e \in Clients :
        lock[h] = e <=> pc[e] \in {"sum", "insert"} /\ req[e].gift = h
  BY DEF LockDiscipline
<1>2. pc'[d] = (IF d = c THEN "sum" ELSE pc[d]) /\ req'[d] = req[d]
  BY DEF GoTo, TypeOK, RequestsOK
<1>3. lock'[g] = IF g = req[c].gift THEN c ELSE lock[g]
  BY DEF TypeOK, RequestsOK
<1> QED
  BY <1>1, <1>2, <1>3, ConstantsAssumption

LEMMA StepLock ==
  ASSUME TypeOK, LockDiscipline, [Next]_vars
  PROVE  LockDiscipline'
<1>1. ASSUME NEW c \in Clients, NEW what, Answer(c, what) PROVE LockDiscipline'
  BY <1>1, AnswerLock
<1>2. ASSUME NEW c \in Clients, pc[c] = "idle", NEW at, NEW r, GoTo(c, at, r),
             at \notin Holding, UNCHANGED lock
      PROVE  LockDiscipline'
  BY <1>2, GoToLock DEF Holding
<1>3. ASSUME NEW c \in Clients, Begin(c) PROVE LockDiscipline'
  <2>1. ASSUME NEW g \in Gifts, NEW offer \in Offers, PixPreview(c, g, offer)
        PROVE  LockDiscipline'
    BY <1>1, <2>1 DEF PixPreview
  <2>2. ASSUME NEW g \in Gifts, NEW offer \in Offers, NEW group \in NullOr(Groups),
               DeclareRead(c, g, offer, group)
        PROVE  LockDiscipline'
    BY <1>1, <1>2, <2>2 DEF DeclareRead, Holding
  <2>3. ASSUME NEW g \in Gifts, NEW form \in GiftInputs, UpdateGiftScan(c, g, form)
        PROVE  LockDiscipline'
    <3>1. CASE \E what : Answer(c, what)
      BY <1>1, <3>1
    <3>2. CASE /\ UNCHANGED lock
               /\ \E at \in {"update", "explain"}, noRows \in BOOLEAN :
                    GoTo(c, at, [gift |-> g, row |-> form, noRows |-> noRows])
      BY <1>2, <2>3, <3>2 DEF UpdateGiftScan, Holding
    <3> QED
      BY <2>3, <3>1, <3>2 DEF UpdateGiftScan
  <2>4. ASSUME NEW g \in Gifts, DeleteGiftScan(c, g) PROVE LockDiscipline'
    BY <1>2, <2>4 DEF DeleteGiftScan, Holding
  <2>5. ASSUME NEW form \in GiftInputs, CreateGift(c, form) PROVE LockDiscipline'
    <3>1. CASE \E what : Answer(c, what)
      BY <1>1, <3>1
    <3>2. CASE /\ UNCHANGED lock
               /\ \E r : GoTo(c, "reread", r)
      BY <1>2, <2>5, <3>2 DEF CreateGift, Holding
    <3> QED
      BY <2>5, <3>1, <3>2 DEF CreateGift
  <2>6. ASSUME NEW i \in Contributions, NEW status \in Statuses,
               ModerateContribution(c, i, status)
        PROVE  LockDiscipline'
    BY <1>1, <2>6 DEF ModerateContribution
  <2> QED
    BY <1>3, <2>1, <2>2, <2>3, <2>4, <2>5, <2>6 DEF Begin
<1>4. ASSUME NEW c \in Clients, Advance(c) PROVE LockDiscipline'
  <2>1. CASE DeclareLock(c)
    BY <1>1, <2>1, TakeLock DEF DeclareLock
  <2>2. CASE DeclareSum(c)
    BY <1>1, <2>2, GoToLock DEF DeclareSum, Holding
  <2>3. CASE DeclareInsert(c) \/ UpdateGiftExplain(c) \/ GetGiftBack(c) \/ DeactivateGift(c)
    BY <1>1, <2>3 DEF DeclareInsert, UpdateGiftExplain, GetGiftBack, DeactivateGift
  <2>4. CASE UpdateGiftWrite(c)
    BY <2>4, GoToLock DEF UpdateGiftWrite, Holding
  <2>5. CASE DeleteGiftWrite(c)
    BY <1>1, <2>5, GoToLock DEF DeleteGiftWrite, Holding
  <2> QED
    BY <1>4, <2>1, <2>2, <2>3, <2>4, <2>5 DEF Advance
<1>5. ASSUME NEW c \in Clients, Abort(c) PROVE LockDiscipline'
  BY <1>1, <1>5 DEF Abort
<1>6. ASSUME NEW group \in Groups, InvitationRemoved(group) PROVE LockDiscipline'
  BY <1>6 DEF InvitationRemoved, LockDiscipline
<1>7. CASE UNCHANGED vars
  BY <1>7 DEF vars, LockDiscipline
<1> QED
  BY <1>3, <1>4, <1>5, <1>6, <1>7 DEF Next

-----------------------------------------------------------------------------
\* Arithmetic of quotas.

LEMMA DivMonotone ==
  ASSUME NEW a \in Nat, NEW b \in Nat, NEW q \in Nat \ {0}, b <= a
  PROVE  b \div q <= a \div q
<1>1. b \div q \in Int /\ a \div q \in Int
  OBVIOUS
<1>2. b = q * (b \div q) + (b % q) /\ a = q * (a \div q) + (a % q)
  OBVIOUS
<1>3. 0 <= a % q /\ a % q < q /\ 0 <= b % q
  OBVIOUS
<1>4. SUFFICES ASSUME (a \div q) + 1 <= b \div q PROVE FALSE
  BY <1>1
<1>5. q * ((a \div q) + 1) <= q * (b \div q)
  BY <1>1, <1>4
<1> QED
  BY <1>1, <1>2, <1>3, <1>5

LEMMA DivAdds ==
  ASSUME NEW a \in Nat, NEW n \in Nat, NEW q \in Nat \ {0}, n % q = 0
  PROVE  (a + n) \div q = (a \div q) + (n \div q)
OBVIOUS

LEMMA ZeroDiv == ASSUME NEW q \in Nat \ {0} PROVE 0 \div q = 0
OBVIOUS

\* Fewer centavos held leave no fewer units.
LEMMA HasUnitsMonotone ==
  ASSUME NEW row \in GiftRow, NEW a \in Nat, NEW b \in Nat, NEW amount \in Nat,
         b <= a, HasUnits(row, a, amount)
  PROVE  HasUnits(row, b, amount)
<1> SUFFICES ASSUME UnitLimited(row)
             PROVE  (b \div row.quota) + (amount \div row.quota) <= row.maxUnits
  BY DEF HasUnits
<1>1. row.quota \in Nat \ {0} /\ row.maxUnits \in Nat
  BY ConstantsAssumption DEF UnitLimited, GiftRow, NullOr, Prices, UnitLimits
<1>2. b \div row.quota <= a \div row.quota
  BY <1>1, DivMonotone
<1>3. (a \div row.quota) + (amount \div row.quota) <= row.maxUnits
  BY DEF HasUnits
<1>4. /\ a \div row.quota \in Int /\ b \div row.quota \in Int
      /\ amount \div row.quota \in Int
  BY <1>1
<1> QED
  BY <1>1, <1>2, <1>3, <1>4

\* Once a whole number of quotas was granted and added, no more than the limit
\* is held.
LEMMA HasUnitsAdded ==
  ASSUME NEW row \in GiftRow, NEW a \in Nat, NEW amount,
         ValidAmount(row.quota, amount), HasUnits(row, a, amount)
  PROVE  HasUnits(row, a + amount, 0)
<1> SUFFICES ASSUME UnitLimited(row)
             PROVE  ((a + amount) \div row.quota) + (0 \div row.quota) <= row.maxUnits
  BY DEF HasUnits
<1>1. row.quota \in Nat \ {0} /\ row.maxUnits \in Nat
  BY ConstantsAssumption DEF UnitLimited, GiftRow, NullOr, Prices, UnitLimits
<1>2. amount \in Nat /\ amount % row.quota = 0
  BY ConstantsAssumption DEF UnitLimited, ValidAmount, Prices
<1>3. (a + amount) \div row.quota = (a \div row.quota) + (amount \div row.quota)
  BY <1>1, <1>2, DivAdds
<1>4. 0 \div row.quota = 0
  BY <1>1, ZeroDiv
<1>5. (a \div row.quota) + (amount \div row.quota) <= row.maxUnits
  BY DEF HasUnits
<1>6. (a \div row.quota) + (amount \div row.quota) \in Int
  BY <1>1, <1>2
<1> QED
  BY <1>1, <1>3, <1>4, <1>5, <1>6

LEMMA NoneHeld ==
  ASSUME NEW row \in GiftRow
  PROVE  HasUnits(row, 0, 0)
<1> SUFFICES ASSUME UnitLimited(row)
             PROVE  (0 \div row.quota) + (0 \div row.quota) <= row.maxUnits
  BY DEF HasUnits
<1>1. row.quota \in Nat \ {0} /\ row.maxUnits \in Nat
  BY ConstantsAssumption DEF UnitLimited, GiftRow, NullOr, Prices, UnitLimits
<1> QED
  BY <1>1, ZeroDiv

-----------------------------------------------------------------------------
\* What a gift's contributions add up to, before and after a step.

Active == Statuses \ {"cancelled"}

LEMMA CentavosFinite ==
  ASSUME NEW g, NEW S
  PROVE  /\ IsFiniteSet(Centavos(g, S)) /\ CentavosOf(g, S) \in Nat
         /\ IsFiniteSet(Centavos(g, S)') /\ CentavosOf(g, S)' \in Nat
<1>1. IsFiniteSet(Prices)
  BY ConstantsAssumption, FS_Interval DEF Prices
<1>2. IsFiniteSet(Contributions \X Prices)
  BY <1>1, ConstantsAssumption, FS_Product
<1>3. Centavos(g, S) \in SUBSET (Contributions \X Prices)
  BY DEF Centavos
<1>4. Centavos(g, S)' \in SUBSET (Contributions \X Prices)
  BY DEF Centavos
<1> QED
  BY <1>2, <1>3, <1>4, FS_Subset, FS_CardinalityType DEF CentavosOf

LEMMA SumShrinks ==
  ASSUME NEW g, Centavos(g, Active)' \subseteq Centavos(g, Active)
  PROVE  /\ SumGiftNonCancelled(g) \in Nat /\ SumGiftNonCancelled(g)' \in Nat
         /\ SumGiftNonCancelled(g)' <= SumGiftNonCancelled(g)
BY CentavosFinite, FS_Subset DEF SumGiftNonCancelled, CentavosOf, Active

\* A declaration adds its amount, centavo by centavo.
LEMMA SumGrows ==
  ASSUME TypeOK, NEW c \in Clients, DeclareInsert(c), ledger' # ledger,
         NEW g, req[c].gift = g, NEW n, req[c].amount = n
  PROVE  SumGiftNonCancelled(g)' = SumGiftNonCancelled(g) + n
<1>1. PICK i \in Contributions :
        /\ ledger[i] = Null
        /\ ledger'[i] # Null
        /\ ledger'[i].gift = g
        /\ ledger'[i].amount = n
        /\ ledger'[i].status = "declared"
        /\ \A j \in Contributions : j # i => ledger'[j] = ledger[j]
  BY InsertedRow
<1>2. n \in Prices /\ n \in Nat \ {0} /\ 1 .. n \subseteq Prices
  BY InsertedRow, ConstantsAssumption DEF DeclareReq, Prices
<1> DEFINE New == {i} \X (1 .. n)
<1>3. Centavos(g, Active)' = Centavos(g, Active) \cup New
  <2>1. ASSUME NEW p \in Centavos(g, Active)' PROVE p \in Centavos(g, Active) \cup New
    <3>1. CASE p[1] = i
      BY <1>1, <1>2, <2>1, <3>1 DEF Centavos, RowsOf, Prices
    <3>2. CASE p[1] # i
      BY <1>1, <2>1, <3>2 DEF Centavos, RowsOf
    <3> QED
      BY <3>1, <3>2
  <2>2. ASSUME NEW p \in Centavos(g, Active) PROVE p \in Centavos(g, Active)'
    BY <1>1, <2>2 DEF Centavos, RowsOf
  <2>3. ASSUME NEW p \in New PROVE p \in Centavos(g, Active)'
    BY <1>1, <1>2, <2>3 DEF Centavos, RowsOf, Active, Statuses
  <2> QED
    BY <2>1, <2>2, <2>3
<1>4. Centavos(g, Active) \cap New = {}
  BY <1>1 DEF Centavos, RowsOf
<1>5. IsFiniteSet(New) /\ Cardinality(New) = n
  <2>1. IsFiniteSet({i}) /\ Cardinality({i}) = 1
    BY FS_Singleton
  <2>2. IsFiniteSet(1 .. n) /\ Cardinality(1 .. n) = n
    <3>1. n \in Int /\ 1 <= n
      BY <1>2
    <3> QED
      BY <3>1, FS_Interval
  <2> QED
    BY <1>2, <2>1, <2>2, FS_Product
<1>6. Cardinality(Centavos(g, Active) \cup New)
        = Cardinality(Centavos(g, Active)) + n - Cardinality({})
  BY <1>4, <1>5, CentavosFinite, FS_Union
<1>7. /\ SumGiftNonCancelled(g) = Cardinality(Centavos(g, Active))
      /\ SumGiftNonCancelled(g)' = Cardinality(Centavos(g, Active)')
      /\ SumGiftNonCancelled(g) \in Nat
  BY CentavosFinite DEF SumGiftNonCancelled, CentavosOf, Active
<1> HIDE DEF New
<1> QED
  BY <1>2, <1>3, <1>6, <1>7, FS_EmptySet

\* Only a declaration for g adds to what g holds, unless a cancelled
\* contribution is revived.
LEMMA HeldShrinks ==
  ASSUME TypeOK, [Next]_vars, NEW g \in Gifts,
         ~\E c \in Clients : DeclareInsert(c) /\ ledger' # ledger /\ req[c].gift = g
  PROVE  g \in reopened' \/ Centavos(g, Active)' \subseteq Centavos(g, Active)
<1>1. CASE UNCHANGED ledger
  BY <1>1 DEF Centavos, RowsOf
<1>2. ASSUME NEW c \in Clients, DeclareInsert(c), ledger' # ledger
      PROVE  Centavos(g, Active)' \subseteq Centavos(g, Active)
  <2>1. req[c].gift # g
    BY <1>2
  <2> QED
    BY <1>2, <2>1, InsertedRow DEF Centavos, RowsOf
<1>3. ASSUME NEW c \in Clients, NEW i \in Contributions, NEW status \in Statuses,
             ModerateContribution(c, i, status), ledger' # ledger
      PROVE  g \in reopened' \/ Centavos(g, Active)' \subseteq Centavos(g, Active)
  <2>1. /\ ledger[i] # Null /\ ledger' = [ledger EXCEPT ![i].status = status]
        /\ ledger[i].status = "cancelled" => ledger[i].gift \in reopened'
    BY <1>3 DEF ModerateContribution
  <2>2. CASE ledger[i].status = "cancelled" /\ ledger[i].gift = g
    BY <2>1, <2>2
  <2>3. CASE ~(ledger[i].status = "cancelled" /\ ledger[i].gift = g)
    <3>1. ledger[i] \in LedgerRow
      BY <2>1, ModeratedRow
    <3> QED
      BY <2>1, <2>3, <3>1, ModeratedRow DEF Centavos, RowsOf, Active, LedgerRow
  <2> QED
    BY <2>2, <2>3
<1>4. ASSUME NEW group \in Groups, InvitationRemoved(group)
      PROVE  Centavos(g, Active)' \subseteq Centavos(g, Active)
  BY <1>4, UnsignedRow DEF Centavos, RowsOf
<1> QED
  BY <1>1, <1>2, <1>3, <1>4, LedgerWriters DEF LedgerWrite

-----------------------------------------------------------------------------
\* What a step may do to a gift row.

\* The statements that write table gifts.
GiftWrite ==
  \/ \E c \in Clients, form \in GiftInputs : CreateGift(c, form)
  \/ \E c \in Clients : UpdateGiftWrite(c) \/ DeleteGiftWrite(c) \/ DeactivateGift(c)

LEMMA GiftWriters ==
  ASSUME [Next]_vars
  PROVE  (UNCHANGED gift /\ UNCHANGED repriced) \/ GiftWrite
<1>1. ASSUME NEW c \in Clients, Begin(c)
      PROVE  (UNCHANGED gift /\ UNCHANGED repriced) \/ GiftWrite
  BY <1>1 DEF Begin, PixPreview, DeclareRead, UpdateGiftScan, DeleteGiftScan,
       ModerateContribution, tables, history, GiftWrite
<1>2. ASSUME NEW c \in Clients, Advance(c)
      PROVE  (UNCHANGED gift /\ UNCHANGED repriced) \/ GiftWrite
  BY <1>2 DEF Advance, DeclareLock, DeclareSum, DeclareInsert, UpdateGiftExplain,
       GetGiftBack, tables, history, GiftWrite
<1>3. ASSUME NEW c \in Clients, Abort(c) PROVE UNCHANGED gift /\ UNCHANGED repriced
  BY <1>3 DEF Abort, tables, history
<1>4. ASSUME NEW group \in Groups, InvitationRemoved(group)
      PROVE  UNCHANGED gift /\ UNCHANGED repriced
  BY <1>4 DEF InvitationRemoved, history
<1>5. CASE UNCHANGED vars
  BY <1>5 DEF vars
<1> QED
  BY <1>1, <1>2, <1>3, <1>4, <1>5 DEF Next

\* A deleted gift never comes back, a gift with a ledger is not deleted, a
\* locked gift is not written, and an unpriced edit leaves what is sold alone.
LifeOf(g) ==
  /\ gift[g] # Absent => gift'[g] # Absent
  /\ gift[g] = Deleted => gift'[g] = Deleted
  /\ Present(g) /\ RowsOf(g) # {} => Present(g)'
  /\ Present(g) /\ lock[g] # Null => gift'[g] = gift[g]
  /\ Present(g) /\ Present(g)' /\ g \notin repriced' =>
       gift'[g].quota = gift[g].quota /\ gift'[g].maxUnits = gift[g].maxUnits
  /\ g \in repriced => g \in repriced'

LEMMA GiftLife ==
  ASSUME TypeOK, [Next]_vars, NEW g \in Gifts
  PROVE  LifeOf(g)
<1> USE ConstantsAssumption
<1>1. CASE UNCHANGED gift /\ UNCHANGED repriced
  BY <1>1 DEF LifeOf, Present
<1>2. ASSUME NEW c \in Clients, NEW form \in GiftInputs, CreateGift(c, form)
      PROVE  LifeOf(g)
  <2> DEFINE row == IF form.kind = "" THEN [form EXCEPT !.kind = "pix"] ELSE form
  <2>1. row \in GiftForm
    BY DEF GiftForm, Kinds
  <2>2. CASE UNCHANGED gift
    BY <1>2, <2>2, <1>1 DEF CreateGift, history
  <2>3. CASE \E h \in Gifts : gift[h] = Absent /\ gift' = [gift EXCEPT ![h] = row]
    <3>1. PICK h \in Gifts : gift[h] = Absent /\ gift' = [gift EXCEPT ![h] = row]
      BY <2>3
    <3>2. repriced' = repriced
      BY <1>2 DEF CreateGift, history
    <3>3. gift'[g] = IF g = h THEN row ELSE gift[g]
      BY <3>1 DEF TypeOK, TablesOK
    <3> HIDE DEF row
    <3> QED
      BY <2>1, <3>1, <3>2, <3>3 DEF LifeOf, Present
  <2> QED
    BY <1>2, <2>2, <2>3 DEF CreateGift
<1>3. ASSUME NEW c \in Clients, UpdateGiftWrite(c) PROVE LifeOf(g)
  <2>1. req[c] \in EditReq
    BY <1>3 DEF UpdateGiftWrite, TypeOK, RequestsOK, Carries, EditPCs
  <2>2. req[c].row \notin {Absent, Deleted} /\ req[c].gift \in Gifts
    BY <2>1 DEF EditReq, GiftRow, GiftForm
  <2>3. CASE UNCHANGED <<gift, repriced>>
    BY <2>3, <1>1
  <2>4. CASE /\ Present(req[c].gift)
             /\ gift' = [gift EXCEPT ![req[c].gift] = req[c].row]
             /\ repriced' = IF /\ gift[req[c].gift].kind = req[c].row.kind
                               /\ gift[req[c].gift].quota = req[c].row.quota
                               /\ gift[req[c].gift].maxUnits = req[c].row.maxUnits
                            THEN repriced ELSE repriced \cup {req[c].gift}
    <3>1. gift'[g] = IF g = req[c].gift THEN req[c].row ELSE gift[g]
      BY <2>2, <2>4 DEF TypeOK, TablesOK
    <3>2. lock[req[c].gift] = Null
      BY <1>3 DEF UpdateGiftWrite
    <3> QED
      BY <2>2, <2>4, <3>1, <3>2 DEF LifeOf, Present
  <2> QED
    BY <1>3, <2>3, <2>4 DEF UpdateGiftWrite
<1>4. ASSUME NEW c \in Clients, DeleteGiftWrite(c) PROVE LifeOf(g)
  <2>1. repriced' = repriced
    BY <1>4 DEF DeleteGiftWrite, history
  <2>2. CASE UNCHANGED gift
    BY <2>1, <2>2, <1>1
  <2>3. CASE /\ RowsOf(req[c].gift) = {}
             /\ Present(req[c].gift)
             /\ gift' = [gift EXCEPT ![req[c].gift] = Deleted]
    <3>1. gift'[g] = IF g = req[c].gift THEN Deleted ELSE gift[g]
      BY <2>3 DEF TypeOK, TablesOK
    <3>2. lock[req[c].gift] = Null
      BY <1>4 DEF DeleteGiftWrite
    <3> QED
      BY <2>1, <2>3, <3>1, <3>2 DEF LifeOf, Present
  <2> QED
    BY <1>4, <2>2, <2>3 DEF DeleteGiftWrite
<1>5. ASSUME NEW c \in Clients, DeactivateGift(c) PROVE LifeOf(g)
  <2>1. repriced' = repriced
    BY <1>5 DEF DeactivateGift, history
  <2>2. CASE UNCHANGED gift
    BY <2>1, <2>2, <1>1
  <2>3. CASE /\ Present(req[c].gift)
             /\ gift' = [gift EXCEPT ![req[c].gift].active = FALSE]
    <3>1. CASE g = req[c].gift
      <4>1. gift[g] \in GiftRow
        BY <2>3, <3>1 DEF TypeOK, TablesOK, Present
      <4>2. gift'[g] = [gift[g] EXCEPT !.active = FALSE]
        BY <2>3, <3>1 DEF TypeOK, TablesOK
      <4>3. gift'[g] \in GiftForm /\ gift'[g].quota = gift[g].quota
              /\ gift'[g].maxUnits = gift[g].maxUnits
        BY <4>1, <4>2 DEF GiftRow, GiftForm
      <4>4. lock[g] = Null
        BY <1>5, <3>1 DEF DeactivateGift
      <4> QED
        BY <2>1, <2>3, <3>1, <4>3, <4>4 DEF LifeOf, Present
    <3>2. CASE g # req[c].gift
      <4>1. gift'[g] = gift[g]
        BY <2>3, <3>2 DEF TypeOK, TablesOK
      <4> QED
        BY <2>1, <4>1 DEF LifeOf, Present
    <3> QED
      BY <3>1, <3>2
  <2> QED
    BY <1>5, <2>2, <2>3 DEF DeactivateGift
<1> QED
  BY <1>1, <1>2, <1>3, <1>4, <1>5, GiftWriters DEF GiftWrite

LEMMA ReopenedGrows ==
  ASSUME [Next]_vars
  PROVE  reopened \subseteq reopened'
<1>1. ASSUME NEW c \in Clients, Begin(c) PROVE reopened \subseteq reopened'
  BY <1>1 DEF Begin, PixPreview, DeclareRead, CreateGift, UpdateGiftScan, DeleteGiftScan,
       ModerateContribution, history
<1>2. ASSUME NEW c \in Clients, Advance(c) PROVE reopened \subseteq reopened'
  BY <1>2 DEF Advance, DeclareLock, DeclareSum, DeclareInsert, UpdateGiftWrite,
       UpdateGiftExplain, GetGiftBack, DeleteGiftWrite, DeactivateGift, history
<1> QED
  BY <1>1, <1>2 DEF Next, Abort, InvitationRemoved, history, vars

-----------------------------------------------------------------------------
\* What a step may do to a request.

SameRequest(d) == pc'[d] = pc[d] /\ req'[d] = req[d]

LEMMA AnswerFrame ==
  ASSUME TypeOK, NEW c \in Clients, NEW what, Answer(c, what)
  PROVE  pc'[c] = "idle" /\ \A d \in Clients \ {c} : SameRequest(d)
BY DEF Answer, TypeOK, RequestsOK, SameRequest

LEMMA GoToFrame ==
  ASSUME TypeOK, NEW c \in Clients, NEW at, NEW r, GoTo(c, at, r)
  PROVE  pc'[c] = at /\ req'[c] = r /\ \A d \in Clients \ {c} : SameRequest(d)
BY DEF GoTo, TypeOK, RequestsOK, SameRequest

\* How request d gets to be where it is after a step: it was there already, it
\* is idle, or it went there itself.
Arrives(d) ==
  \/ SameRequest(d)
  \/ pc'[d] = "idle"
  \/ /\ pc[d] = "idle" /\ pc'[d] = "lock" /\ Present(req'[d].gift)
     /\ UNCHANGED <<gift, ledger>>
  \/ DeclareLock(d) /\ pc'[d] = "sum" /\ req'[d] = req[d]
  \/ DeclareSum(d) /\ pc'[d] = "insert" /\ req'[d] = req[d]
  \/ pc'[d] = "reread" /\ gift'[req'[d].gift] # Absent
  \/ /\ pc[d] = "idle" /\ pc'[d] \in {"update", "explain", "delete", "deactivate"}
     /\ gift[req'[d].gift] # Absent
     /\ pc'[d] = "update" => req'[d].noRows = (RowsOf(req'[d].gift) = {})
     /\ pc'[d] \in {"explain", "deactivate"} /\ Present(req'[d].gift)
          => RowsOf(req'[d].gift) # {}
     /\ UNCHANGED <<gift, ledger>>
  \/ /\ pc[d] = "update" /\ pc'[d] = "explain" /\ req'[d] = req[d]
     /\ ~(Present(req[d].gift) /\ req[d].noRows)
     /\ UNCHANGED <<gift, ledger>>
  \/ /\ pc[d] = "delete" /\ pc'[d] = "deactivate" /\ req'[d] = req[d]
     /\ ~Present(req[d].gift)
     /\ UNCHANGED <<gift, ledger>>

LEMMA BeginArrives ==
  ASSUME TypeOK, NEW c \in Clients, Begin(c), NEW d \in Clients
  PROVE  Arrives(d)
<1>1. ASSUME NEW what, Answer(c, what) PROVE Arrives(d)
  BY <1>1, AnswerFrame DEF Arrives
<1>2. ASSUME NEW at, NEW r, GoTo(c, at, r), d # c PROVE Arrives(d)
  BY <1>2, GoToFrame DEF Arrives
<1>3. ASSUME NEW g \in Gifts, NEW offer \in Offers, PixPreview(c, g, offer)
      PROVE  Arrives(d)
  BY <1>1, <1>3 DEF PixPreview
<1>4. ASSUME NEW g \in Gifts, NEW offer \in Offers, NEW group \in NullOr(Groups),
             DeclareRead(c, g, offer, group)
      PROVE  Arrives(d)
  <2> DEFINE r == [gift |-> g, group |-> group,
                   amount |-> ResolveAmount(gift[g].quota, offer)]
  <2>1. CASE \E what : Answer(c, what)
    BY <1>1, <2>1
  <2>2. CASE d = c /\ Closed(g) = "open" /\ GoTo(c, "lock", r)
    <3>1. pc[d] = "idle" /\ UNCHANGED <<gift, ledger>>
      BY <1>4, <2>2 DEF DeclareRead, tables
    <3>2. Present(g)
      BY <2>2 DEF Closed
    <3> QED
      BY <2>2, <3>1, <3>2, GoToFrame DEF Arrives, Present
  <2> QED
    BY <1>2, <1>4, <2>1, <2>2 DEF DeclareRead
<1>5. ASSUME NEW g \in Gifts, NEW form \in GiftInputs, UpdateGiftScan(c, g, form)
      PROVE  Arrives(d)
  <2> DEFINE noRows == RowsOf(g) = {}
             hit    == Present(g) /\ KindMayChange(g, form, noRows)
             at     == IF hit THEN "update" ELSE "explain"
             r      == [gift |-> g, row |-> form, noRows |-> noRows]
  <2>1. CASE \E what : Answer(c, what)
    BY <1>1, <2>1
  <2>2. CASE GoTo(c, at, r)
    <3>1. pc[c] = "idle" /\ gift[g] # Absent /\ UNCHANGED <<gift, ledger>>
      BY <1>5 DEF UpdateGiftScan, tables
    <3>2. pc'[c] = at /\ req'[c] = r
      BY <2>2, GoToFrame
    <3>3. ~hit /\ Present(g) => RowsOf(g) # {}
      BY DEF KindMayChange
    <3> QED
      BY <1>2, <2>2, <3>1, <3>2, <3>3 DEF Arrives, Present
  <2> QED
    BY <1>5, <2>1, <2>2 DEF UpdateGiftScan
<1>6. ASSUME NEW g \in Gifts, DeleteGiftScan(c, g) PROVE Arrives(d)
  <2> DEFINE at == IF Present(g) /\ RowsOf(g) = {} THEN "delete" ELSE "deactivate"
  <2>1. /\ pc[c] = "idle" /\ gift[g] # Absent /\ UNCHANGED <<gift, ledger>>
        /\ GoTo(c, at, [gift |-> g])
    BY <1>6 DEF DeleteGiftScan, tables
  <2>2. pc'[c] = at /\ req'[c] = [gift |-> g]
    BY <2>1, GoToFrame
  <2> QED
    BY <1>2, <2>1, <2>2 DEF Arrives, Present
<1>7. ASSUME NEW form \in GiftInputs, CreateGift(c, form) PROVE Arrives(d)
  <2> DEFINE row == IF form.kind = "" THEN [form EXCEPT !.kind = "pix"] ELSE form
  <2>1. CASE \E what : Answer(c, what)
    BY <1>1, <2>1
  <2>2. CASE \E g \in Gifts : /\ gift' = [gift EXCEPT ![g] = row]
                              /\ GoTo(c, "reread", [gift |-> g, row |-> row, noRows |-> TRUE])
    <3>1. PICK g \in Gifts : /\ gift' = [gift EXCEPT ![g] = row]
                             /\ GoTo(c, "reread", [gift |-> g, row |-> row, noRows |-> TRUE])
      BY <2>2
    <3>2. row \in GiftForm
      BY ConstantsAssumption DEF GiftForm, Kinds
    <3>3. gift'[g] = row
      BY <3>1 DEF TypeOK, TablesOK
    <3> HIDE DEF row
    <3>4. pc'[c] = "reread" /\ req'[c].gift = g
      BY <3>1, GoToFrame
    <3> QED
      BY <1>2, <3>1, <3>2, <3>3, <3>4, ConstantsAssumption DEF Arrives
  <2> QED
    BY <1>7, <2>1, <2>2 DEF CreateGift
<1>8. ASSUME NEW i \in Contributions, NEW status \in Statuses,
             ModerateContribution(c, i, status)
      PROVE  Arrives(d)
  BY <1>1, <1>8 DEF ModerateContribution
<1> QED
  BY <1>3, <1>4, <1>5, <1>6, <1>7, <1>8 DEF Begin

LEMMA AdvanceArrives ==
  ASSUME TypeOK, NEW c \in Clients, Advance(c), NEW d \in Clients
  PROVE  Arrives(d)
<1>1. ASSUME NEW what, Answer(c, what) PROVE Arrives(d)
  BY <1>1, AnswerFrame DEF Arrives
<1>2. ASSUME NEW at, NEW r, GoTo(c, at, r), d # c PROVE Arrives(d)
  BY <1>2, GoToFrame DEF Arrives
<1>3. CASE DeclareLock(c)
  BY <1>1, <1>2, <1>3, GoToFrame DEF DeclareLock, Arrives
<1>4. CASE DeclareSum(c)
  BY <1>1, <1>2, <1>4, GoToFrame DEF DeclareSum, Arrives
<1>5. CASE DeclareInsert(c) \/ UpdateGiftExplain(c) \/ GetGiftBack(c) \/ DeactivateGift(c)
  BY <1>1, <1>5 DEF DeclareInsert, UpdateGiftExplain, GetGiftBack, DeactivateGift
<1>6. CASE UpdateGiftWrite(c)
  <2>1. req[c] \in EditReq
    BY <1>6 DEF UpdateGiftWrite, TypeOK, RequestsOK, Carries, EditPCs
  <2>2. CASE /\ gift' = [gift EXCEPT ![req[c].gift] = req[c].row]
             /\ GoTo(c, "reread", req[c])
    <3>1. gift'[req[c].gift] # Absent
      BY <2>1, <2>2, ConstantsAssumption
         DEF TypeOK, TablesOK, EditReq, GiftRow, GiftForm
    <3> QED
      BY <1>2, <2>2, <3>1, GoToFrame DEF Arrives
  <2>3. CASE /\ ~(Present(req[c].gift)
                    /\ KindMayChange(req[c].gift, req[c].row, req[c].noRows))
             /\ GoTo(c, "explain", req[c])
             /\ UNCHANGED <<gift, repriced>>
    <3>1. ~(Present(req[c].gift) /\ req[c].noRows)
      BY <2>3 DEF KindMayChange
    <3>2. pc[c] = "update" /\ UNCHANGED <<gift, ledger>>
      BY <1>6, <2>3 DEF UpdateGiftWrite
    <3> QED
      BY <1>2, <2>3, <3>1, <3>2, GoToFrame DEF Arrives
  <2> QED
    BY <1>6, <2>2, <2>3 DEF UpdateGiftWrite
<1>7. CASE DeleteGiftWrite(c)
  <2>1. CASE \E what : Answer(c, what)
    BY <1>1, <2>1
  <2>2. CASE ~Present(req[c].gift) /\ GoTo(c, "deactivate", req[c]) /\ UNCHANGED gift
    <3>1. pc[c] = "delete" /\ UNCHANGED <<gift, ledger>>
      BY <1>7, <2>2 DEF DeleteGiftWrite
    <3> QED
      BY <1>2, <2>2, <3>1, GoToFrame DEF Arrives
  <2> QED
    BY <1>7, <2>1, <2>2 DEF DeleteGiftWrite
<1> QED
  BY <1>3, <1>4, <1>5, <1>6, <1>7 DEF Advance

LEMMA StepArrives ==
  ASSUME TypeOK, [Next]_vars, NEW d \in Clients
  PROVE  Arrives(d)
<1>1. ASSUME NEW c \in Clients, Abort(c) PROVE Arrives(d)
  BY <1>1, AnswerFrame DEF Abort, Arrives
<1>2. CASE UNCHANGED <<pc, req>>
  BY <1>2 DEF Arrives, SameRequest
<1> QED
  BY <1>1, <1>2, BeginArrives, AdvanceArrives DEF Next, InvitationRemoved, vars

-----------------------------------------------------------------------------
\* The inductive invariant.

LEMMA SafetyInit == Init => SafetyInv
<1> SUFFICES ASSUME Init PROVE SafetyInv
  OBVIOUS
<1>1. TypeOK
  BY TypeInit
<1>2. \A g \in Gifts : ~Present(g)
  BY DEF Init, Present
<1>3. LockDiscipline
  BY ConstantsAssumption DEF Init, LockDiscipline
<1>4. LedgerHasReferent /\ NamedGiftExisted /\ ScanRemembered /\ LostConditionMeansLedger
  BY DEF Init, LedgerHasReferent, NamedGiftExisted, ScanRemembered, LostConditionMeansLedger
<1>5. CommitChecked /\ SoldWithinUnits
  BY <1>2 DEF Init, CommitChecked, SoldWithinUnits
<1> QED
  BY <1>1, <1>3, <1>4, <1>5 DEF SafetyInv

LEMMA ArrivedRequest ==
  ASSUME TypeOK, [Next]_vars, NEW c \in Clients, pc'[c] # "idle"
  PROVE  req'[c].gift \in Gifts
<1>1. TypeOK'
  BY StepType
<1>2. Carries(c)' /\ pc'[c] \in {"idle"} \cup DeclarePCs \cup EditPCs \cup RemovePCs
  BY <1>1 DEF TypeOK, RequestsOK
<1> QED
  BY <1>2 DEF Carries, DeclareReq, EditReq, RemoveReq

LEMMA StepNamed ==
  ASSUME SafetyInv, [Next]_vars
  PROVE  NamedGiftExisted'
<1> SUFFICES ASSUME NEW c \in Clients, pc'[c] # "idle"
             PROVE  gift'[req'[c].gift] # Absent
  BY DEF NamedGiftExisted
<1>1. TypeOK /\ (pc[c] # "idle" => gift[req[c].gift] # Absent)
  BY DEF SafetyInv, NamedGiftExisted
<1>2. req'[c].gift \in Gifts
  BY <1>1, ArrivedRequest
<1>3. gift[req'[c].gift] # Absent => gift'[req'[c].gift] # Absent
  BY <1>1, <1>2, GiftLife DEF LifeOf
<1>4. Arrives(c)
  BY <1>1, StepArrives
<1> QED
  BY <1>1, <1>3, <1>4 DEF Arrives, SameRequest, Present, DeclareLock, DeclareSum

\* Ledger rows once seen are seen for ever.
LEMMA RowsStay ==
  ASSUME TypeOK, [Next]_vars, NEW g \in Gifts, RowsOf(g) # {}
  PROVE  RowsOf(g)' # {}
BY StepRowsSurvive DEF RowsSurvive, RowsOf

LEMMA StepScan ==
  ASSUME SafetyInv, [Next]_vars
  PROVE  ScanRemembered'
<1> SUFFICES ASSUME NEW c \in Clients, pc'[c] = "update", ~req'[c].noRows,
                    NEW g, g = req'[c].gift
             PROVE  RowsOf(g)' # {}
  BY DEF ScanRemembered, RowsOf
<1>1. TypeOK /\ (pc[c] = "update" /\ ~req[c].noRows => RowsOf(req[c].gift) # {})
  BY DEF SafetyInv, ScanRemembered
<1>2. g \in Gifts
  BY <1>1, ArrivedRequest
<1>3. Arrives(c)
  BY <1>1, StepArrives
<1>4. RowsOf(g) # {}
  BY <1>1, <1>3 DEF Arrives, SameRequest
<1> QED
  BY <1>1, <1>2, <1>4, RowsStay

LEMMA StepLostCondition ==
  ASSUME SafetyInv, [Next]_vars
  PROVE  LostConditionMeansLedger'
<1> SUFFICES ASSUME NEW c \in Clients, pc'[c] \in {"deactivate", "explain"},
                    NEW g, g = req'[c].gift, Present(g)'
             PROVE  RowsOf(g)' # {}
  BY DEF LostConditionMeansLedger, RowsOf, Present
<1>1. /\ TypeOK
      /\ pc[c] \in {"deactivate", "explain"} /\ Present(req[c].gift)
           => RowsOf(req[c].gift) # {}
      /\ pc[c] = "update" /\ ~req[c].noRows => RowsOf(req[c].gift) # {}
      /\ pc[c] # "idle" => gift[req[c].gift] # Absent
  BY DEF SafetyInv, LostConditionMeansLedger, ScanRemembered, NamedGiftExisted
<1>2. g \in Gifts
  BY <1>1, ArrivedRequest
<1>3. gift[g] # Absent => Present(g)
  BY <1>2, <1>1, GiftLife DEF LifeOf, Present
<1>4. Arrives(c)
  BY <1>1, StepArrives
<1>5. TypeOK /\ (pc[c] = "update" => req[c].noRows \in BOOLEAN)
  BY <1>1 DEF TypeOK, RequestsOK, Carries, EditPCs, EditReq
<1>6. RowsOf(g) # {}
  BY <1>1, <1>3, <1>4, <1>5 DEF Arrives, SameRequest
<1> QED
  BY <1>1, <1>2, <1>6, RowsStay

LEMMA StepReferent ==
  ASSUME SafetyInv, [Next]_vars
  PROVE  LedgerHasReferent'
<1> SUFFICES ASSUME NEW i \in Contributions, ledger'[i] # Null
             PROVE  gift'[ledger'[i].gift] \notin {Absent, Deleted} /\ ledger'[i].group \in NullOr(groups')
  BY DEF LedgerHasReferent, Present, NullOr
<1>1. /\ TypeOK /\ CommitChecked
      /\ \A j \in Contributions : ledger[j] # Null =>
           ledger[j] \in LedgerRow /\ Present(ledger[j].gift) /\ ledger[j].group \in NullOr(groups)
  BY DEF SafetyInv, LedgerHasReferent, TypeOK, TablesOK, NullOr
<1>2. ASSUME ledger[i] # Null, ledger'[i].gift = ledger[i].gift
      PROVE  gift'[ledger'[i].gift] \notin {Absent, Deleted}
  <2>1. PICK g \in Gifts : g = ledger[i].gift
    BY <1>1, <1>2 DEF LedgerRow
  <2>2. RowsOf(g) # {} /\ Present(g)
    BY <1>1, <1>2, <2>1 DEF RowsOf
  <2>3. Present(g)'
    BY <1>1, <2>2, GiftLife DEF LifeOf
  <2> QED
    BY <1>2, <2>1, <2>3 DEF Present
<1>3. CASE UNCHANGED ledger
  <2>1. ledger'[i].group \in NullOr(groups)
    BY <1>1, <1>3
  <2>2. groups' = groups \/ \E group \in Groups : InvitationRemoved(group)
    <3>1. ASSUME NEW c \in Clients, Begin(c) PROVE groups' = groups
      BY <3>1 DEF Begin, PixPreview, DeclareRead, CreateGift, UpdateGiftScan, DeleteGiftScan,
           ModerateContribution, tables
    <3>2. ASSUME NEW c \in Clients, Advance(c) PROVE groups' = groups
      BY <3>2 DEF Advance, DeclareLock, DeclareSum, DeclareInsert, UpdateGiftWrite,
           UpdateGiftExplain, GetGiftBack, DeleteGiftWrite, DeactivateGift, tables
    <3> QED
      BY <3>1, <3>2 DEF Next, Abort, tables, vars
  <2>3. ASSUME NEW group \in Groups, InvitationRemoved(group)
        PROVE  ledger'[i].group \in NullOr(groups')
    BY <1>3, <2>1, <2>3, UnsignedRow, <1>1 DEF InvitationRemoved, NullOr
  <2> QED
    BY <1>2, <1>3, <2>1, <2>2, <2>3
<1>4. ASSUME NEW c \in Clients, DeclareInsert(c), ledger' # ledger
      PROVE  gift'[ledger'[i].gift] \notin {Absent, Deleted} /\ ledger'[i].group \in NullOr(groups')
  <2>1. groups' = groups /\ gift' = gift /\ pc[c] = "insert"
    BY <1>4 DEF DeclareInsert
  <2>2. Present(req[c].gift)
    BY <1>1, <2>1 DEF CommitChecked, Closed
  <2>3. req[c].group \in NullOr(groups)
    BY <1>1, <1>4, InsertedRow
  <2> QED
    BY <1>1, <1>2, <1>4, <2>1, <2>2, <2>3, InsertedRow DEF Present
<1>5. ASSUME NEW c \in Clients, NEW j \in Contributions, NEW status \in Statuses,
             ModerateContribution(c, j, status), ledger' # ledger
      PROVE  gift'[ledger'[i].gift] \notin {Absent, Deleted} /\ ledger'[i].group \in NullOr(groups')
  <2>1. ledger[j] # Null /\ ledger' = [ledger EXCEPT ![j].status = status] /\ groups' = groups
    BY <1>5 DEF ModerateContribution
  <2>2. ledger[i] # Null /\ ledger'[i].gift = ledger[i].gift /\ ledger'[i].group = ledger[i].group
    BY <1>1, <2>1, ModeratedRow
  <2> QED
    BY <1>1, <1>2, <2>1, <2>2
<1>6. ASSUME NEW group \in Groups, InvitationRemoved(group)
      PROVE  gift'[ledger'[i].gift] \notin {Absent, Deleted} /\ ledger'[i].group \in NullOr(groups')
  <2>1. ledger[i] # Null /\ ledger'[i].gift = ledger[i].gift
          /\ ledger'[i].group \in NullOr({ledger[i].group} \ {group})
    BY <1>1, <1>6, UnsignedRow
  <2> QED
    BY <1>1, <1>2, <1>6, <2>1 DEF InvitationRemoved, NullOr
<1> QED
  BY <1>3, <1>4, <1>5, <1>6, LedgerWriters DEF LedgerWrite

LEMMA StepCommit ==
  ASSUME SafetyInv, [Next]_vars
  PROVE  CommitChecked'
<1> SUFFICES ASSUME NEW c \in Clients, pc'[c] \in {"sum", "insert"},
                    NEW g, g = req'[c].gift
             PROVE  /\ Closed(g)' = "open"
                    /\ ValidAmount(gift'[g].quota, req'[c].amount)
                    /\ pc'[c] = "insert" =>
                         g \in reopened' \/ HasUnits(gift'[g], SumGiftNonCancelled(g)', req'[c].amount)
  BY DEF CommitChecked, Closed, SumGiftNonCancelled, CentavosOf, Centavos, RowsOf, Present
<1>1. TypeOK /\ LockDiscipline /\ g \in Gifts /\ reopened \subseteq reopened'
  BY ArrivedRequest, ReopenedGrows DEF SafetyInv
<1>2. Arrives(c)
  BY <1>1, StepArrives
<1>3. CASE SameRequest(c)
  <2>1. pc[c] \in {"sum", "insert"} /\ req[c].gift = g /\ req[c] = req'[c] /\ pc[c] = pc'[c]
    BY <1>3 DEF SameRequest
  <2>2. /\ Closed(g) = "open"
        /\ ValidAmount(gift[g].quota, req[c].amount)
        /\ pc[c] = "insert" =>
             g \in reopened \/ HasUnits(gift[g], SumGiftNonCancelled(g), req[c].amount)
    BY <2>1 DEF SafetyInv, CommitChecked
  <2>3. gift'[g] = gift[g] /\ gift[g] \in GiftRow
    <3>1. lock[g] # Null
      BY <1>1, <2>1, ConstantsAssumption DEF LockDiscipline
    <3>2. Present(g)
      BY <2>2 DEF Closed
    <3> QED
      BY <1>1, <3>1, <3>2, GiftLife DEF LifeOf, TypeOK, TablesOK, Present
  <2>4. Closed(g)' = "open"
    BY <2>2, <2>3 DEF Closed, Present
  <2>5. ~\E d \in Clients : DeclareInsert(d) /\ ledger' # ledger /\ req[d].gift = g
    <3> SUFFICES ASSUME NEW d \in Clients, DeclareInsert(d), req[d].gift = g
                 PROVE  FALSE
      OBVIOUS
    <3>1. lock[g] = d /\ lock[g] = c
      BY <1>1, <2>1 DEF DeclareInsert, LockDiscipline
    <3>2. pc'[d] = "idle"
      BY <1>1, AnswerFrame DEF DeclareInsert
    <3> QED
      BY <3>1, <3>2, <2>1
  <2>6. g \in reopened' \/ Centavos(g, Active)' \subseteq Centavos(g, Active)
    BY <1>1, <2>5, HeldShrinks
  <2>7. ASSUME pc[c] = "insert", g \notin reopened'
        PROVE  HasUnits(gift[g], SumGiftNonCancelled(g)', req[c].amount)
    <3>1. HasUnits(gift[g], SumGiftNonCancelled(g), req[c].amount)
      BY <1>1, <2>2, <2>7
    <3>2. req[c].amount \in Nat
      BY <2>2, ConstantsAssumption DEF ValidAmount, Prices
    <3> QED
      BY <2>3, <2>6, <2>7, <3>1, <3>2, SumShrinks, HasUnitsMonotone
  <2> QED
    BY <2>1, <2>2, <2>3, <2>4, <2>7
<1>4. CASE DeclareLock(c) /\ pc'[c] = "sum" /\ req'[c] = req[c]
  <2>1. UNCHANGED gift
    BY <1>4 DEF DeclareLock, tables
  <2>2. Closed(g) = "open" /\ ValidAmount(gift[g].quota, req[c].amount)
    <3>1. ASSUME NEW what, Answer(c, what) PROVE FALSE
      BY <1>1, <1>4, <3>1, AnswerFrame
    <3> QED
      BY <1>4, <3>1 DEF DeclareLock
  <2> QED
    BY <1>4, <2>1, <2>2 DEF Closed, Present
<1>5. CASE DeclareSum(c) /\ pc'[c] = "insert" /\ req'[c] = req[c]
  <2>1. UNCHANGED <<gift, ledger>> /\ pc[c] = "sum"
    BY <1>5 DEF DeclareSum, tables
  <2>2. Closed(g) = "open" /\ ValidAmount(gift[g].quota, req[c].amount)
    BY <1>5, <2>1 DEF SafetyInv, CommitChecked
  <2>3. HasUnits(gift[g], SumGiftNonCancelled(g), req[c].amount)
    <3>1. ASSUME NEW what, Answer(c, what) PROVE FALSE
      BY <1>1, <1>5, <3>1, AnswerFrame
    <3> QED
      BY <1>5, <3>1 DEF DeclareSum
  <2>4. SumGiftNonCancelled(g)' = SumGiftNonCancelled(g)
    BY <2>1 DEF SumGiftNonCancelled, CentavosOf, Centavos, RowsOf
  <2> QED
    BY <1>5, <2>1, <2>2, <2>3, <2>4 DEF Closed, Present
<1> QED
  BY <1>2, <1>3, <1>4, <1>5 DEF Arrives

LEMMA StepSold ==
  ASSUME SafetyInv, [Next]_vars
  PROVE  SoldWithinUnits'
<1> SUFFICES ASSUME NEW g \in Gifts, Present(g)', g \notin reopened' \cup repriced'
             PROVE  HasUnits(gift'[g], SumGiftNonCancelled(g)', 0)
  BY DEF SoldWithinUnits
<1>1. TypeOK /\ TypeOK' /\ LifeOf(g) /\ g \notin reopened
  <2>1. TypeOK
    BY DEF SafetyInv
  <2>2. TypeOK'
    BY <2>1, StepType
  <2> QED
    BY <2>1, <2>2, GiftLife, ReopenedGrows
<1>2. gift'[g] \in GiftRow
  BY <1>1 DEF TypeOK, TablesOK, Present
<1>3. CASE ~Present(g)
  <2>1. RowsOf(g) = {}
    BY <1>3 DEF SafetyInv, LedgerHasReferent, RowsOf
  <2>2. gift'[g] # gift[g]
    BY <1>3 DEF Present
  <2>3. ~\E c \in Clients : DeclareInsert(c)
    BY <2>2 DEF DeclareInsert
  <2>4. Centavos(g, Active)' \subseteq Centavos(g, Active)
    BY <1>1, <2>3, HeldShrinks
  <2>5. Centavos(g, Active)' = {}
    BY <2>1, <2>4 DEF Centavos
  <2>6. SumGiftNonCancelled(g)' = 0
    BY <2>5, FS_EmptySet DEF SumGiftNonCancelled, CentavosOf, Active
  <2> QED
    BY <1>2, <2>6, NoneHeld
<1>4. CASE Present(g)
  <2>1. /\ gift[g] \in GiftRow /\ gift'[g].quota = gift[g].quota
        /\ gift'[g].maxUnits = gift[g].maxUnits
    BY <1>1, <1>4 DEF LifeOf, TypeOK, TablesOK, Present
  <2>2. SUFFICES HasUnits(gift[g], SumGiftNonCancelled(g)', 0)
    BY <2>1 DEF HasUnits, UnitLimited
  <2>3. g \notin reopened \cup repriced
    BY <1>1 DEF LifeOf
  <2>4. CASE \E c \in Clients : DeclareInsert(c) /\ ledger' # ledger /\ req[c].gift = g
    <3>1. PICK c \in Clients : DeclareInsert(c) /\ ledger' # ledger /\ req[c].gift = g
      BY <2>4
    <3>2. /\ ValidAmount(gift[g].quota, req[c].amount)
          /\ HasUnits(gift[g], SumGiftNonCancelled(g), req[c].amount)
      BY <2>3, <3>1 DEF SafetyInv, CommitChecked, DeclareInsert
    <3>3. SumGiftNonCancelled(g)' = SumGiftNonCancelled(g) + req[c].amount
      BY <1>1, <3>1, SumGrows
    <3>4. SumGiftNonCancelled(g) \in Nat
      BY CentavosFinite DEF SumGiftNonCancelled
    <3> QED
      BY <2>1, <3>2, <3>3, <3>4, HasUnitsAdded
  <2>5. CASE ~\E c \in Clients : DeclareInsert(c) /\ ledger' # ledger /\ req[c].gift = g
    <3>1. Centavos(g, Active)' \subseteq Centavos(g, Active)
      BY <1>1, <2>5, HeldShrinks
    <3>2. HasUnits(gift[g], SumGiftNonCancelled(g), 0)
      BY <1>4, <2>3 DEF SafetyInv, SoldWithinUnits
    <3> QED
      BY <2>1, <3>1, <3>2, SumShrinks, HasUnitsMonotone
  <2> QED
    BY <2>4, <2>5
<1> QED
  BY <1>3, <1>4

LEMMA StepInsert ==
  ASSUME SafetyInv, [Next]_vars
  PROVE  InsertsAgainstRowInForce
<1> SUFFICES ASSUME NEW i \in Contributions, ledger[i] = Null, ledger'[i] # Null,
                    NEW g, g = ledger'[i].gift
             PROVE  /\ Closed(g) = "open"
                    /\ ValidAmount(gift[g].quota, ledger'[i].amount)
                    /\ g \in reopened \/ HasUnits(gift[g], SumGiftNonCancelled(g), ledger'[i].amount)
  BY DEF InsertsAgainstRowInForce
<1>1. TypeOK
  BY DEF SafetyInv
<1>2. ~\E c \in Clients, j \in Contributions, status \in Statuses :
         ModerateContribution(c, j, status)
  <2> SUFFICES ASSUME NEW c \in Clients, NEW j \in Contributions, NEW status \in Statuses,
                      ModerateContribution(c, j, status)
               PROVE  FALSE
    OBVIOUS
  <2>1. ledger[j] # Null /\ ledger' = [ledger EXCEPT ![j].status = status]
    BY DEF ModerateContribution
  <2> QED
    BY <1>1, <2>1, ModeratedRow
<1>3. ~\E group \in Groups : InvitationRemoved(group)
  BY <1>1, UnsignedRow
<1>4. PICK c \in Clients : DeclareInsert(c) /\ ledger' # ledger
  BY <1>2, <1>3, LedgerWriters DEF LedgerWrite
<1>5. g = req[c].gift /\ ledger'[i].amount = req[c].amount /\ pc[c] = "insert"
  BY <1>1, <1>4, InsertedRow DEF DeclareInsert
<1> QED
  BY <1>5 DEF SafetyInv, CommitChecked

\* What the row lock, the second reading under it and the foreign keys guarantee
\* together (repo.go's transactions), in every state: the inductive invariant.
THEOREM SafetyInvariant == Spec => []SafetyInv
<1>1. Init => SafetyInv
  BY SafetyInit
<1>2. SafetyInv /\ TypeOK' /\ [Next]_vars => SafetyInv'
  <2> SUFFICES ASSUME SafetyInv, TypeOK', [Next]_vars PROVE SafetyInv'
    OBVIOUS
  <2>1. LockDiscipline'
    BY StepLock DEF SafetyInv
  <2> QED
    BY <2>1, StepReferent, StepNamed, StepScan, StepLostCondition, StepCommit, StepSold
       DEF SafetyInv
<1> QED
  BY <1>1, <1>2, TypeCorrect, PTL DEF Spec

\* At most one request at a time is between the locked read of a gift and the
\* commit of its declaration.
THEOREM LockSafe == Spec => []LockDiscipline
<1>1. SafetyInv => LockDiscipline
  BY DEF SafetyInv
<1> QED
  BY <1>1, SafetyInvariant, PTL

\* Guests alone never oversell a gift, for any number of concurrent guests, any
\* quota and any limit.
THEOREM NeverOversold == Spec => []SoldWithinUnits
<1>1. SafetyInv => SoldWithinUnits
  BY DEF SafetyInv
<1> QED
  BY <1>1, SafetyInvariant, PTL

\* A contribution's gift, and the invitation it is signed by, are always there.
THEOREM ReferentKept == Spec => []LedgerHasReferent
<1>1. SafetyInv => LedgerHasReferent
  BY DEF SafetyInv
<1> QED
  BY <1>1, SafetyInvariant, PTL

\* Deactivating instead of deleting, and refusing a change of kind, are always
\* justified by a ledger.
THEOREM LostConditionJustified == Spec => []LostConditionMeansLedger
<1>1. SafetyInv => LostConditionMeansLedger
  BY DEF SafetyInv
<1> QED
  BY <1>1, SafetyInvariant, PTL

\* Whatever was read before the lock was taken, a row enters the ledger only as
\* the locked gift allows.
THEOREM InsertsJustified == Spec => DeclaredAgainstRowInForce
<1>1. SafetyInv /\ [Next]_vars => [InsertsAgainstRowInForce]_vars
  BY StepInsert
<1> QED
  BY <1>1, SafetyInvariant, PTL DEF Spec, DeclaredAgainstRowInForce

-----------------------------------------------------------------------------
\* The state as Ledger sees it.

LEMMA SameShelf == UNCHANGED gift => UNCHANGED OnShelf
BY DEF OnShelf, Present

LEMMA SameEntries ==
  ASSUME NEW g \in Gifts
  PROVE  Promise!EntriesFor(g) = RowsOf(g)
BY DEF Promise!EntriesFor, RowsOf

LEMMA SamePromised ==
  ASSUME TypeOK, NEW g \in Gifts
  PROVE  Promise!Promised(g) = Centavos(g, Active)
<1>1. \A i \in RowsOf(g) : ledger[i].status \in Statuses
  BY DEF TypeOK, TablesOK, NullOr, RowsOf, LedgerRow
<1> QED
  BY <1>1, SameEntries DEF Promise!Promised, Centavos, Active

LEMMA SameCardinality == \A S : Promise!Cardinality(S) = Cardinality(S)
BY DEF Promise!Cardinality, Cardinality

\* One gift row is written, nothing else that Ledger sees.
LEMMA OneWritten ==
  ASSUME TypeOK, NEW g \in Gifts, NEW new, gift' = [gift EXCEPT ![g] = new]
  PROVE  /\ OnShelf' = [OnShelf EXCEPT ![g] = OnShelf'[g]]
         /\ OnShelf'[g] = IF new \notin {Absent, Deleted} THEN new ELSE Null
<1>1. gift' = [h \in Gifts |-> IF h = g THEN new ELSE gift[h]]
  BY DEF TypeOK, TablesOK
<1>2. gift'[g] = new /\ \A h \in Gifts \ {g} : gift'[h] = gift[h]
  BY <1>1
<1> DEFINE shown(h) == IF gift'[h] \notin {Absent, Deleted} THEN gift'[h] ELSE Null
<1>3. OnShelf' = [h \in Gifts |-> shown(h)]
  BY DEF OnShelf, Present
<1>4. \A h \in Gifts \ {g} : OnShelf'[h] = OnShelf[h]
  BY <1>2, <1>3 DEF OnShelf, Present
<1>5. OnShelf'[g] = IF new \notin {Absent, Deleted} THEN new ELSE Null
  BY <1>2, <1>3
<1>6. OnShelf = [h \in Gifts |-> OnShelf[h]] /\ OnShelf' = [h \in Gifts |-> OnShelf'[h]]
  BY <1>3 DEF OnShelf
<1> QED
  BY <1>4, <1>5, <1>6

\* A row that may be on the list is put up, or changed.
LEMMA ShelvedStep ==
  ASSUME TypeOK, NEW g \in Gifts, NEW row \in GiftRow, ValidGift(row),
         gift' = [gift EXCEPT ![g] = row], UNCHANGED <<ledger, groups, reopened>>
  PROVE  [Promise!Next]_(Promise!vars)
<1>1. row \notin {Absent, Deleted}
  BY ConstantsAssumption DEF GiftRow, GiftForm
<1>2. OnShelf' = [OnShelf EXCEPT ![g] = OnShelf'[g]] /\ OnShelf'[g] = row
  BY <1>1, OneWritten
<1>3. Promise!Shelve(g)
  BY <1>2 DEF Promise!Shelve
<1>4. CASE OnShelf' = OnShelf
  BY <1>4 DEF Promise!vars
<1>5. CASE OnShelf' # OnShelf
  BY <1>3, <1>5 DEF Promise!Next
<1> QED
  BY <1>4, <1>5

-----------------------------------------------------------------------------
\* The statements that write table gifts.

LEMMA CreateGiftImplements ==
  ASSUME TypeOK, NEW c \in Clients, NEW form \in GiftInputs, CreateGift(c, form)
  PROVE  [Promise!Next]_(Promise!vars)
<1> DEFINE row == IF form.kind = "" THEN [form EXCEPT !.kind = "pix"] ELSE form
<1>1. CASE UNCHANGED gift
  BY <1>1, SameShelf DEF CreateGift, history, Promise!vars
<1>2. CASE gift' # gift
  <2>1. row \in GiftRow
    BY ConstantsAssumption DEF GiftForm, GiftRow, Kinds
  <2>2. ValidGift(row) /\ \E g \in Gifts : gift' = [gift EXCEPT ![g] = row]
    BY <1>2 DEF CreateGift
  <2>3. UNCHANGED <<ledger, groups, reopened>>
    BY DEF CreateGift, history
  <2> QED
    BY <2>1, <2>2, <2>3, ShelvedStep
<1> QED
  BY <1>1, <1>2

LEMMA UpdateGiftImplements ==
  ASSUME TypeOK, NEW c \in Clients, UpdateGiftWrite(c)
  PROVE  [Promise!Next]_(Promise!vars)
<1>1. UNCHANGED <<ledger, groups, reopened>>
  BY DEF UpdateGiftWrite
<1>2. CASE UNCHANGED gift
  BY <1>1, <1>2, SameShelf DEF Promise!vars
<1>3. CASE gift' # gift
  <2>1. req[c] \in EditReq /\ ValidGift(req[c].row)
    BY DEF UpdateGiftWrite, TypeOK, RequestsOK, Carries, EditPCs
  <2>2. req[c].gift \in Gifts /\ req[c].row \in GiftRow
    BY <2>1 DEF EditReq
  <2>3. gift' = [gift EXCEPT ![req[c].gift] = req[c].row]
    BY <1>3 DEF UpdateGiftWrite
  <2> QED
    BY <1>1, <2>1, <2>2, <2>3, ShelvedStep
<1> QED
  BY <1>2, <1>3

\* The foreign key of contributions keeps a gift that was given to.
LEMMA DeleteGiftImplements ==
  ASSUME TypeOK, NEW c \in Clients, DeleteGiftWrite(c)
  PROVE  [Promise!Next]_(Promise!vars)
<1> DEFINE g == req[c].gift
<1>1. UNCHANGED <<ledger, groups, reopened>>
  BY DEF DeleteGiftWrite, history
<1>2. CASE UNCHANGED gift
  BY <1>1, <1>2, SameShelf DEF Promise!vars
<1>3. CASE gift' # gift
  <2>1. g \in Gifts
    BY DEF DeleteGiftWrite, TypeOK, RequestsOK, Carries, RemovePCs, RemoveReq
  <2>2. RowsOf(g) = {} /\ gift' = [gift EXCEPT ![g] = Deleted]
    BY <1>3 DEF DeleteGiftWrite
  <2> HIDE DEF g
  <2>3. OnShelf' = [OnShelf EXCEPT ![g] = OnShelf'[g]] /\ OnShelf'[g] = Null
    BY <2>1, <2>2, OneWritten
  <2>4. Promise!Unshelve(g)
    BY <1>1, <2>1, <2>2, <2>3, SameEntries DEF Promise!Unshelve
  <2>5. CASE OnShelf' = OnShelf
    BY <1>1, <2>5 DEF Promise!vars
  <2>6. CASE OnShelf' # OnShelf
    BY <2>1, <2>4, <2>6 DEF Promise!Next
  <2> QED
    BY <2>5, <2>6
<1> QED
  BY <1>2, <1>3

LEMMA DeactivateImplements ==
  ASSUME TypeOK, NEW c \in Clients, DeactivateGift(c)
  PROVE  [Promise!Next]_(Promise!vars)
<1> DEFINE g == req[c].gift
           row == [gift[g] EXCEPT !.active = FALSE]
<1>1. UNCHANGED <<ledger, groups, reopened>>
  BY DEF DeactivateGift, history
<1>2. CASE UNCHANGED gift
  BY <1>1, <1>2, SameShelf DEF Promise!vars
<1>3. CASE gift' # gift
  <2>1. g \in Gifts
    BY DEF DeactivateGift, TypeOK, RequestsOK, Carries, RemovePCs, RemoveReq
  <2>2. Present(g) /\ gift' = [gift EXCEPT ![g].active = FALSE]
    BY <1>3 DEF DeactivateGift
  <2>3. gift[g] \in GiftRow /\ ValidGift(gift[g])
    BY <2>1, <2>2 DEF TypeOK, TablesOK, Present
  <2>4. row \in GiftRow /\ ValidGift(row)
    BY <2>3 DEF GiftRow, ValidGift
  <2>5. gift' = [gift EXCEPT ![g] = row]
    BY <2>2
  <2> QED
    BY <1>1, <2>1, <2>4, <2>5, ShelvedStep
<1> QED
  BY <1>2, <1>3

-----------------------------------------------------------------------------
\* The statements that write table contributions.

\* A lock, a second reading of the row, a sum and an insert, seen as one instant.
LEMMA DeclareImplements ==
  ASSUME SafetyInv, NEW c \in Clients, DeclareInsert(c), ledger' # ledger
  PROVE  Promise!Next
<1>1. TypeOK
  BY DEF SafetyInv
<1>2. UNCHANGED <<gift, groups, reopened>> /\ OnShelf' = OnShelf
  BY SameShelf DEF DeclareInsert, history
<1>3. PICK i \in Contributions :
        /\ ledger[i] = Null /\ ledger'[i] # Null
        /\ ledger'[i].gift = req[c].gift
        /\ ledger'[i].amount = req[c].amount
        /\ ledger'[i].group = req[c].group
        /\ ledger'[i].status = "declared"
        /\ \A j \in Contributions : j # i => ledger'[j] = ledger[j]
  BY <1>1, InsertedRow
<1> DEFINE g == req[c].gift
           amount == req[c].amount
<1>4. g \in Gifts /\ amount \in Prices /\ req[c].group \in NullOr(groups)
  BY <1>1, InsertedRow DEF DeclareReq
<1>5. /\ Closed(g) = "open"
      /\ ValidAmount(gift[g].quota, amount)
      /\ g \in reopened \/ HasUnits(gift[g], SumGiftNonCancelled(g), amount)
  BY DEF SafetyInv, CommitChecked, DeclareInsert
<1> HIDE DEF g, amount
<1>6. ledger' = [ledger EXCEPT ![i] = ledger'[i]]
  <2>1. ledger' = [j \in Contributions |-> ledger'[j]]
    BY <1>1 DEF DeclareInsert, TypeOK, TablesOK, Answer
  <2>2. ledger = [j \in Contributions |-> ledger[j]]
    BY <1>1 DEF TypeOK, TablesOK
  <2> QED BY <1>3, <2>1, <2>2
<1>7. /\ Present(g) /\ gift[g].active /\ gift[g].kind = "pix" /\ gift[g] # Null
      /\ OnShelf[g] = gift[g]
  <2>1. Present(g) /\ gift[g].active /\ gift[g].kind # "link"
    BY <1>5 DEF Closed
  <2>2. gift[g] \in GiftRow
    BY <1>1, <1>4, <2>1 DEF TypeOK, TablesOK, Present
  <2>3. gift[g] # Null /\ gift[g].kind = "pix"
    BY <2>1, <2>2, ConstantsAssumption DEF GiftRow, Kinds
  <2> QED BY <1>4, <2>1, <2>3 DEF OnShelf
<1>8. Promise!WholeQuotas(g, amount)
  BY <1>5, <1>7 DEF ValidAmount, Promise!WholeQuotas
<1>9. g \in reopened \/ Promise!UnitsRemain(g, amount)
  <2>1. Promise!Promised(g) = Centavos(g, Statuses \ {"cancelled"})
    BY <1>1, <1>4, SamePromised DEF Active
  <2>2. SumGiftNonCancelled(g) = Cardinality(Promise!Promised(g))
    BY <2>1 DEF SumGiftNonCancelled, CentavosOf
  <2>3. ASSUME HasUnits(gift[g], SumGiftNonCancelled(g), amount)
        PROVE  Promise!UnitsRemain(g, amount)
    <3> SUFFICES ASSUME OnShelf[g].quota # Null, OnShelf[g].maxUnits # Null
                 PROVE  Cardinality(Promise!Promised(g)) \div OnShelf[g].quota
                          + amount \div OnShelf[g].quota <= OnShelf[g].maxUnits
      BY SameCardinality, Zenon DEF Promise!UnitsRemain
    <3>1. UnitLimited(gift[g])
      BY <1>7 DEF UnitLimited
    <3> QED BY <1>7, <2>2, <2>3, <3>1, Zenon DEF HasUnits
  <2> QED
    BY <1>5, <2>3
<1>10. ledger'[i].gift = g /\ ledger'[i].amount = amount /\ ledger'[i].group \in groups \cup {Null}
  BY <1>3, <1>4 DEF g, amount, NullOr
<1>11. Promise!Declare(i)
  BY <1>2, <1>3, <1>4, <1>6, <1>7, <1>8, <1>9, <1>10 DEF Promise!Declare
<1> QED
  BY <1>11 DEF Promise!Next

LEMMA ModerateImplements ==
  ASSUME TypeOK, NEW c \in Clients, NEW i \in Contributions, NEW status \in Statuses,
         ModerateContribution(c, i, status)
  PROVE  [Promise!Next]_(Promise!vars)
<1>1. UNCHANGED <<gift, groups>> /\ OnShelf' = OnShelf
  BY SameShelf DEF ModerateContribution
<1>2. CASE UNCHANGED <<ledger, reopened>>
  BY <1>1, <1>2 DEF Promise!vars
<1>3. CASE ~UNCHANGED <<ledger, reopened>>
  <2>1. /\ ledger[i] # Null /\ ledger[i].status # status
        /\ ledger' = [ledger EXCEPT ![i].status = status]
        /\ reopened' = IF ledger[i].status = "cancelled"
                       THEN reopened \cup {ledger[i].gift} ELSE reopened
    BY <1>3 DEF ModerateContribution
  <2>2. status \in Promise!Statuses \ {ledger[i].status}
    BY <2>1 DEF Promise!Statuses, Statuses
  <2>3. Promise!Moderate(i)
    BY <1>1, <2>1, <2>2 DEF Promise!Moderate
  <2>4. ledger' # ledger
    <3>1. ledger'[i].status = status
      BY <2>1, ModeratedRow
    <3> QED BY <2>1, <3>1
  <2> QED
    BY <2>3, <2>4 DEF Promise!Next
<1> QED
  BY <1>2, <1>3

LEMMA UnsignImplements ==
  ASSUME NEW group \in Groups, InvitationRemoved(group)
  PROVE  Promise!Next
<1>1. OnShelf' = OnShelf /\ UNCHANGED reopened
  BY SameShelf DEF InvitationRemoved, history
<1>2. Promise!Unsign(group)
  BY <1>1 DEF InvitationRemoved, Promise!Unsign
<1>3. group \in groups /\ groups' # groups
  BY DEF InvitationRemoved
<1> QED
  BY <1>2, <1>3 DEF Promise!Next

-----------------------------------------------------------------------------
\* The theorem.

\* A step that writes neither table is not seen in Ledger.
LEMMA OthersUnseen ==
  ASSUME [Next]_vars
  PROVE  UNCHANGED <<gift, ledger, groups, reopened>> \/ GiftWrite \/ LedgerWrite
<1>1. ASSUME NEW c \in Clients, Begin(c)
      PROVE  UNCHANGED <<gift, ledger, groups, reopened>> \/ GiftWrite \/ LedgerWrite
  BY <1>1 DEF Begin, PixPreview, DeclareRead, UpdateGiftScan, DeleteGiftScan,
       tables, history, GiftWrite, LedgerWrite
<1>2. ASSUME NEW c \in Clients, Advance(c)
      PROVE  UNCHANGED <<gift, ledger, groups, reopened>> \/ GiftWrite \/ LedgerWrite
  BY <1>2 DEF Advance, DeclareLock, DeclareSum, UpdateGiftExplain, GetGiftBack,
       tables, history, GiftWrite, LedgerWrite
<1>3. ASSUME NEW c \in Clients, Abort(c) PROVE UNCHANGED <<gift, ledger, groups, reopened>>
  BY <1>3 DEF Abort, tables, history
<1>4. ASSUME NEW group \in Groups, InvitationRemoved(group) PROVE LedgerWrite
  BY <1>4 DEF LedgerWrite
<1>5. CASE UNCHANGED vars
  BY <1>5 DEF vars
<1> QED
  BY <1>1, <1>2, <1>3, <1>4, <1>5 DEF Next

LEMMA StepImplements == SafetyInv /\ [Next]_vars => [Promise!Next]_(Promise!vars)
<1> SUFFICES ASSUME SafetyInv, [Next]_vars PROVE [Promise!Next]_(Promise!vars)
  OBVIOUS
<1>1. TypeOK
  BY DEF SafetyInv
<1>2. CASE UNCHANGED <<gift, ledger, groups, reopened>>
  BY <1>2, SameShelf DEF Promise!vars
<1>3. CASE GiftWrite
  BY <1>1, <1>3, CreateGiftImplements, UpdateGiftImplements, DeleteGiftImplements,
     DeactivateImplements DEF GiftWrite
<1>4. ASSUME NEW c \in Clients, DeclareInsert(c) PROVE [Promise!Next]_(Promise!vars)
  <2>1. CASE ledger' # ledger
    BY <1>4, <2>1, DeclareImplements
  <2>2. CASE ledger' = ledger
    BY <1>4, <2>2, SameShelf DEF DeclareInsert, history, Promise!vars
  <2> QED BY <2>1, <2>2
<1>5. CASE LedgerWrite
  BY <1>1, <1>4, <1>5, ModerateImplements, UnsignImplements DEF LedgerWrite
<1> QED
  BY <1>2, <1>3, <1>5, OthersUnseen

\* The gift list keeps Ledger's promise, for any number of requests, gifts and
\* invitations: the row lock, the second reading and the sum make a declaration an
\* instant, and only the statements that write the tables are seen.
THEOREM PromiseKept == Spec => ImplementsLedger
<1>1. Init => Promise!Init
  BY ConstantsAssumption DEF Init, Promise!Init, OnShelf, Present
<1>2. SafetyInv /\ [Next]_vars => [Promise!Next]_(Promise!vars)
  BY StepImplements
<1> QED
  BY <1>1, <1>2, SafetyInvariant, PTL DEF Spec, ImplementsLedger, Promise!Spec
=============================================================================
