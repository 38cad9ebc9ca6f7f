-------------------------- MODULE NotificationsProofs --------------------------
(***************************************************************************)
(* Theorems about Notifications, for any finite number of posts and any    *)
(* deadlines.                                                              *)
(***************************************************************************)
EXTENDS Notifications, FiniteSetTheorems, TLAPS

-----------------------------------------------------------------------------
\* The inductive invariant.

InHandler == {"unsent", "deadline", "store", "notify"}
Active    == {"first", "pause", "second"}

\* The goroutines of a service that did not call Done yet.
Goroutines(s) == {p \in Posts : ServiceOf(p) = s /\ mail[p] \in Active}

CountOK == \A s \in Services : waiting[s] = Cardinality(Goroutines(s))

\* What is known of a mail, by how far its goroutine is.
MailOK ==
  \A p \in Posts :
    /\ mail[p] # "none" => request[p] = "answered"
    /\ mail[p] \in {"none", "first"} => left[p] = 0 /\ p \notin logged
    /\ mail[p] \in {"pause", "second"} =>
         left[p] \in {0, 1} /\ p \notin logged /\ (left[p] = 1 => p \in unheard)
    /\ mail[p] = "over" => Heard(p)

\* A submission has seen what the deadline was at every moment so far, and that it was
\* open if it was let through.
SeenOK ==
  \A p \in Rsvps :
    /\ request[p] \in {"deadline", "store"} => Meant(daysLeft) \in seen[p]
    /\ request[p] = "store" => "open" \in seen[p]

\* A shutdown that exceeded no limit: no handler is left, then no goroutine of the
\* services it drained.
ShutdownOK ==
  /\ phase \in {"up", "closing"} => \A s \in Services : drain[s] = "none"
  /\ cut = {} =>
       /\ phase \in Services \cup {"exited"} => HandlersOver
       /\ \A s \in Services : drain[s] = "returned" => waiting[s] = 0
       /\ phase \in {"messages", "exited"} => drain["guests"] = "returned"
       /\ phase = "exited" => drain["messages"] = "returned"

IInv == TypeOK /\ CountOK /\ MailOK /\ TwiceOnlyIfUnheard /\ SeenOK /\ ShutdownOK

-----------------------------------------------------------------------------
\* The WaitGroups.

LEMMA PostFacts ==
  /\ IsFiniteSet(Posts)
  /\ Cardinality(Posts) \in Nat
  /\ \A p \in Posts : ServiceOf(p) \in Services
  /\ Rsvps \subseteq Posts
BY ConstantsAssumption, FS_CardinalityType DEF ServiceOf, Services, Posts

\* A service has no more goroutines than there are posts.
LEMMA GoroutinesFinite ==
  ASSUME NEW s \in Services
  PROVE  /\ IsFiniteSet(Goroutines(s))
         /\ Cardinality(Goroutines(s)) \in 0 .. Cardinality(Posts)
<1>1. Goroutines(s) \subseteq Posts
  BY DEF Goroutines
<1>2. IsFiniteSet(Goroutines(s)) /\ Cardinality(Goroutines(s)) <= Cardinality(Posts)
  BY <1>1, PostFacts, FS_Subset
<1> QED
  BY <1>2, PostFacts, FS_CardinalityType

LEMMA GoroutinesFinitePrime ==
  ASSUME NEW s \in Services
  PROVE  Cardinality(Goroutines(s)') \in 0 .. Cardinality(Posts)
<1>1. Goroutines(s)' \subseteq Posts
  BY DEF Goroutines
<1>2. IsFiniteSet(Goroutines(s)') /\ Cardinality(Goroutines(s)') <= Cardinality(Posts)
  BY <1>1, PostFacts, FS_Subset
<1> QED
  BY <1>2, PostFacts, FS_CardinalityType

\* A counter at zero is a service without goroutines.
LEMMA NobodyWaited ==
  ASSUME CountOK, NEW p \in Posts, mail[p] \in Active
  PROVE  waiting[ServiceOf(p)] >= 1
<1> DEFINE s == ServiceOf(p)
<1>1. p \in Goroutines(s) /\ s \in Services
  BY PostFacts DEF Goroutines
<1>2. Cardinality(Goroutines(s)) # 0
  BY <1>1, GoroutinesFinite, FS_EmptySet
<1> QED
  BY <1>1, <1>2, GoroutinesFinite, PostFacts DEF CountOK

\* Add.
LEMMA CountUp ==
  ASSUME TypeOK, CountOK, NEW p \in Posts, mail[p] \notin Active, mail'[p] \in Active,
         \A q \in Posts \ {p} : mail'[q] = mail[q],
         waiting' = [waiting EXCEPT ![ServiceOf(p)] = @ + 1]
  PROVE  CountOK'
<1> SUFFICES ASSUME NEW s \in Services PROVE waiting'[s] = Cardinality(Goroutines(s)')
  BY DEF CountOK
<1>1. CASE s = ServiceOf(p)
  <2>1. Goroutines(s)' = Goroutines(s) \cup {p} /\ p \notin Goroutines(s)
    BY <1>1 DEF Goroutines
  <2>2. Cardinality(Goroutines(s)') = Cardinality(Goroutines(s)) + 1
    BY <2>1, GoroutinesFinite, FS_AddElement
  <2> QED BY <1>1, <2>2 DEF CountOK, TypeOK
<1>2. CASE s # ServiceOf(p)
  <2>1. Goroutines(s)' = Goroutines(s)
    BY <1>2 DEF Goroutines
  <2> QED BY <1>2, <2>1 DEF CountOK, TypeOK
<1> QED BY <1>1, <1>2

\* Done.
LEMMA CountDown ==
  ASSUME TypeOK, CountOK, NEW p \in Posts, mail[p] \in Active, mail'[p] \notin Active,
         \A q \in Posts \ {p} : mail'[q] = mail[q],
         waiting' = [waiting EXCEPT ![ServiceOf(p)] = @ - 1]
  PROVE  CountOK'
<1> SUFFICES ASSUME NEW s \in Services PROVE waiting'[s] = Cardinality(Goroutines(s)')
  BY DEF CountOK
<1>1. CASE s = ServiceOf(p)
  <2>1. Goroutines(s)' = Goroutines(s) \ {p} /\ p \in Goroutines(s)
    BY <1>1 DEF Goroutines
  <2>2. Cardinality(Goroutines(s)') = Cardinality(Goroutines(s)) - 1
    BY <2>1, GoroutinesFinite, FS_RemoveElement
  <2> QED BY <1>1, <2>2 DEF CountOK, TypeOK
<1>2. CASE s # ServiceOf(p)
  <2>1. Goroutines(s)' = Goroutines(s)
    BY <1>2 DEF Goroutines
  <2> QED BY <1>2, <2>1 DEF CountOK, TypeOK
<1> QED BY <1>1, <1>2

LEMMA CountSame ==
  ASSUME CountOK, UNCHANGED waiting,
         \A q \in Posts : mail'[q] \in Active <=> mail[q] \in Active
  PROVE  CountOK'
<1>1. \A s \in Services : Goroutines(s)' = Goroutines(s)
  BY DEF Goroutines
<1> QED BY <1>1 DEF CountOK

LEMMA WaitingType ==
  ASSUME CountOK', waiting' \in [Services -> Int]
  PROVE  waiting' \in [Services -> 0 .. Cardinality(Posts)]
BY GoroutinesFinitePrime DEF CountOK

-----------------------------------------------------------------------------
\* The calendar and the handlers.

Ats == {"unsent", "deadline", "store", "notify", "answered", "tooLate", "refused"}

LEMMA AtFacts ==
  ASSUME TypeOK, NEW p \in Posts, NEW at \in Ats, At(p, at)
  PROVE  /\ request' \in [Posts -> Ats]
         /\ seen' \in [Rsvps -> SUBSET {"open", "passed"}]
         /\ request'[p] = at
         /\ p \in Rsvps /\ at \in {"deadline", "store"} => seen'[p] = seen[p] \cup {Meant(daysLeft)}
         /\ \A q \in Posts \ {p} : request'[q] = request[q]
         /\ \A q \in Rsvps \ {p} : seen'[q] = seen[q]
BY PostFacts DEF TypeOK, At, Ats, Meant

LEMMA InvInit == Init => IInv
<1> SUFFICES ASSUME Init PROVE IInv
  OBVIOUS
<1>1. TypeOK
  BY PostFacts DEF Init, TypeOK
<1>2. CountOK
  <2>1. \A s \in Services : Goroutines(s) = {}
    BY DEF Init, Goroutines, Active
  <2> QED BY <2>1, FS_EmptySet DEF Init, CountOK
<1> QED
  BY <1>1, <1>2, PostFacts DEF Init, IInv, MailOK, TwiceOnlyIfUnheard, SeenOK, ShutdownOK, Services

\* Time goes by, or the couple moves the deadline: who is under way sees it.
LEMMA CalendarNext ==
  ASSUME IInv, NEW days \in DaysLeft, Calendar(days)
  PROVE  IInv'
<1>1. UNCHANGED <<request, mail, left, unheard, logged, waiting, drain, phase, cut>>
  BY DEF Calendar, mails, main
<1>2. daysLeft' = days /\ seen' = Watched(days)
  BY DEF Calendar
<1>3. TypeOK'
  BY <1>1, <1>2, PostFacts DEF IInv, TypeOK, Watched, Meant
<1>4. CountOK'
  BY <1>1, CountSame DEF IInv
<1>5. SeenOK'
  BY <1>1, <1>2 DEF IInv, SeenOK, Watched
<1>6. MailOK' /\ TwiceOnlyIfUnheard' /\ ShutdownOK'
  BY <1>1 DEF IInv, MailOK, Heard, TwiceOnlyIfUnheard, ShutdownOK, HandlersOver
<1> QED
  BY <1>3, <1>4, <1>5, <1>6 DEF IInv

\* A handler goes on, and nobody was mailed yet.
LEMMA HandlerMoves ==
  ASSUME IInv, NEW p \in Posts, NEW at \in Ats, At(p, at),
         request[p] \in InHandler,
         phase = "up" \/ request[p] # "unsent",
         p \in Rsvps /\ at = "store" => Meant(daysLeft) = "open",
         UNCHANGED <<daysLeft, mails, waiting, main>>
  PROVE  IInv'
<1>1. UNCHANGED <<daysLeft, mail, left, unheard, logged, waiting, drain, phase, cut>>
  BY DEF mails, main
<1>2. TypeOK'
  BY <1>1, AtFacts DEF IInv, TypeOK, Ats
<1>3. CountOK'
  BY <1>1, CountSame DEF IInv
<1>4. mail[p] = "none"
  BY DEF IInv, MailOK, InHandler
<1>5. MailOK' /\ TwiceOnlyIfUnheard'
  BY <1>1, <1>4, AtFacts DEF IInv, MailOK, Heard, TwiceOnlyIfUnheard
<1>6. SeenOK'
  <2> SUFFICES ASSUME NEW q \in Rsvps
               PROVE  /\ request'[q] \in {"deadline", "store"} => Meant(daysLeft) \in seen'[q]
                      /\ request'[q] = "store" => "open" \in seen'[q]
    BY <1>1 DEF SeenOK, Meant
  <2>1. CASE q = p
    BY <2>1, AtFacts DEF IInv
  <2>2. CASE q # p
    BY <2>2, AtFacts, PostFacts DEF IInv, SeenOK
  <2> QED BY <2>1, <2>2
<1>7. ShutdownOK'
  <2>1. ASSUME phase \in Services \cup {"exited"}, HandlersOver PROVE HandlersOver'
    BY <2>1, <1>1, AtFacts DEF HandlersOver, InHandler, IInv, TypeOK, Services
  <2> QED BY <1>1, <2>1 DEF IInv, ShutdownOK
<1> QED
  BY <1>2, <1>3, <1>5, <1>6, <1>7 DEF IInv

LEMMA HandlerNext ==
  ASSUME IInv, NEW p \in Posts,
         Accept(p) \/ (p \in Rsvps /\ ReadDeadline(p)) \/ Store(p) \/ Refuse(p)
  PROVE  IInv'
<1>1. CASE Accept(p)
  BY <1>1, HandlerMoves DEF Accept, Ats, InHandler
<1>2. CASE p \in Rsvps /\ ReadDeadline(p)
  <2>1. daysLeft \in Int /\ (~DeadlinePassed(daysLeft) => Meant(daysLeft) = "open")
    BY ConstantsAssumption DEF IInv, TypeOK, DaysLeft, DeadlinePassed, Meant
  <2>2. CASE DeadlinePassed(daysLeft)
    BY <1>2, <2>2, HandlerMoves DEF ReadDeadline, Ats, InHandler
  <2>3. CASE ~DeadlinePassed(daysLeft)
    BY <1>2, <2>1, <2>3, HandlerMoves DEF ReadDeadline, Ats, InHandler
  <2> QED BY <2>2, <2>3
<1>3. CASE Store(p)
  BY <1>3, HandlerMoves DEF Store, Ats, InHandler
<1>4. CASE Refuse(p)
  BY <1>4, HandlerMoves DEF Refuse, Ats, InHandler
<1> QED BY <1>1, <1>2, <1>3, <1>4

LEMMA NotifyNext ==
  ASSUME IInv, NEW p \in Posts, Notify(p)
  PROVE  IInv'
<1>1. /\ request[p] = "notify" /\ phase # "exited"
      /\ UNCHANGED <<daysLeft, left, unheard, logged, drain, phase, cut>>
      /\ mail' = [mail EXCEPT ![p] = "first"]
      /\ waiting' = [waiting EXCEPT ![ServiceOf(p)] = @ + 1]
      /\ At(p, "answered")
  BY DEF Notify, main, Running
<1>2. mail[p] = "none"
  BY <1>1 DEF IInv, MailOK
<1>3. CountOK'
  BY <1>1, <1>2, CountUp DEF IInv, TypeOK, Active
<1>4. waiting' \in [Services -> Int]
  BY <1>1, PostFacts DEF IInv, TypeOK
<1>5. TypeOK'
  BY <1>1, <1>3, <1>4, AtFacts, WaitingType DEF IInv, TypeOK, Ats
<1>6. MailOK' /\ TwiceOnlyIfUnheard'
  BY <1>1, <1>2, AtFacts DEF IInv, TypeOK, MailOK, Heard, TwiceOnlyIfUnheard, Ats
<1>7. SeenOK'
  <2> SUFFICES ASSUME NEW q \in Rsvps
               PROVE  /\ request'[q] \in {"deadline", "store"} => Meant(daysLeft) \in seen'[q]
                      /\ request'[q] = "store" => "open" \in seen'[q]
    BY <1>1 DEF SeenOK, Meant
  <2>1. CASE q = p
    BY <1>1, <2>1, AtFacts DEF IInv, Ats
  <2>2. CASE q # p
    BY <1>1, <2>2, AtFacts, PostFacts DEF IInv, SeenOK, Ats
  <2> QED BY <2>1, <2>2
<1>8. ShutdownOK'
  <2>1. ~HandlersOver
    BY <1>1 DEF HandlersOver
  <2>2. cut = {} => phase \notin Services \cup {"exited"}
    BY <2>1 DEF IInv, ShutdownOK
  <2>3. cut = {} => phase \in {"up", "closing"}
    BY <2>2 DEF IInv, TypeOK
  <2>4. cut = {} => \A s \in Services : drain[s] = "none"
    BY <2>3 DEF IInv, ShutdownOK
  <2> QED BY <1>1, <2>2, <2>3, <2>4 DEF IInv, ShutdownOK, Services
<1> QED
  BY <1>3, <1>5, <1>6, <1>7, <1>8 DEF IInv

-----------------------------------------------------------------------------
\* The goroutines of the mails.

\* What every step of p's goroutine leaves alone.
Aside(p) ==
  /\ UNCHANGED <<daysLeft, request, seen, phase, cut>>
  /\ \A q \in Posts \ {p} : /\ left'[q] = left[q]
                            /\ q \in unheard' <=> q \in unheard
                            /\ q \in logged' <=> q \in logged

\* The goroutine of p goes on.
LEMMA MailGoesOn ==
  ASSUME IInv, NEW p \in Posts, mail[p] \in Active,
         NEW to \in {"pause", "second"},
         mail' = [mail EXCEPT ![p] = to],
         Aside(p), UNCHANGED <<logged, waiting, drain>>,
         left' \in [Posts -> 0 .. 2], unheard' \subseteq Posts,
         left'[p] \in {0, 1}, left'[p] = 1 => p \in unheard'
  PROVE  IInv'
<1>1. TypeOK'
  BY DEF IInv, TypeOK, Aside
<1>2. CountOK'
  BY CountSame DEF IInv, TypeOK, Active
<1>3. p \notin logged /\ request[p] = "answered"
  BY DEF IInv, MailOK, Active
<1>4. MailOK' /\ TwiceOnlyIfUnheard'
  BY <1>3 DEF IInv, TypeOK, MailOK, Heard, TwiceOnlyIfUnheard, Aside
<1>5. SeenOK' /\ ShutdownOK'
  BY DEF IInv, SeenOK, ShutdownOK, HandlersOver, Aside
<1> QED
  BY <1>1, <1>2, <1>4, <1>5 DEF IInv

\* The goroutine of p is over.
LEMMA MailOver ==
  ASSUME IInv, NEW p \in Posts, mail[p] \in Active, Over(p), Aside(p),
         left' \in [Posts -> 0 .. 2], unheard' \subseteq Posts, logged' \subseteq Posts,
         Heard(p)',
         (left[p] = 2 \/ (left[p] = 1 /\ p \in logged) => p \in unheard)'
  PROVE  IInv'
<1> DEFINE s == ServiceOf(p)
<1>1. /\ mail' = [mail EXCEPT ![p] = "over"]
      /\ waiting' = [waiting EXCEPT ![s] = @ - 1]
      /\ drain' = [drain EXCEPT ![s] = IF @ = "waits" /\ waiting[s] = 1 THEN "woken" ELSE @]
  BY DEF Over
<1>2. s \in Services
  BY PostFacts
<1>3. CountOK'
  BY <1>1, CountDown DEF IInv, TypeOK, Active
<1>4. waiting' \in [Services -> Int]
  BY <1>1, <1>2, PostFacts DEF IInv, TypeOK
<1>5. drain' \in [Services -> {"none", "started", "waits", "woken", "returned"}]
  BY <1>1, <1>2 DEF IInv, TypeOK
<1>6. TypeOK'
  BY <1>1, <1>3, <1>4, <1>5, WaitingType DEF IInv, TypeOK, Aside
<1>7. request[p] = "answered"
  BY DEF IInv, MailOK, Active
<1>8. MailOK' /\ TwiceOnlyIfUnheard'
  BY <1>1, <1>7 DEF IInv, TypeOK, MailOK, Heard, TwiceOnlyIfUnheard, Aside
<1>9. SeenOK'
  BY DEF IInv, SeenOK, Aside
<1>10. ShutdownOK'
  <2>1. \A r \in Services : /\ drain'[r] = "none" <=> drain[r] = "none"
                            /\ drain'[r] = "returned" <=> drain[r] = "returned"
    BY <1>1, <1>2 DEF IInv, TypeOK
  <2>2. \A r \in Services : waiting[r] = 0 => waiting'[r] = 0
    BY <1>1, <1>2, NobodyWaited DEF IInv, TypeOK
  <2> QED BY <2>1, <2>2 DEF IInv, ShutdownOK, HandlersOver, Aside, Services
<1> QED
  BY <1>3, <1>6, <1>8, <1>9, <1>10 DEF IInv

\* What is known of a mail that is being sent.
LEMMA SendingFacts ==
  ASSUME IInv, NEW p \in Posts, Sending(p) \/ mail[p] = "pause"
  PROVE  /\ mail[p] \in Active /\ p \notin logged
         /\ mail[p] = "first" => left[p] = 0
         /\ left[p] \in {0, 1} /\ (left[p] = 1 => p \in unheard)
         /\ left \in [Posts -> 0 .. 2] /\ unheard \subseteq Posts /\ logged \subseteq Posts
BY DEF Sending, IInv, TypeOK, MailOK, Active

LEMMA SendNext ==
  ASSUME IInv, NEW p \in Posts, Attempt(p)
  PROVE  IInv'
<1>1. CASE SendSucceeds(p)
  <2>1. mail[p] \in Active /\ left[p] \in {0, 1} /\ (left[p] = 1 => p \in unheard)
    BY <1>1, SendingFacts DEF SendSucceeds
  <2>2. left' = [left EXCEPT ![p] = @ + 1] /\ UNCHANGED <<unheard, logged>> /\ Over(p)
    BY <1>1 DEF SendSucceeds
  <2>3. left' \in [Posts -> 0 .. 2] /\ left'[p] = left[p] + 1 /\ p \notin logged
    BY <1>1, <2>1, <2>2, SendingFacts DEF SendSucceeds
  <2>4. Aside(p)
    BY <1>1, <2>2, <2>3 DEF SendSucceeds, Aside, IInv, TypeOK
  <2> QED BY <2>1, <2>2, <2>3, <2>4, MailOver DEF Heard, IInv, TypeOK
<1>2. CASE SendRejected(p)
  <2>1. mail[p] \in Active /\ left[p] \in {0, 1} /\ (left[p] = 1 => p \in unheard)
    BY <1>2, SendingFacts DEF SendRejected
  <2>2. logged' = logged \cup {p} /\ UNCHANGED <<left, unheard>> /\ Over(p) /\ Aside(p)
    BY <1>2 DEF SendRejected, Aside
  <2> QED BY <2>1, <2>2, MailOver DEF Heard, IInv, TypeOK
<1>3. ASSUME Sending(p), FailedOnce(p), Aside(p),
             left' \in [Posts -> 0 .. 2], unheard' \subseteq Posts,
             left'[p] \in 0 .. 2, left'[p] # 0 => p \in unheard',
             mail[p] = "first" => left'[p] \in {0, 1}
      PROVE  IInv'
  <2>1. mail[p] \in Active /\ logged \subseteq Posts
    BY <1>3, SendingFacts
  <2>2. CASE mail' = [mail EXCEPT ![p] = "pause"] /\ mail[p] = "first"
             /\ UNCHANGED <<logged, waiting, drain>>
    <3>1. left'[p] \in {0, 1} /\ (left'[p] = 1 => p \in unheard')
      BY <1>3, <2>2
    <3> QED BY <1>3, <2>1, <2>2, <3>1, MailGoesOn
  <2>3. CASE logged' = logged \cup {p} /\ Over(p)
    BY <1>3, <2>1, <2>3, MailOver DEF Heard
  <2> QED BY <1>3, <2>2, <2>3 DEF FailedOnce
<1>4. CASE SendFails(p)
  <2>1. Aside(p)
    BY <1>4 DEF SendFails, FailedOnce, Aside
  <2> QED BY <1>3, <1>4, <2>1, SendingFacts DEF SendFails
<1>5. CASE SendUnheard(p)
  <2>1. left' = [left EXCEPT ![p] = @ + 1] /\ unheard' = unheard \cup {p} /\ FailedOnce(p)
    BY <1>5 DEF SendUnheard
  <2>2. left' \in [Posts -> 0 .. 2] /\ left'[p] = left[p] + 1
    BY <1>5, <2>1, SendingFacts DEF SendUnheard
  <2>3. Aside(p)
    BY <1>5, <2>1, <2>2, SendingFacts DEF SendUnheard, FailedOnce, Aside
  <2> QED BY <1>3, <1>5, <2>1, <2>2, <2>3, SendingFacts DEF SendUnheard
<1>6. CASE Retry(p)
  <2>1. /\ mail' = [mail EXCEPT ![p] = "second"]
        /\ UNCHANGED <<left, unheard, logged, waiting, drain>> /\ Aside(p)
    BY <1>6 DEF Retry, Aside, main
  <2> QED BY <1>6, <2>1, MailGoesOn, SendingFacts DEF Retry
<1> QED
  BY <1>1, <1>2, <1>4, <1>5, <1>6 DEF Attempt

-----------------------------------------------------------------------------
\* The process.

\* What cmd/api does leaves posts and mails alone.
LEMMA MainKeeps ==
  ASSUME IInv, UNCHANGED Elsewhere, ShutdownOK',
         drain' \in [Services -> {"none", "started", "waits", "woken", "returned"}],
         phase' \in {"up", "closing", "exited"} \cup Services,
         cut' \subseteq Exits
  PROVE  IInv'
<1>1. UNCHANGED <<daysLeft, request, seen, mail, left, unheard, logged, waiting>>
  BY DEF Elsewhere, mails
<1>2. CountOK'
  BY <1>1, CountSame DEF IInv
<1> QED
  BY <1>1, <1>2 DEF IInv, TypeOK, MailOK, Heard, TwiceOnlyIfUnheard, SeenOK

LEMMA ElsewhereShutdown ==
  ASSUME UNCHANGED Elsewhere
  PROVE  waiting' = waiting /\ (HandlersOver' <=> HandlersOver)
BY DEF Elsewhere, HandlersOver

LEMMA WaitNext ==
  ASSUME IInv, NEW s \in Services, Wait(s)
  PROVE  IInv'
<1>1. UNCHANGED Elsewhere
  BY DEF Wait
<1>2. drain[s] \in {"started", "woken"} /\ phase # "exited"
  BY DEF Wait, Running
<1>3. CASE \E to \in {"returned", "waits"} :
             /\ drain' = [drain EXCEPT ![s] = to] /\ (to = "returned" => waiting[s] = 0)
             /\ UNCHANGED <<phase, cut>>
  <2>1. PICK to \in {"returned", "waits"} :
          drain' = [drain EXCEPT ![s] = to] /\ (to = "returned" => waiting[s] = 0)
    BY <1>3
  <2>2. \A r \in Services \ {s} : drain'[r] = drain[r]
    BY <2>1
  <2>3. drain'[s] = to
    BY <2>1 DEF IInv, TypeOK
  <2>4. ShutdownOK'
    BY <1>1, <1>2, <1>3, <2>1, <2>2, <2>3, ElsewhereShutdown DEF IInv, ShutdownOK, Services
  <2> QED BY <1>1, <1>3, <2>1, <2>4, MainKeeps DEF IInv, TypeOK
<1>4. CASE phase' = "exited" /\ cut' = cut \cup {"misuse"} /\ UNCHANGED drain
  BY <1>1, <1>4, MainKeeps DEF IInv, TypeOK, ShutdownOK, Exits
<1> QED
  BY <1>3, <1>4 DEF Wait

LEMMA PhaseNext ==
  ASSUME IInv, Signal \/ Main \/ TimeIsUp \/ ListenFails
  PROVE  IInv'
<1>1. UNCHANGED Elsewhere
  BY DEF Signal, Main, ShutdownEnds, GuestsDrained, MessagesDrained, TimeIsUp, ListenFails
<1>2. waiting' = waiting /\ (HandlersOver' <=> HandlersOver)
  BY <1>1, ElsewhereShutdown
<1>3. CASE Signal
  BY <1>1, <1>3, MainKeeps DEF Signal, IInv, TypeOK, ShutdownOK, Services
<1>4. CASE ShutdownEnds
  <2>1. /\ phase = "closing" /\ phase' = "guests" /\ UNCHANGED cut
        /\ drain' = [drain EXCEPT !["guests"] = "started"]
        /\ cut = {} => HandlersOver
    BY <1>4 DEF ShutdownEnds, StartDrain
  <2>2. ShutdownOK'
    BY <1>2, <2>1 DEF IInv, TypeOK, ShutdownOK, Services
  <2> QED BY <1>1, <2>1, <2>2, MainKeeps DEF IInv, TypeOK, Services
<1>5. CASE GuestsDrained
  <2>1. /\ phase = "guests" /\ phase' = "messages" /\ UNCHANGED cut
        /\ drain' = [drain EXCEPT !["messages"] = "started"]
        /\ cut = {} => drain["guests"] = "returned"
    BY <1>5 DEF GuestsDrained, StartDrain
  <2>2. ShutdownOK'
    BY <1>2, <2>1 DEF IInv, TypeOK, ShutdownOK, Services
  <2> QED BY <1>1, <2>1, <2>2, MainKeeps DEF IInv, TypeOK, Services
<1>6. CASE MessagesDrained
  <2>1. /\ phase = "messages" /\ phase' = "exited" /\ UNCHANGED <<cut, drain>>
        /\ cut = {} => drain["messages"] = "returned"
    BY <1>6 DEF MessagesDrained
  <2>2. ShutdownOK'
    BY <1>2, <2>1 DEF IInv, ShutdownOK, Services
  <2> QED BY <1>1, <2>1, <2>2, MainKeeps DEF IInv, TypeOK
<1>7. CASE TimeIsUp
  <2>1. cut' # {} /\ UNCHANGED <<drain, phase>> /\ cut' \subseteq Exits
    BY <1>7 DEF TimeIsUp, IInv, TypeOK, Exits
  <2> QED BY <1>1, <2>1, MainKeeps DEF IInv, TypeOK, ShutdownOK
<1>8. CASE ListenFails
  <2>1. cut' # {} /\ phase' = "exited" /\ UNCHANGED drain /\ cut' \subseteq Exits
    BY <1>8 DEF ListenFails, IInv, TypeOK, Exits
  <2> QED BY <1>1, <2>1, MainKeeps DEF IInv, TypeOK, ShutdownOK
<1> QED
  BY <1>3, <1>4, <1>5, <1>6, <1>7, <1>8 DEF Main

LEMMA InvNext == IInv /\ [Next]_vars => IInv'
<1> SUFFICES ASSUME IInv, [Next]_vars PROVE IInv'
  OBVIOUS
<1>1. CASE UNCHANGED vars
  <2>1. UNCHANGED Elsewhere /\ UNCHANGED <<drain, phase, cut>>
    BY <1>1 DEF vars, Elsewhere, mails
  <2>2. ShutdownOK'
    BY <2>1, ElsewhereShutdown DEF IInv, ShutdownOK
  <2> QED BY <2>1, <2>2, MainKeeps DEF IInv, TypeOK
<1>2. CASE \E days \in DaysLeft : UpdateSection(days)
  BY <1>2, CalendarNext DEF UpdateSection
<1>3. CASE NewDay
  <2>1. daysLeft - 1 \in DaysLeft
    BY <1>3, ConstantsAssumption DEF NewDay, IInv, TypeOK, DaysLeft
  <2> QED BY <1>3, <2>1, CalendarNext DEF NewDay
<1>4. CASE \E p \in Rsvps : ReadDeadline(p)
  BY <1>4, PostFacts, HandlerNext
<1>5. CASE \E p \in Posts : Accept(p) \/ Store(p) \/ Refuse(p) \/ Notify(p)
  BY <1>5, HandlerNext, NotifyNext
<1>6. CASE \E p \in Posts : Attempt(p)
  BY <1>6, SendNext
<1>7. CASE \E s \in Services : Wait(s)
  BY <1>7, WaitNext
<1>8. CASE Signal \/ Main \/ TimeIsUp \/ ListenFails
  BY <1>8, PhaseNext
<1> QED
  BY <1>1, <1>2, <1>3, <1>4, <1>5, <1>6, <1>7, <1>8 DEF Next

-----------------------------------------------------------------------------
\* The theorems.

\* The inductive invariant holds in every reachable state.
THEOREM SafetyInvariant == Spec => []IInv
BY InvInit, InvNext, PTL DEF Spec

\* Posts, counters and phases have a shape the code can give them.
THEOREM TypeCorrect == Spec => []TypeOK
<1>1. IInv => TypeOK
  BY DEF IInv
<1> QED
  BY <1>1, SafetyInvariant, PTL

\* DrainNotifications: a shutdown that exceeded none of its limits leaves no post of
\* which neither the couple nor the log heard, whatever was in flight at the signal.
THEOREM NothingKilled == Spec => []NothingKilledInTime
<1>1. IInv => NothingKilledInTime
  <2> SUFFICES ASSUME IInv, phase = "exited", cut = {}, NEW p \in Posts, Due(p)
               PROVE  Heard(p)
    BY DEF NothingKilledInTime
  <2>1. HandlersOver /\ \A s \in Services : drain[s] = "returned" /\ waiting[s] = 0
    BY DEF IInv, ShutdownOK, Services
  <2>2. mail[p] \notin Active
    BY <2>1, NobodyWaited, PostFacts DEF IInv
  <2>3. mail[p] = "over"
    BY <2>1, <2>2 DEF Due, HandlersOver, IInv, TypeOK, Active
  <2> QED BY <2>3 DEF IInv, MailOK
<1> QED
  BY <1>1, SafetyInvariant, PTL

\* The retry: no mail is sent again, or reported as lost, that left and was known to.
THEOREM NeverTwiceKnowingly == Spec => []TwiceOnlyIfUnheard
<1>1. IInv => TwiceOnlyIfUnheard
  BY DEF IInv
<1> QED
  BY <1>1, SafetyInvariant, PTL

\* A step that changes where a submission's handler is.
LEMMA StepDecided ==
  ASSUME IInv, [Next]_vars
  PROVE  [\A p \in Rsvps : DecidedByDeadline(p)]_vars
<1> SUFFICES ASSUME Next, NEW p \in Rsvps, request'[p] # request[p]
             PROVE  DecidedByDeadline(p)
  BY DEF DecidedByDeadline
<1>1. request[p] = "store" => "open" \in seen[p]
  BY DEF IInv, SeenOK
<1>2. ASSUME request'[p] = "tooLate" PROVE "passed" \in seen[p]
  <2>1. PICK q \in Posts :
          Accept(q) \/ (q \in Rsvps /\ ReadDeadline(q)) \/ Store(q) \/ Refuse(q) \/ Notify(q)
    BY PostFacts DEF Next, UpdateSection, NewDay, Calendar, Attempt, SendSucceeds, SendRejected,
       SendFails, SendUnheard, Retry, Wait, Signal, Main, ShutdownEnds, GuestsDrained,
       MessagesDrained, TimeIsUp, ListenFails, Elsewhere
  <2>2. ASSUME NEW at \in Ats, At(q, at) PROVE p = q /\ at = "tooLate"
    BY <1>2, <2>2, AtFacts, PostFacts DEF IInv
  <2>3. p = q /\ ReadDeadline(q) /\ DeadlinePassed(daysLeft)
    BY <2>1, <2>2 DEF Accept, ReadDeadline, Store, Refuse, Notify, Ats
  <2>4. Meant(daysLeft) = "passed"
    BY <2>3, ConstantsAssumption DEF DeadlinePassed, Meant, IInv, TypeOK, DaysLeft
  <2> QED BY <2>3, <2>4 DEF ReadDeadline, IInv, SeenOK
<1> QED
  BY <1>1, <1>2 DEF DecidedByDeadline

\* SubmitRSVP: whatever the couple does to the deadline meanwhile, a submission is
\* recorded only if the window was open, and refused as late only if it was closed, at
\* some moment while it was under way.
THEOREM DeadlineObeyed == Spec => DeadlineDecides
<1>1. IInv /\ [Next]_vars => [\A p \in Rsvps : DecidedByDeadline(p)]_vars
  BY StepDecided
<1> QED
  BY <1>1, SafetyInvariant, PTL DEF Spec, DeadlineDecides
=============================================================================
