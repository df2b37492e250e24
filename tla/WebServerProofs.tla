----------------------------- MODULE WebServerProofs -----------------------------
(***************************************************************************)
(* Proofs about the web server, for any accounts, names, browsers,         *)
(* goroutines, forms, gap limit and number of saves.                       *)
(*                                                                         *)
(* ActsForOwner: a handler runs for the user the middleware read by the    *)
(* id in the cookie.  So no cookie may ever hold an id other than the one  *)
(* it was issued for, no step of a request may change whom it acts for,    *)
(* and what a request went through on its way - the admin check, the       *)
(* reading of a webhook - must still hold for that user: WInv.             *)
(*                                                                         *)
(* TypeOK and RowsCoverInput: TInv adds what a goroutine carries at each   *)
(* place.  That the rows of the address form are right is a fact about the *)
(* operators of AddressForm (RowsCover).                                   *)
(*                                                                         *)
(* MailServerAtomic and InUseIsStored: SInv adds what a save has written   *)
(* at each of its steps (only the one that holds the mutex has), that      *)
(* server and login differ only between their assignments, and that the    *)
(* sender a mail has read is not newer than the server it will find.       *)
(***************************************************************************)
EXTENDS WebServer, TLAPS

\* A session is for the account whose password was typed.
Honest(session) == /\ session = [user |-> session.user, typed |-> session.typed]
                   /\ session.typed = session.user

\* What a goroutine works on, and for whom.
Proper(j) ==
    /\ j = [at |-> j.at, browser |-> j.browser, as |-> j.as, form |-> j.form]
    /\ Honest(j.as)
    /\ j.at \in Saving => j.as.user \in Admin
    /\ j.at = "page" => j.form.by = j.as.user

Cookies == cookie = [b \in Browser |-> cookie[b]] /\ \A b \in Browser : Honest(cookie[b])
Jobs == job = [s \in Slot |-> job[s]] /\ \A s \in Slot : Proper(job[s])
Hook == hook.by = hook.owner

WInv == Cookies /\ Jobs /\ Hook

-----------------------------------------------------------------------------
\* A goroutine without work acts for nobody.
LEMMA IdleProper == Proper(Idle)
BY DEF Idle, Proper, Honest, NoSession, Saving

\* At the start nobody has a session.
LEMMA InitWInv == Init => WInv
<1> SUFFICES ASSUME Init PROVE WInv
    OBVIOUS
<1> USE DEF Init, SessionInit
<1>1. Cookies
    BY DEF Cookies, Honest, NoSession
<1>2. Jobs
    <2>1. job = [s \in Slot |-> Idle]
        OBVIOUS
    <2> QED
        BY <2>1, IdleProper DEF Jobs
<1>3. Hook
    BY DEF Hook, NoHook
<1> QED
    BY <1>1, <1>2, <1>3 DEF WInv

\* One goroutine moves on: the others keep what they have.
LEMMA OneMoves ==
    ASSUME Jobs, NEW s \in Slot, NEW j, Proper(j), job' = [job EXCEPT ![s] = j]
    PROVE  Jobs'
<1>1. job' = [t \in Slot |-> IF t = s THEN j ELSE job[t]]
    BY DEF Jobs
<1>2. \A t \in Slot : job'[t] = IF t = s THEN j ELSE job[t]
    BY <1>1
<1>3. job' = [t \in Slot |-> job'[t]]
    BY <1>1
<1>4. \A t \in Slot : Proper(job'[t])
    BY <1>2 DEF Jobs
<1> QED
    BY <1>3, <1>4 DEF Jobs, Proper, Honest

\* What Goto and Work make of the whole record.
Moved(s, next, browser, form) ==
    [at |-> next, browser |-> browser, as |-> job[s].as, form |-> form]

\* A job that goes on keeps its session.
LEMMA GotoMoves ==
    ASSUME Jobs, NEW s \in Slot, NEW next, Goto(s, next)
    PROVE  job' = [job EXCEPT ![s] = Moved(s, next, job[s].browser, job[s].form)]
<1>1. /\ job = [t \in Slot |-> job[t]]
      /\ job[s] = [at |-> job[s].at, browser |-> job[s].browser,
                   as |-> job[s].as, form |-> job[s].form]
    BY DEF Jobs, Proper
<1>2. [job[s] EXCEPT !.at = next] = Moved(s, next, job[s].browser, job[s].form)
    BY <1>1 DEF Moved
<1> QED
    BY <1>1, <1>2 DEF Goto

-----------------------------------------------------------------------------
(* The kinds of steps.                                                       *)

\* A place where nothing is asked of the user.
Free(next) == next \notin Saving /\ next # "page"

\* A job that ends.
LEMMA EndKeeps ==
    ASSUME Jobs, NEW s \in Slot, End(s)
    PROVE  Jobs'
BY OneMoves, IdleProper DEF End

\* A job that goes on past no check, or past one that holds.
LEMMA MovedKeeps ==
    ASSUME Jobs, NEW s \in Slot, NEW next, NEW browser, NEW form,
           job' = [job EXCEPT ![s] = Moved(s, next, browser, form)],
           \/ Free(next)
           \/ next \in Saving /\ User(s) \in Admin
           \/ next = "page" /\ form.by = User(s)
    PROVE  Jobs'
<1>1. Proper(job[s])
    BY DEF Jobs
<1>2. "page" \notin Saving
    BY DEF Saving
<1>3. Proper(Moved(s, next, browser, form))
    BY <1>1, <1>2 DEF Proper, Honest, Free, User, Moved
<1> QED
    BY <1>3, OneMoves

\* The same for Goto ...
LEMMA GotoKeeps ==
    ASSUME Jobs, NEW s \in Slot, NEW next, Goto(s, next),
           Free(next) \/ (next \in Saving /\ User(s) \in Admin)
    PROVE  Jobs'
BY GotoMoves, MovedKeeps

\* ... and for Work.
LEMMA WorkKeeps ==
    ASSUME Jobs, NEW s \in Slot, NEW next, NEW form, Work(s, next, form),
           \/ Free(next)
           \/ next \in Saving /\ User(s) \in Admin
           \/ next = "page" /\ form.by = User(s)
    PROVE  Jobs'
<1>1. job' = [job EXCEPT ![s] = Moved(s, next, NoBrowser, form)]
    BY DEF Work, Moved
<1> QED
    BY <1>1, MovedKeeps

-----------------------------------------------------------------------------
(* Every step keeps the invariant.                                           *)

\* A browser's cookie is replaced by an honest one.
LEMMA CookieKeeps ==
    ASSUME Cookies, NEW b \in Browser, NEW session, Honest(session),
           cookie' = [cookie EXCEPT ![b] = session]
    PROVE  Cookies'
<1>1. cookie' = [c \in Browser |-> IF c = b THEN session ELSE cookie[c]]
    BY DEF Cookies
<1>2. \A c \in Browser : cookie'[c] = IF c = b THEN session ELSE cookie[c]
    BY <1>1
<1>3. cookie' = [c \in Browser |-> cookie'[c]]
    BY <1>1
<1>4. \A c \in Browser : Honest(cookie'[c])
    BY <1>2 DEF Cookies
<1> QED
    BY <1>3, <1>4 DEF Cookies, Honest

\* Every step of Sessions keeps the invariant.
LEMMA SessionKeeps ==
    ASSUME WInv, NEW s \in Slot, SessionStep(s)
    PROVE  WInv'
<1> USE DEF WInv
<1>1. Proper(job[s])
    BY DEF Jobs
<1>a. ASSUME cookie' = cookie PROVE Cookies'
    BY <1>a DEF Cookies, Honest
<1>b. ASSUME hook' \in {hook, NoHook} PROVE Hook'
    BY <1>b DEF Hook, NoHook
<1>2. CASE Login(s)
    <2>1. PICK b \in Browser, typed \in Account :
              job' = [job EXCEPT ![s] = [at |-> "greet", browser |-> b,
                                         as |-> [user |-> typed, typed |-> typed],
                                         form |-> NoForm]]
        BY <1>2 DEF Login
    <2>2. Proper([at |-> "greet", browser |-> b,
                  as |-> [user |-> typed, typed |-> typed], form |-> NoForm])
        BY DEF Proper, Honest, Saving
    <2> QED
        BY <1>2, <2>1, <2>2, <1>a, <1>b, OneMoves DEF Login
<1>3. CASE SaveSession(s)
    <2>1. Jobs'
        BY <1>3, EndKeeps DEF SaveSession
    <2>2. Cookies'
        <3>1. CASE job[s].browser \in Browser
            BY <1>1, <1>3, <3>1, CookieKeeps DEF SaveSession, Proper
        <3>2. CASE job[s].browser \notin Browser
            <4>1. cookie' = cookie
                BY <1>3, <3>2 DEF SaveSession, Cookies
            <4> QED
                BY <4>1, <1>a
        <3> QED
            BY <3>1, <3>2
    <2> QED
        BY <1>3, <2>1, <2>2, <1>b DEF SaveSession
<1>4. CASE Authorize(s)
    <2>1. PICK b \in Browser : \E u \in GetUser(cookie[b].user) :
              job' = [job EXCEPT ![s] = [at |-> "handler", browser |-> b,
                                         as |-> [cookie[b] EXCEPT !.user = u],
                                         form |-> NoForm]]
        BY <1>4 DEF Authorize
    <2>2. Honest(cookie[b])
        BY DEF Cookies
    <2>3. [cookie[b] EXCEPT !.user = cookie[b].user] = cookie[b]
        BY <2>2 DEF Honest
    <2>4. job' = [job EXCEPT ![s] = [at |-> "handler", browser |-> b,
                                     as |-> cookie[b], form |-> NoForm]]
        BY <2>1, <2>3 DEF GetUser
    <2>5. Proper([at |-> "handler", browser |-> b, as |-> cookie[b], form |-> NoForm])
        BY <2>2 DEF Proper, Saving
    <2> QED
        BY <1>4, <2>4, <2>5, <1>a, <1>b, OneMoves DEF Authorize
<1>5. CASE Answer(s)
    BY <1>5, <1>a, <1>b, EndKeeps DEF Answer
<1>6. CASE SoftDeleteUser(s)
    BY <1>6, <1>a, <1>b, GotoKeeps DEF SoftDeleteUser, Free, Saving
<1>7. CASE EraseFails(s)
    BY <1>7, <1>a, <1>b, EndKeeps DEF EraseFails
<1>8. CASE DeleteWebhooks(s)
    BY <1>8, <1>a, <1>b, GotoKeeps DEF DeleteWebhooks, Free, Saving
<1>9. CASE DropSession(s)
    <2>1. Cookies'
        <3>1. CASE job[s].browser \in Browser
            <4>1. cookie' = [cookie EXCEPT ![job[s].browser] = NoSession]
                BY <1>9 DEF DropSession
            <4>2. Honest(NoSession)
                BY DEF Honest, NoSession
            <4> QED
                BY <3>1, <4>1, <4>2, CookieKeeps
        <3>2. CASE job[s].browser \notin Browser
            <4>1. cookie' = cookie
                BY <1>9, <3>2 DEF DropSession, Cookies
            <4> QED
                BY <4>1, <1>a
        <3> QED
            BY <3>1, <3>2
    <2> QED
        BY <1>9, <2>1, <1>b, EndKeeps DEF DropSession
<1>10. CASE CreateWebhook(s)
    <2>1. Hook'
        BY <1>1, <1>10 DEF CreateWebhook, Hook, Proper, Honest, User
    <2> QED
        BY <1>10, <2>1, <1>a, EndKeeps DEF CreateWebhook
<1>11. CASE ShowWebhook(s)
    BY <1>11, <1>a, <1>b, WorkKeeps DEF ShowWebhook, GetWebhook, Hook
<1>12. CASE UpdateWebhook(s)
    <2>1. Hook'
        <3>1. CASE ~GetWebhook(s)
            BY <1>12, <3>1, <1>b DEF UpdateWebhook
        <3>2. CASE GetWebhook(s) /\ hook'.by = hook.by
            BY <1>1, <1>12, <3>2 DEF UpdateWebhook, GetWebhook, Hook, Proper, Honest, User
        <3>3. CASE GetWebhook(s) /\ hook'.by # hook.by
            BY <1>1, <1>12, <3>3 DEF UpdateWebhook, GetWebhook, Hook, Proper, Honest, User
        <3> QED
            BY <3>1, <3>2, <3>3
    <2> QED
        BY <1>12, <2>1, <1>a, EndKeeps DEF UpdateWebhook
<1>13. CASE DeleteWebhook(s)
    BY <1>13, <1>a, <1>b, EndKeeps DEF DeleteWebhook
<1> QED
    BY <1>2, <1>3, <1>4, <1>5, <1>6, <1>7, <1>8, <1>9, <1>10, <1>11, <1>12, <1>13
    DEF SessionStep

\* So does every step of SmtpConfig.
LEMMA SmtpKeeps ==
    ASSUME WInv, NEW s \in Slot, SmtpStep(s), UNCHANGED sessionVars
    PROVE  WInv'
<1> USE DEF WInv
<1>1. Cookies' /\ Hook'
    BY DEF sessionVars, Cookies, Honest, Hook
<1>2. Proper(job[s])
    BY DEF Jobs
<1>3. CASE TestConnection(s)
    <2>1. Work(s, "test", NoForm) /\ User(s) \in Admin
        BY <1>3 DEF TestConnection, RequireAdmin
    <2>2. "test" \in Saving
        BY DEF Saving
    <2> QED
        BY <1>1, <2>1, <2>2, WorkKeeps
<1>4. CASE \/ TestFails(s) \/ SaveFails(s) \/ SaveUnanswered(s)
           \/ AssignFrom(s) \/ DialAndSend(s)
    BY <1>1, <1>4, EndKeeps DEF TestFails, SaveFails, SaveUnanswered, AssignFrom,
       DialAndSend
<1>5. CASE Lock(s)
    <2>1. PICK form : Work(s, "statement", form)
        BY <1>5 DEF Lock
    <2>2. User(s) \in Admin
        BY <1>2, <1>5 DEF Lock, At, Proper, Saving, User
    <2> QED
        BY <1>1, <2>1, <2>2, WorkKeeps DEF Saving
<1>6. CASE Save(s) \/ AssignServer(s) \/ AssignLogin(s)
    <2>1. PICK next \in Saving : Goto(s, next)
        BY <1>6 DEF Save, AssignServer, AssignLogin, Saving
    <2>2. User(s) \in Admin
        BY <1>2, <1>6 DEF Save, AssignServer, AssignLogin, At, Proper, Saving, User
    <2> QED
        BY <1>1, <2>1, <2>2, GotoKeeps
<1>7. CASE ReadSender(s) \/ GetSMTPConfig(s)
    <2>1. PICK next, form : Work(s, next, form) /\ next \in {"mail", "send"}
        BY <1>7 DEF ReadSender, GetSMTPConfig
    <2>2. Free(next)
        BY <2>1 DEF Free, Saving
    <2> QED
        BY <1>1, <2>1, <2>2, WorkKeeps
<1> QED
    BY <1>3, <1>4, <1>5, <1>6, <1>7 DEF SmtpStep

\* So does every step.
LEMMA NextWInv == WInv /\ [Next]_vars => WInv'
<1> SUFFICES ASSUME WInv, [Next]_vars PROVE WInv'
    OBVIOUS
<1>1. ASSUME NEW s \in Slot, AddressStep(s) PROVE WInv'
    <2>1. Cookies' /\ Hook'
        BY <1>1 DEF AddressStep, sessionVars, WInv, Cookies, Honest, Hook
    <2>2. CASE SubmitAddress(s)
        <3>1. PICK form : job' = [job EXCEPT ![s] =
                  [at |-> "rows", browser |-> NoBrowser, as |-> NoSession, form |-> form]]
            BY <2>2 DEF SubmitAddress
        <3>2. Proper([at |-> "rows", browser |-> NoBrowser, as |-> NoSession, form |-> form])
            BY DEF Proper, Honest, NoSession, Saving
        <3> QED
            BY <3>1, <3>2, <2>1, OneMoves DEF WInv
    <2>3. CASE CreateAddress(s)
        BY <2>1, <2>3, EndKeeps DEF CreateAddress, WInv
    <2> QED
        BY <1>1, <2>2, <2>3 DEF AddressStep
<1>2. CASE \E a \in Account : CreateUser(a)
    BY <1>2 DEF CreateUser, WInv, Cookies, Jobs, Hook, Proper, Honest
<1>3. ASSUME NEW b \in Browser, Logout(b) PROVE WInv'
    <2>1. Cookies'
        BY <1>3, CookieKeeps DEF Logout, WInv, Honest, NoSession
    <2> QED
        BY <1>3, <2>1 DEF Logout, WInv, Jobs, Hook, Proper, Honest
<1>4. CASE Restart
    <2>1. Cookies' /\ Hook'
        BY <1>4 DEF Restart, WInv, Cookies, Honest, Hook
    <2>2. job' = [s \in Slot |-> Idle]
        BY <1>4 DEF Restart
    <2>3. Jobs'
        BY <2>2, IdleProper DEF Jobs, Proper, Honest
    <2> QED
        BY <2>1, <2>3 DEF WInv
<1>5. CASE UNCHANGED vars
    BY <1>5 DEF vars, sessionVars, WInv, Cookies, Jobs, Hook, Proper, Honest
<1> QED
    BY <1>1, <1>2, <1>3, <1>4, <1>5, SessionKeeps, SmtpKeeps DEF Next

-----------------------------------------------------------------------------
(* The rows of the address form.                                             *)

\* Positions and derivation paths of a key's batch.
LEMMA Positions ==
    ASSUME NEW p \in 1..(2 * Gap)
    PROVE  /\ (p - 1) \div 2 \in 0..(Gap - 1)
           /\ p % 2 = 1 => p = 2 * ((p - 1) \div 2) + 1
           /\ p % 2 # 1 => p = 2 * ((p - 1) \div 2) + 2
BY SMTT(60), GapAssumption

\* The position of the two rows of one index, and back.
LEMMA Paths ==
    ASSUME NEW i \in 0..(Gap - 1)
    PROVE  /\ 2 * i + 1 \in 1..(2 * Gap) /\ (2 * i + 1) % 2 = 1 /\ (2 * i) \div 2 = i
           /\ 2 * i + 2 \in 1..(2 * Gap) /\ (2 * i + 2) % 2 = 0 /\ (2 * i + 1) \div 2 = i
BY SMTT(60), GapAssumption

\* A key yields both chains of every index below the gap, each at its place.
LEMMA KeyRowsCover ==
    ASSUME NEW key \in Key
    PROVE  KeyCovered(key, KeyRows(key))
<1>1. CASE ~key.parses
    BY <1>1 DEF KeyCovered, KeyRows, Nothing, IsInjective
<1>2. CASE key.parses
    <2> DEFINE rows == KeyRows(key)
               index(p) == (p - 1) \div 2
               external(p) == p % 2 = 1
               address(p) == [chain |-> Chain(external(p)), index |-> index(p)]
               row(p) == [address |-> address(p), external |-> external(p), index |-> index(p)]
    <2>1. rows = [p \in 1..(2 * Gap) |-> row(p)]
        BY <1>2 DEF KeyRows, Row, GetAddressFromExtPubKey
    <2>2. /\ DOMAIN rows = 1..(2 * Gap)
          /\ \A p \in 1..(2 * Gap) : rows[p] = row(p)
        BY <2>1
    <2>3. \A p : /\ row(p).address = address(p) /\ row(p).external = external(p)
                 /\ row(p).index = index(p)
                 /\ address(p).chain = Chain(external(p)) /\ address(p).index = index(p)
        OBVIOUS
    <2>4. \A p : Chain(external(p)) = 0 <=> external(p)
        BY DEF Chain
    <2> HIDE DEF rows, row, address
    <2>5. {rows[p].address : p \in DOMAIN rows} = [chain : {0, 1}, index : 0..(Gap - 1)]
        <3> DEFINE All == [chain : {0, 1}, index : 0..(Gap - 1)]
        <3>1. ASSUME NEW p \in 1..(2 * Gap) PROVE address(p) \in All
            <4>1. Chain(external(p)) \in {0, 1}
                BY DEF Chain
            <4> QED
                BY <4>1, Positions DEF address
        <3>2. ASSUME NEW a \in All PROVE \E p \in 1..(2 * Gap) : address(p) = a
            <4>1. a = [chain |-> a.chain, index |-> a.index]
                  /\ a.chain \in {0, 1} /\ a.index \in 0..(Gap - 1)
                OBVIOUS
            <4>2. CASE a.chain = 0
                <5>1. external(2 * a.index + 1) /\ index(2 * a.index + 1) = a.index
                    BY <4>1, Paths
                <5> QED
                    BY <4>1, <4>2, <5>1, Paths DEF address, Chain
            <4>3. CASE a.chain = 1
                <5>1. ~external(2 * a.index + 2) /\ index(2 * a.index + 2) = a.index
                    BY <4>1, Paths
                <5> QED
                    BY <4>1, <4>3, <5>1, Paths DEF address, Chain
            <4> QED
                BY <4>1, <4>2, <4>3
        <3> HIDE DEF All
        <3>3. {rows[p].address : p \in DOMAIN rows} = {address(p) : p \in 1..(2 * Gap)}
            BY <2>2, <2>3
        <3>4. {address(p) : p \in 1..(2 * Gap)} = All
            BY <3>1, <3>2
        <3> QED
            BY <3>3, <3>4 DEF All
    <2>6. IsInjective(rows)
        <3>1. ASSUME NEW p \in 1..(2 * Gap), NEW q \in 1..(2 * Gap), rows[p] = rows[q]
              PROVE  p = q
            <4>1. index(p) = index(q) /\ external(p) = external(q)
                BY <3>1, <2>2, <2>3
            <4> QED
                BY <4>1, Positions
        <3> QED
            BY <2>2, <3>1 DEF IsInjective
    <2>7. \A p \in DOMAIN rows : /\ rows[p].external <=> rows[p].address.chain = 0
                                 /\ rows[p].index = rows[p].address.index
        <3> SUFFICES ASSUME NEW p \in 1..(2 * Gap)
                     PROVE  /\ rows[p].external <=> rows[p].address.chain = 0
                            /\ rows[p].index = rows[p].address.index
            BY <2>2
        <3>1. rows[p].external = external(p) /\ rows[p].address = address(p)
              /\ rows[p].index = index(p)
            BY <2>2, <2>3
        <3>2. address(p).chain = 0 <=> external(p)
            BY <2>3, <2>4
        <3>3. rows[p].index = rows[p].address.index
            BY <3>1, <2>3
        <3>4. rows[p].external <=> rows[p].address.chain = 0
            BY <3>1, <3>2, Zenon
        <3> QED
            BY <3>3, <3>4
    <2> QED
        BY <1>2, <2>5, <2>6, <2>7 DEF KeyCovered, rows
<1> QED
    BY <1>1, <1>2

\* A descriptor yields its addresses up to the end of the range, or nothing
\* when Core refuses it.
LEMMA DescriptorRowsCover ==
    ASSUME NEW d \in Descriptor
    PROVE  DescriptorCovered(d, DescriptorRows(d))
<1> DEFINE addresses == GetAddressesFromDescriptor(d)
           last == IF d.range THEN Gap ELSE 0
           watched == d.solvable /\ ~d.private /\ d.answers = 2
           given == [d EXCEPT !.checksum = TRUE]
           address(p) == [chain |-> 0, index |-> p - 1]
<1>0. d.answers \in 0..2 /\ d.range \in BOOLEAN
    BY DEF Descriptor
<1>1. DeriveAddresses(given, IF d.range THEN <<Gap>> ELSE NoRange)
          = [p \in 1..(last + 1) |-> address(p)]
    <2>1. given.checksum /\ given.range = d.range
        BY DEF Descriptor
    <2>2. <<Gap>> # NoRange /\ <<Gap>>[1] = Gap
        BY DEF NoRange
    <2> QED
        BY <1>0, <2>1, <2>2 DEF DeriveAddresses
<1>2. CASE watched
    <2>1. addresses = [p \in 1..(last + 1) |-> address(p)]
        BY <1>1, <1>2 DEF GetAddressesFromDescriptor, Request, Nothing
    <2> DEFINE rows == DescriptorRows(d)
               row(p) == [address |-> address(p), external |-> FALSE, index |-> 0]
    <2>2. rows = [p \in 1..(last + 1) |-> row(p)]
        BY <2>1 DEF DescriptorRows, Row
    <2>3. last \in Nat
        BY GapAssumption
    <2>4. /\ DOMAIN rows = 1..(last + 1)
          /\ \A p \in 1..(last + 1) : rows[p] = row(p)
        BY <2>2
    <2>5. \A p : row(p).address.index = p - 1
        OBVIOUS
    <2> HIDE DEF rows, row, last
    <2>6. rows # Nothing
        BY <2>3, <2>4 DEF Nothing
    <2>7. {rows[p].address.index : p \in DOMAIN rows} = 0..last
        <3>1. {rows[p].address.index : p \in DOMAIN rows} = {p - 1 : p \in 1..(last + 1)}
            BY <2>4, <2>5
        <3>2. \A n \in 0..last : n + 1 \in 1..(last + 1) /\ (n + 1) - 1 = n
            BY <2>3
        <3>3. {p - 1 : p \in 1..(last + 1)} \subseteq 0..last
            BY <2>3
        <3>4. 0..last \subseteq {p - 1 : p \in 1..(last + 1)}
            BY <3>2
        <3> QED
            BY <3>1, <3>3, <3>4
    <2>8. IsInjective(rows)
        BY <2>3, <2>4, <2>5 DEF IsInjective
    <2>9. 0..last = IF d.range THEN 0..Gap ELSE {0}
        BY DEF last
    <2>10. ~(~d.solvable \/ d.private \/ d.answers < 2)
        BY <1>2
    <2> QED
        BY <2>6, <2>7, <2>8, <2>9, <2>10 DEF DescriptorCovered, rows
<1>3. CASE ~watched
    <2>1. addresses = Nothing
        BY <1>0, <1>3 DEF GetAddressesFromDescriptor, Request, Nothing
    <2>2. DescriptorRows(d) = Nothing
        BY <2>1 DEF DescriptorRows, Nothing
    <2> QED
        BY <1>0, <1>3, <2>2 DEF DescriptorCovered, Nothing, IsInjective
<1> QED
    BY <1>2, <1>3

\* So whatever is typed yields the addresses it stands for.
LEMMA RowsCover ==
    ASSUME NEW input \in Form
    PROVE  Covered(input, Rows(input))
<1>1. CASE input \in Key
    <2>1. input.kind = "key"
        BY <1>1 DEF Key
    <2> QED
        BY <1>1, <2>1, KeyRowsCover DEF Covered, Rows
<1>2. CASE input \in Descriptor
    <2>1. input.kind = "descriptor"
        BY <1>2 DEF Descriptor
    <2> QED
        BY <1>2, <2>1, DescriptorRowsCover DEF Covered, Rows
<1>3. CASE input \in Text
    <2>1. input.kind = "text"
        BY <1>3 DEF Text
    <2> QED
        BY <1>3, <2>1 DEF Covered, Rows
<1> QED
    BY <1>1, <1>2, <1>3, FormAssumption

-----------------------------------------------------------------------------
(* The types, and who holds the mutex.                                       *)

\* What a goroutine may be at: a handler runs for an account, a mail and a
\* save carry a configuration, rows are the ones of their input.
Legal(j, config) ==
    /\ j.as.user \in Account \cup {NoAccount}
    /\ j.at = "handler" => j.as.user \in Account
    /\ j.at \in Locked \cup {"mail", "send"} => j.form \in config
    /\ j.at = "idle" <=> j = Idle
    /\ j.at = "rows" => j.form.input \in Form /\ j.form.rows = Rows(j.form.input)

LegalJobs ==
    \A s \in Slot : Legal(job[s], Config) /\ (writer = s <=> job[s].at \in Locked)

UserTypes ==
    /\ users \in [Account -> {"none", "live", "deleted"}]
    /\ \A a, b \in Account : users[a] = "live" /\ users[b] = "live" /\ NameOf[a] = NameOf[b]
            => a = b
CookieTypes == \A b \in Browser : cookie[b].user \in Account \cup {NoAccount}
HookTypes == hook = NoHook \/ hook \in [owner : Account, by : Account]
SmtpTypes == {table, mem, env} \subseteq Config /\ saves \in 0..MaxSaves /\ unsure \in BOOLEAN

TInv == LegalJobs /\ UserTypes /\ CookieTypes /\ HookTypes /\ SmtpTypes

\* A goroutine without work has no fields to be wrong.
LEMMA IdleLegal == ASSUME NEW config PROVE Legal(Idle, config)
BY DEF Idle, Legal, NoSession, Locked

\* Configurations are numbered upwards.
LEMMA ConfigGrows ==
    ASSUME saves \in Nat, saves' \in Nat, saves <= saves'
    PROVE  Config \subseteq Config'
<1>1. Field \subseteq Field'
    BY DEF Field
<1> QED
    BY <1>1 DEF Config

\* One goroutine moves on.
LEMMA OneLegal ==
    ASSUME Jobs, LegalJobs, SmtpTypes, NEW s \in Slot, NEW j,
           job' = [job EXCEPT ![s] = j], Legal(j, Config'),
           saves' \in Nat, saves <= saves',
           writer' = s <=> j.at \in Locked,
           \A t \in Slot \ {s} : writer' = t <=> writer = t
    PROVE  LegalJobs'
<1>1. Config \subseteq Config'
    BY ConfigGrows DEF SmtpTypes
<1> SUFFICES ASSUME NEW t \in Slot
             PROVE  Legal(job'[t], Config') /\ (writer' = t <=> job'[t].at \in Locked)
    BY DEF LegalJobs, Locked
<1>2. job'[t] = IF t = s THEN j ELSE job[t]
    BY DEF Jobs
<1>3. CASE t = s
    BY <1>2, <1>3
<1>4. CASE t # s
    <2>1. job'[t] = job[t] /\ (writer' = t <=> writer = t)
        BY <1>2, <1>4
    <2>2. Legal(job[t], Config) /\ (writer = t <=> job[t].at \in Locked)
        BY DEF LegalJobs
    <2>3. Legal(job[t], Config')
        BY <1>1, <2>2 DEF Legal
    <2> QED
        BY <2>1, <2>2, <2>3
<1> QED
    BY <1>3, <1>4

\* A goroutine moves on that has nothing to do with the settings.
Aside(s, j) ==
    /\ job' = [job EXCEPT ![s] = j]
    /\ job[s].at \notin Locked /\ j.at \notin Locked \cup {"mail", "send"}
    /\ Legal(j, Config)
    /\ UNCHANGED smtpVars

\* A job that moves on outside the mutex disturbs no type.
LEMMA AsideLegal ==
    ASSUME Jobs, LegalJobs, SmtpTypes, NEW s \in Slot, NEW j, Aside(s, j)
    PROVE  LegalJobs' /\ SmtpTypes'
<1>1. UNCHANGED <<env, table, mem, writer, saves, unsure>>
    BY DEF Aside, smtpVars
<1>2. Config' = Config /\ Field' = Field
    BY <1>1 DEF Config, Field
<1>3. SmtpTypes'
    BY <1>1, <1>2 DEF SmtpTypes
<1>4. saves' \in Nat /\ saves <= saves'
    BY <1>1 DEF SmtpTypes
<1>5. writer' = s <=> j.at \in Locked
    <2>1. writer # s
        BY DEF LegalJobs, Aside
    <2> QED
        BY <1>1, <2>1 DEF Aside
<1>6. LegalJobs'
    BY <1>1, <1>2, <1>4, <1>5, OneLegal DEF Aside
<1> QED
    BY <1>3, <1>6

\* A job that goes on to a handler is one of these ...
LEMMA MovedLegal ==
    ASSUME Jobs, LegalJobs, NEW s \in Slot, NEW next, NEW browser, NEW form,
           next \notin Locked \cup {"mail", "send", "idle", "rows", "handler"},
           job[s].at \notin Locked, UNCHANGED smtpVars,
           job' = [job EXCEPT ![s] = Moved(s, next, browser, form)]
    PROVE  \E j : Aside(s, j)
<1>1. Legal(job[s], Config)
    BY DEF LegalJobs
<1>2. /\ Moved(s, next, browser, form).at = next
      /\ Moved(s, next, browser, form).as = job[s].as
    BY DEF Moved
<1>3. Legal(Moved(s, next, browser, form), Config)
    BY <1>1, <1>2 DEF Legal, Idle
<1> QED
    BY <1>2, <1>3 DEF Aside

\* ... and so is a job that ends.
LEMMA EndLegal ==
    ASSUME NEW s \in Slot, job[s].at \notin Locked, UNCHANGED smtpVars, End(s)
    PROVE  \E j : Aside(s, j)
<1>1. Idle.at = "idle" /\ "idle" \notin Locked \cup {"mail", "send"}
    BY DEF Idle, Locked
<1> QED
    BY <1>1, IdleLegal DEF End, Aside

\* What a step of a session makes of its goroutine.
LEMMA SessionAside ==
    ASSUME WInv, TInv, NEW s \in Slot, SessionStep(s), UNCHANGED smtpVars
    PROVE  \E j : Aside(s, j)
<1> USE DEF WInv, TInv
<1>0. "idle" \notin Locked /\ "greet" \notin Locked /\ "handler" \notin Locked
      /\ "page" \notin Locked
      /\ "erase" \notin Locked /\ "leave" \notin Locked
    BY DEF Locked
<1>1. Idle.at = "idle"
    BY DEF Idle
<1>2. CASE Login(s)
    <2>1. PICK b \in Browser, u \in Account :
              job' = [job EXCEPT ![s] = [at |-> "greet", browser |-> b,
                                         as |-> [user |-> u, typed |-> u], form |-> NoForm]]
        BY <1>2 DEF Login, GetUserByUsername
    <2> DEFINE j == [at |-> "greet", browser |-> b,
                     as |-> [user |-> u, typed |-> u], form |-> NoForm]
    <2>2. j.at = "greet" /\ j.as.user \in Account
        OBVIOUS
    <2>3. job' = [job EXCEPT ![s] = j]
        BY <2>1
    <2> HIDE DEF j
    <2>4. Legal(j, Config)
        BY <1>0, <1>1, <2>2 DEF Legal
    <2>5. job[s].at \notin Locked
        BY <1>0, <1>1, <1>2 DEF Login
    <2> QED
        BY <1>0, <2>2, <2>3, <2>4, <2>5 DEF Aside
<1>3. CASE Authorize(s)
    <2>1. PICK b \in Browser : \E u \in GetUser(cookie[b].user) :
              job' = [job EXCEPT ![s] = [at |-> "handler", browser |-> b,
                                         as |-> [cookie[b] EXCEPT !.user = u],
                                         form |-> NoForm]]
        BY <1>3 DEF Authorize
    <2>2. PICK u \in Account :
              /\ u = cookie[b].user
              /\ job' = [job EXCEPT ![s] = [at |-> "handler", browser |-> b,
                                            as |-> [cookie[b] EXCEPT !.user = u],
                                            form |-> NoForm]]
        BY <2>1 DEF GetUser
    <2>3. cookie[b] = [user |-> cookie[b].user, typed |-> cookie[b].typed]
        BY DEF Cookies, Honest
    <2>4. [cookie[b] EXCEPT !.user = u] = cookie[b]
        BY <2>2, <2>3
    <2> DEFINE j == [at |-> "handler", browser |-> b, as |-> cookie[b], form |-> NoForm]
    <2>5. job' = [job EXCEPT ![s] = j]
        BY <2>2, <2>4
    <2>6. j.at = "handler" /\ j.as.user \in Account
        BY <2>2
    <2> HIDE DEF j
    <2>7. Legal(j, Config)
        BY <1>0, <1>1, <2>6 DEF Legal
    <2>8. job[s].at \notin Locked
        BY <1>0, <1>1, <1>3 DEF Authorize
    <2> QED
        BY <1>0, <2>5, <2>6, <2>7, <2>8 DEF Aside
<1>4. CASE SaveSession(s) \/ Answer(s) \/ EraseFails(s) \/ DropSession(s)
           \/ CreateWebhook(s) \/ UpdateWebhook(s) \/ DeleteWebhook(s)
    <2>1. End(s) /\ job[s].at \notin Locked
        BY <1>0, <1>4 DEF SaveSession, Answer, EraseFails, DropSession,
                          CreateWebhook, UpdateWebhook, DeleteWebhook, At
    <2> QED
        BY <2>1, EndLegal
<1>5. CASE SoftDeleteUser(s) \/ DeleteWebhooks(s)
    <2>1. PICK next \in {"erase", "leave"} : Goto(s, next)
        BY <1>5 DEF SoftDeleteUser, DeleteWebhooks
    <2>2. job[s].at \notin Locked
        BY <1>0, <1>5 DEF SoftDeleteUser, DeleteWebhooks, At
    <2>3. next \notin Locked \cup {"mail", "send", "idle", "rows", "handler"}
        BY <1>0
    <2> QED
        BY <2>1, <2>2, <2>3, GotoMoves, MovedLegal
<1>6. CASE ShowWebhook(s)
    <2>1. job' = [job EXCEPT ![s] = Moved(s, "page", NoBrowser, hook)]
        BY <1>6 DEF ShowWebhook, Work, Moved
    <2>2. job[s].at \notin Locked
        BY <1>0, <1>6 DEF ShowWebhook, At
    <2>3. "page" \notin Locked \cup {"mail", "send", "idle", "rows", "handler"}
        BY <1>0
    <2> QED
        BY <2>1, <2>2, <2>3, MovedLegal
<1> QED
    BY <1>2, <1>3, <1>4, <1>5, <1>6 DEF SessionStep

\* And a step of the address form.
LEMMA AddressAside ==
    ASSUME NEW s \in Slot, AddressStep(s)
    PROVE  \E j : Aside(s, j)
<1>1. CASE CreateAddress(s)
    BY <1>1, EndLegal DEF AddressStep, CreateAddress, At, Locked
<1>2. CASE SubmitAddress(s)
    <2>1. PICK input \in Form :
              job' = [job EXCEPT ![s] =
                  [at |-> "rows", browser |-> NoBrowser, as |-> NoSession,
                   form |-> [input |-> input, rows |-> Rows(input)]]]
        BY <1>2 DEF SubmitAddress
    <2> DEFINE j == [at |-> "rows", browser |-> NoBrowser, as |-> NoSession,
                     form |-> [input |-> input, rows |-> Rows(input)]]
    <2>2. /\ j.at = "rows" /\ j.as.user = NoAccount
          /\ j.form.input = input /\ j.form.rows = Rows(input)
        BY DEF NoSession
    <2>3. job' = [job EXCEPT ![s] = j]
        BY <2>1
    <2> HIDE DEF j
    <2>4. Legal(j, Config)
        BY <2>2 DEF Legal, Locked, Idle
    <2>5. job[s].at \notin Locked /\ "rows" \notin Locked
        BY <1>2 DEF SubmitAddress, At, Locked
    <2> QED
        BY <2>2, <2>3, <2>4, <2>5 DEF AddressStep, Aside
<1> QED
    BY <1>1, <1>2 DEF AddressStep

\* What it makes of the table of users, the cookies and the webhook.
LEMMA SessionTypes ==
    ASSUME WInv, TInv, NEW s \in Slot, SessionStep(s)
    PROVE  UserTypes' /\ CookieTypes' /\ HookTypes'
<1> USE DEF WInv, TInv
<1>0. Proper(job[s]) /\ Legal(job[s], Config)
    BY DEF Jobs, LegalJobs
<1>a. users' = users => UserTypes'
    BY DEF UserTypes
<1>b. cookie' = cookie => CookieTypes'
    BY DEF CookieTypes
<1>c. hook' \in {hook, NoHook} => HookTypes'
    BY DEF HookTypes
<1>d. ASSUME NEW b, NEW session, cookie' = [cookie EXCEPT ![b] = session],
             session.user \in Account \cup {NoAccount}
      PROVE  CookieTypes'
    <2>1. \A c \in Browser : cookie'[c] = IF c = b THEN session ELSE cookie[c]
        BY <1>d DEF Cookies
    <2> QED
        BY <1>d, <2>1 DEF CookieTypes
<1>1. CASE Login(s) \/ Authorize(s) \/ Answer(s) \/ EraseFails(s) \/ ShowWebhook(s)
    BY <1>1, <1>a, <1>b, <1>c DEF Login, Authorize, Answer, EraseFails, ShowWebhook
<1>2. CASE SaveSession(s)
    BY <1>0, <1>2, <1>a, <1>c, <1>d DEF SaveSession, Legal
<1>3. CASE DropSession(s)
    <2>1. NoSession.user = NoAccount
        BY DEF NoSession
    <2> QED
        BY <2>1, <1>3, <1>a, <1>c, <1>d DEF DropSession
<1>4. CASE SoftDeleteUser(s)
    <2>1. users' = [a \in Account |-> IF a = User(s) THEN "deleted" ELSE users[a]]
        BY <1>4 DEF SoftDeleteUser, UserTypes
    <2>2. UserTypes'
        BY <2>1 DEF UserTypes
    <2> QED
        BY <2>2, <1>4, <1>b, <1>c DEF SoftDeleteUser
<1>5. CASE DeleteWebhooks(s) \/ DeleteWebhook(s)
    BY <1>5, <1>a, <1>b, <1>c DEF DeleteWebhooks, DeleteWebhook
<1>6. CASE CreateWebhook(s)
    <2>1. hook' = [owner |-> User(s), by |-> job[s].as.typed]
        BY <1>6 DEF CreateWebhook
    <2>2. User(s) \in Account /\ job[s].as.typed = User(s)
        BY <1>0, <1>6 DEF CreateWebhook, Legal, Proper, Honest, User, At
    <2>3. HookTypes'
        BY <2>1, <2>2 DEF HookTypes
    <2> QED
        BY <2>3, <1>6, <1>a, <1>b DEF CreateWebhook
<1>7. CASE UpdateWebhook(s)
    <2>1. CASE ~GetWebhook(s)
        BY <1>7, <2>1, <1>a, <1>b, <1>c DEF UpdateWebhook
    <2>2. CASE GetWebhook(s)
        <3>1. User(s) \in Account /\ job[s].as.typed = User(s)
            BY <1>0, <1>7 DEF UpdateWebhook, Legal, Proper, Honest, User, At
        <3>2. hook \in [owner : Account, by : Account]
            BY <2>2, <3>1, NoneAssumption DEF GetWebhook, HookTypes, NoHook
        <3>3. hook' = [hook EXCEPT !.by = job[s].as.typed]
            BY <1>7, <2>2 DEF UpdateWebhook
        <3>4. HookTypes'
            BY <3>1, <3>2, <3>3 DEF HookTypes
        <3> QED
            BY <3>4, <1>7, <1>a, <1>b DEF UpdateWebhook
    <2> QED
        BY <2>1, <2>2
<1> QED
    BY <1>1, <1>2, <1>3, <1>4, <1>5, <1>6, <1>7 DEF SessionStep


-----------------------------------------------------------------------------
(* The settings.                                                             *)

\* The slots that hold a configuration that was read or submitted.
LEMMA CarryLegal ==
    ASSUME LegalJobs, NEW s \in Slot, NEW j, NEW config, j.as = job[s].as,
           j.at \in Locked \cup {"mail", "send"}, j.form \in config
    PROVE  Legal(j, config)
<1>1. Legal(job[s], Config)
    BY DEF LegalJobs
<1>2. j.at \notin {"idle", "handler", "rows"}
    BY DEF Locked
<1>3. Idle.at = "idle"
    BY DEF Idle
<1>4. j.at = "idle" <=> j = Idle
    BY <1>2, <1>3
<1> QED
    BY <1>1, <1>2, <1>4 DEF Legal

\* Steps of saves that go on: the configuration stays the one submitted.
LEMMA GotoLocked ==
    ASSUME Jobs, LegalJobs, SmtpTypes, NEW s \in Slot, NEW next \in Locked, Goto(s, next),
           job[s].at \in Locked, UNCHANGED <<saves, writer>>
    PROVE  LegalJobs'
<1>1. job' = [job EXCEPT ![s] = Moved(s, next, job[s].browser, job[s].form)]
    BY GotoMoves
<1> DEFINE j == Moved(s, next, job[s].browser, job[s].form)
<1>2. j.at = next /\ j.as = job[s].as /\ j.form = job[s].form
    BY DEF Moved
<1>3. job[s].form \in Config /\ writer = s
    BY DEF LegalJobs, Legal
<1>4. Config' = Config
    BY DEF Config, Field
<1> HIDE DEF j
<1>5. Legal(j, Config)
    BY <1>2, <1>3, CarryLegal
<1>6. saves' \in Nat /\ saves <= saves'
    BY DEF SmtpTypes
<1> QED
    BY <1>1, <1>2, <1>3, <1>4, <1>5, <1>6, OneLegal DEF j

\* The writer ends and unlocks.
LEMMA EndLocked ==
    ASSUME Jobs, LegalJobs, SmtpTypes, NEW s \in Slot, End(s),
           job[s].at \in Locked, UNCHANGED saves, writer' = NoSlot
    PROVE  LegalJobs'
<1>1. writer = s
    BY DEF LegalJobs
<1>2. saves' \in Nat /\ saves <= saves'
    BY DEF SmtpTypes
<1>3. Idle.at \notin Locked
    BY DEF Idle, Locked
<1>4. Legal(Idle, Config')
    BY IdleLegal
<1>5. \A t \in Slot : writer' # t
    BY NoSlotAssumption
<1> QED
    BY <1>1, <1>2, <1>3, <1>4, <1>5, OneLegal DEF End

\* A mail carries what it read of a configuration.
LEMMA WorkReads ==
    ASSUME Jobs, LegalJobs, SmtpTypes, NEW s \in Slot, NEW next \in {"mail", "send"},
           NEW form \in Config, Work(s, next, form),
           job[s].at \notin Locked, UNCHANGED smtpVars
    PROVE  LegalJobs' /\ SmtpTypes'
<1> DEFINE j == Moved(s, next, NoBrowser, form)
<1>1. job' = [job EXCEPT ![s] = j]
    BY DEF Work, Moved
<1>2. j.at = next /\ j.as = job[s].as /\ j.form = form
    BY DEF Moved
<1>3. UNCHANGED <<env, table, mem, writer, saves, unsure>>
    BY DEF smtpVars
<1>4. Config' = Config
    BY <1>3 DEF Config, Field
<1> HIDE DEF j
<1>5. Legal(j, Config)
    BY <1>2, CarryLegal
<1>6. saves' \in Nat /\ saves <= saves'
    BY <1>3 DEF SmtpTypes
<1>7. writer' = s <=> j.at \in Locked
    BY <1>2, <1>3 DEF LegalJobs, Locked
<1>8. LegalJobs'
    BY <1>1, <1>3, <1>4, <1>5, <1>6, <1>7, OneLegal
<1>9. SmtpTypes'
    BY <1>3, <1>4 DEF SmtpTypes
<1> QED
    BY <1>8, <1>9

\* A field assigned from a configuration is one of a configuration.
LEMMA AssignTypes ==
    ASSUME SmtpTypes, NEW field \in {"server", "login", "from"}, NEW s \in Slot,
           job[s].form \in Config, Assign(field, s)
    PROVE  mem' \in Config
<1>1. job[s].form[field] \in Field
    BY DEF Config
<1>2. mem \in Config
    BY DEF SmtpTypes
<1> QED
    BY <1>1, <1>2 DEF Assign, Config

\* Every step of a save or of a mail keeps the types.
LEMMA SmtpLegal ==
    ASSUME WInv, TInv, NEW s \in Slot, SmtpStep(s)
    PROVE  LegalJobs' /\ SmtpTypes'
<1> USE DEF WInv, TInv
<1>0. Legal(job[s], Config) /\ (writer = s <=> job[s].at \in Locked)
    BY DEF LegalJobs
<1>1. CASE TestConnection(s)
    <2>1. job' = [job EXCEPT ![s] = Moved(s, "test", NoBrowser, NoForm)]
        BY <1>1 DEF TestConnection, Work, Moved
    <2>2. /\ job[s].at \notin Locked
          /\ "test" \notin Locked \cup {"mail", "send", "idle", "rows", "handler"}
        BY <1>1 DEF TestConnection, At, Locked
    <2>3. PICK j : Aside(s, j)
        BY <1>1, <2>1, <2>2, MovedLegal DEF TestConnection
    <2> QED
        BY <2>3, AsideLegal
<1>2. CASE TestFails(s) \/ DialAndSend(s)
    <2>1. job[s].at \notin Locked /\ End(s) /\ UNCHANGED smtpVars
        BY <1>2 DEF TestFails, DialAndSend, At, Locked
    <2>2. PICK j : Aside(s, j)
        BY <2>1, EndLegal
    <2> QED
        BY <2>2, AsideLegal
<1>3. CASE Lock(s)
    <2>1. /\ saves < MaxSaves /\ saves' = saves + 1 /\ writer' = s /\ writer = NoSlot
          /\ UNCHANGED <<env, table, mem, unsure>>
        BY <1>3 DEF Lock, LockFree
    <2>2. PICK sender \in {saves + 1} \cup {Unset : n \in {saves + 1} \cap Senderless} :
              Work(s, "statement", Configuration(saves + 1, sender))
        BY <1>3 DEF Lock
    <2> DEFINE form == Configuration(saves + 1, sender)
               j == Moved(s, "statement", NoBrowser, form)
    <2>3. saves' \in 0..MaxSaves /\ saves' \in Nat /\ saves \in Nat /\ saves <= saves'
        BY <2>1, SavesAssumption DEF SmtpTypes
    <2>4. form \in Config'
        <3>1. saves + 1 \in Field' /\ sender \in Field'
            BY <2>1, <2>2, <2>3 DEF Field, Unset
        <3> QED
            BY <3>1 DEF Configuration, Config
    <2>5. /\ job' = [job EXCEPT ![s] = j]
          /\ j.at = "statement" /\ j.as = job[s].as /\ j.form = form
        BY <2>2 DEF Work, Moved
    <2>6. "statement" \in Locked
        BY DEF Locked
    <2> HIDE DEF j, form
    <2>7. Legal(j, Config')
        BY <2>4, <2>5, <2>6, CarryLegal
    <2>8. \A t \in Slot \ {s} : writer' = t <=> writer = t
        BY <2>1, NoSlotAssumption
    <2>9. LegalJobs'
        BY <2>1, <2>3, <2>5, <2>6, <2>7, <2>8, OneLegal
    <2>10. SmtpTypes'
        BY <2>1, <2>3, ConfigGrows DEF SmtpTypes
    <2> QED
        BY <2>9, <2>10
<1>4. CASE SaveFails(s) \/ SaveUnanswered(s) \/ AssignFrom(s)
    <2>1. /\ job[s].at \in Locked /\ End(s) /\ writer' = NoSlot /\ UNCHANGED <<env, saves>>
          /\ unsure' \in {unsure, TRUE, FALSE} /\ table' \in {table, job[s].form}
        BY <1>4 DEF SaveFails, SaveUnanswered, AssignFrom, At, Locked
    <2>2. job[s].form \in Config /\ Config' = Config
        BY <1>0, <2>1 DEF Legal, Config, Field
    <2>3. mem' \in Config
        BY <1>4, <2>2, AssignTypes DEF SaveFails, SaveUnanswered, AssignFrom, SmtpTypes
    <2>4. SmtpTypes'
        BY <2>1, <2>2, <2>3 DEF SmtpTypes
    <2> QED
        BY <2>1, <2>4, EndLocked
<1>5. CASE Save(s) \/ AssignServer(s) \/ AssignLogin(s)
    <2>1. PICK next \in Locked : Goto(s, next)
        BY <1>5 DEF Save, AssignServer, AssignLogin, Locked
    <2>2. /\ job[s].at \in Locked /\ UNCHANGED <<env, saves, writer, unsure>>
          /\ table' \in {table, job[s].form}
        BY <1>5 DEF Save, AssignServer, AssignLogin, At, Locked
    <2>3. job[s].form \in Config /\ Config' = Config
        BY <1>0, <2>2 DEF Legal, Config, Field
    <2>4. mem' \in Config
        BY <1>5, <2>3, AssignTypes DEF Save, AssignServer, AssignLogin, SmtpTypes
    <2>5. SmtpTypes'
        BY <2>2, <2>3, <2>4 DEF SmtpTypes
    <2> QED
        BY <2>1, <2>2, <2>5, GotoLocked
<1>6. CASE ReadSender(s)
    <2>1. [NoConfig EXCEPT !.from = mem.from] \in Config
        BY DEF SmtpTypes, NoConfig, Configuration, Config, Field, Unset
    <2>2. job[s].at \notin Locked
        BY <1>6 DEF ReadSender, Idle, Locked
    <2> QED
        BY <1>6, <2>1, <2>2, WorkReads DEF ReadSender
<1>7. CASE GetSMTPConfig(s)
    <2>1. job[s].at = "mail" /\ job[s].form \in Config
        BY <1>0, <1>7 DEF GetSMTPConfig, At, Legal
    <2>2. [mem EXCEPT !.from = job[s].form.from] \in Config
        BY <2>1 DEF SmtpTypes, Config
    <2>3. job[s].at \notin Locked
        BY <2>1 DEF Locked
    <2> QED
        BY <1>7, <2>2, <2>3, WorkReads DEF GetSMTPConfig
<1> QED
    BY <1>1, <1>2, <1>3, <1>4, <1>5, <1>6, <1>7 DEF SmtpStep

\* What a restart loads has the fields of a configuration.
LEMMA InitConfigTypes ==
    ASSUME {table, env} \subseteq Config, NEW answered
    PROVE  InitConfig(answered) \in Config
<1>1. env \in Config /\ table \in Config
    OBVIOUS
<1>2. /\ env.server \in Field /\ env.login \in Field /\ env.from \in Field
      /\ table.server \in Field /\ table.login \in Field /\ table.from \in Field
      /\ DOMAIN env = {"server", "login", "from"}
    BY <1>1 DEF Config
<1>3. ReadDBConfig = [server |-> IF env.server = Unset THEN table.server ELSE env.server,
                      login |-> IF env.login = Unset THEN table.login ELSE env.login,
                      from |-> IF env.from = Unset THEN table.from ELSE env.from]
    BY <1>2 DEF ReadDBConfig
<1>4. ReadDBConfig \in Config
    BY <1>2, <1>3 DEF Config
<1> QED
    BY <1>1, <1>4 DEF InitConfig

\* The start has the types.
LEMMA InitTInv == Init => TInv
<1> SUFFICES ASSUME Init PROVE TInv
    OBVIOUS
<1> USE DEF Init, SessionInit, SmtpInit
<1>1. LegalJobs
    <2>1. \A s \in Slot : job[s] = Idle /\ Idle.at \notin Locked /\ writer # s
        BY NoSlotAssumption DEF Idle, Locked
    <2> QED
        BY <2>1, IdleLegal DEF LegalJobs
<1>2. UserTypes /\ CookieTypes /\ HookTypes
    BY DEF UserTypes, CookieTypes, HookTypes, NoSession
<1>3. SmtpTypes
    <2>1. {Env, Unset} \subseteq Field
        BY DEF Field, Unset
    <2>2. \A c, d \in {Env, Unset} : Configuration(c, d) \in Config
        BY <2>1 DEF Configuration, Config
    <2>3. env \in Config /\ table \in Config /\ mem \in Config
        BY <2>2 DEF NoConfig
    <2>4. {table, mem, env} \subseteq Config
        BY <2>3
    <2>5. saves = 0 /\ unsure = FALSE
        OBVIOUS
    <2> HIDE DEF Init, SessionInit, SmtpInit
    <2>6. saves \in 0..MaxSaves
        BY <2>5, SavesAssumption
    <2>7. unsure \in BOOLEAN
        BY <2>5
    <2> QED
        BY <2>4, <2>6, <2>7 DEF SmtpTypes
<1> QED
    BY <1>1, <1>2, <1>3 DEF TInv

\* Every step keeps the types.
LEMMA NextTInv == WInv /\ TInv /\ [Next]_vars => TInv'
<1> SUFFICES ASSUME WInv, TInv, [Next]_vars PROVE TInv'
    OBVIOUS
<1> USE DEF WInv, TInv
<1>a. ASSUME UNCHANGED smtpVars PROVE SmtpTypes'
    <2>1. UNCHANGED <<env, table, mem, saves, unsure>>
        BY <1>a DEF smtpVars
    <2> QED
        BY <2>1 DEF SmtpTypes, Config, Field
<1>b. ASSUME UNCHANGED <<job, writer, saves>> PROVE LegalJobs'
    <2>1. Config' = Config
        BY <1>b DEF Config, Field
    <2> QED
        BY <1>b, <2>1 DEF LegalJobs
<1>1. ASSUME NEW s \in Slot, SessionStep(s), UNCHANGED smtpVars PROVE TInv'
    <2>1. PICK j : Aside(s, j)
        BY <1>1, SessionAside
    <2> QED
        BY <1>1, <2>1, AsideLegal, SessionTypes
<1>2. ASSUME NEW s \in Slot, SmtpStep(s), UNCHANGED sessionVars PROVE TInv'
    <2>1. UserTypes' /\ CookieTypes' /\ HookTypes'
        BY <1>2 DEF sessionVars, UserTypes, CookieTypes, HookTypes
    <2> QED
        BY <1>2, <2>1, SmtpLegal
<1>3. ASSUME NEW s \in Slot, AddressStep(s) PROVE TInv'
    <2>1. UserTypes' /\ CookieTypes' /\ HookTypes'
        BY <1>3 DEF AddressStep, sessionVars, UserTypes, CookieTypes, HookTypes
    <2>2. PICK j : Aside(s, j)
        BY <1>3, AddressAside
    <2> QED
        BY <2>1, <2>2, AsideLegal
<1>4. ASSUME NEW a \in Account, CreateUser(a), UNCHANGED smtpVars PROVE TInv'
    <2>1. /\ users' = [b \in Account |-> IF b = a THEN "live" ELSE users[b]]
          /\ GetUserByUsername(NameOf[a]) = {}
        BY <1>4 DEF CreateUser, UserTypes
    <2>2. \A b \in Account : ~(users[b] = "live" /\ NameOf[b] = NameOf[a])
        BY <2>1 DEF GetUserByUsername
    <2>3. UserTypes'
        BY <2>1, <2>2 DEF UserTypes
    <2>4. UNCHANGED <<cookie, hook, job, writer, saves>>
        BY <1>4 DEF CreateUser, smtpVars
    <2> QED
        BY <1>4, <1>a, <1>b, <2>3, <2>4 DEF CookieTypes, HookTypes
<1>5. ASSUME NEW b \in Browser, Logout(b), UNCHANGED smtpVars PROVE TInv'
    <2>1. \A c \in Browser : cookie'[c] = IF c = b THEN NoSession ELSE cookie[c]
        BY <1>5 DEF Logout, Cookies
    <2>2. CookieTypes'
        BY <2>1 DEF CookieTypes, NoSession
    <2>3. UNCHANGED <<users, hook, job, writer, saves>>
        BY <1>5 DEF Logout, smtpVars
    <2> QED
        BY <1>5, <1>a, <1>b, <2>2, <2>3 DEF UserTypes, HookTypes
<1>6. CASE Restart
    <2>1. \A s \in Slot : job'[s] = Idle /\ Idle.at \notin Locked /\ writer' # s
        BY <1>6, NoSlotAssumption DEF Restart, Idle, Locked
    <2>2. LegalJobs'
        BY <2>1, IdleLegal DEF LegalJobs, Locked
    <2>3. UserTypes' /\ CookieTypes' /\ HookTypes'
        BY <1>6 DEF Restart, UserTypes, CookieTypes, HookTypes
    <2>4. Config' = Config
        BY <1>6 DEF Restart, Config, Field
    <2>5. mem' \in Config /\ unsure' \in BOOLEAN
        BY <1>6, InitConfigTypes DEF Restart, SmtpTypes
    <2>6. SmtpTypes'
        BY <1>6, <2>4, <2>5 DEF Restart, SmtpTypes
    <2> QED
        BY <2>2, <2>3, <2>6
<1>7. CASE UNCHANGED vars
    <2>1. UNCHANGED smtpVars /\ UNCHANGED <<users, cookie, hook, job, writer, saves>>
        BY <1>7 DEF vars, sessionVars, smtpVars
    <2> QED
        BY <2>1, <1>a, <1>b DEF UserTypes, CookieTypes, HookTypes
<1> QED
    BY <1>1, <1>2, <1>3, <1>4, <1>5, <1>6, <1>7 DEF Next

-----------------------------------------------------------------------------
(* What the settings in use, in the table and under way are worth.           *)

\* A sender is not newer than the server it is used with.
Ordered(sender, server) == sender > 0 /\ server > 0 => sender <= server
Whole(c) == c.server = c.login /\ Ordered(c.from, c.server)

Fields ==
    /\ env.server = env.login /\ env.server \in {Env, Unset} /\ env.from \in {Env, Unset}
    /\ env.server = Unset => env.from = Unset
    /\ Whole(table)
    /\ Ordered(mem.from, mem.server)

\* Between the assignments of server and login, and only there, they differ.
Paired == (\A s \in Slot : job[s].at # "login") => mem.server = mem.login

\* What a save has written already is its own.
Committed == {"server", "login", "from"}
Saves(j, number, row, fields) ==
    /\ j.at \in Locked => /\ j.form.server = number /\ j.form.login = number
                          /\ j.form.from \in {Unset, number}
    /\ j.at \in Committed => row = j.form
    /\ j.at \in {"login", "from"} => fields.server = number
    /\ j.at = "from" => fields.login = number

\* The sender a mail has read is not newer than the server it will find.
Reads(j, fields) ==
    /\ j.at = "mail" => Ordered(j.form.from, fields.server)
    /\ j.at = "send" => Whole(j.form)

UnderWay == \A s \in Slot : Saves(job[s], saves, table, mem) /\ Reads(job[s], mem)

\* Before a save has committed nothing of it is to be seen.
Settled ==
    (\A s \in Slot : job[s].at \notin Committed) /\ ~unsure => mem \in {table, InitConfig(TRUE)}

SInv == Fields /\ Paired /\ UnderWay /\ Settled

\* What the start reads from environment and table is what is in use.
LEMMA InitSInv == Init => SInv
<1> SUFFICES ASSUME Init PROVE SInv
    OBVIOUS
<1>1. PICK c \in {Env, Unset}, d \in {Env, Unset} :
          env = Configuration(c, d) /\ (c = Unset => d = Unset)
    BY DEF Init, SmtpInit, NoConfig
<1>2. /\ table = Configuration(Unset, Unset) /\ mem = env
      /\ \A s \in Slot : job[s].at = "idle"
    BY DEF Init, SmtpInit, SessionInit, NoConfig, Idle
<1>3. /\ env = [server |-> c, login |-> c, from |-> d]
      /\ table = [server |-> Unset, login |-> Unset, from |-> Unset]
    BY <1>1, <1>2 DEF Configuration
<1>4. Fields
    BY <1>1, <1>2, <1>3 DEF Fields, Whole, Ordered, Unset, Env
<1>5. Paired
    BY <1>2, <1>3 DEF Paired
<1>6. UnderWay
    BY <1>2 DEF UnderWay, Saves, Reads, Locked, Committed
<1>7. InitConfig(TRUE) = env
    <2>1. ReadDBConfig = [f \in {"server", "login", "from"} |-> env[f]]
        BY <1>3 DEF ReadDBConfig
    <2>2. ReadDBConfig = env
        BY <1>3, <2>1
    <2> QED
        BY <2>2 DEF InitConfig
<1> QED
    BY <1>2, <1>4, <1>5, <1>6, <1>7 DEF SInv, Settled

\* One goroutine moves on.
LEMMA OneUnderWay ==
    ASSUME Jobs, NEW s \in Slot, NEW j, job' = [job EXCEPT ![s] = j],
           Saves(j, saves', table', mem'), Reads(j, mem'),
           \A t \in Slot \ {s} : Saves(job[t], saves', table', mem') /\ Reads(job[t], mem')
    PROVE  UnderWay'
<1> SUFFICES ASSUME NEW t \in Slot
             PROVE  Saves(job'[t], saves', table', mem') /\ Reads(job'[t], mem')
    BY DEF UnderWay, Saves, Reads, Locked, Committed, Whole, Ordered
<1>1. job'[t] = IF t = s THEN j ELSE job[t]
    BY DEF Jobs
<1>2. CASE t = s
    BY <1>1, <1>2
<1>3. CASE t # s
    BY <1>1, <1>3
<1> QED
    BY <1>2, <1>3

\* Whoever is not saving touches none of it.
LEMMA Bystander ==
    ASSUME Jobs, LegalJobs, SInv, NEW s \in Slot, NEW j, job' = [job EXCEPT ![s] = j],
           job[s].at \notin Locked, j.at \notin Locked, Reads(j, mem), UNCHANGED smtpVars
    PROVE  SInv'
<1>1. UNCHANGED <<env, table, mem, writer, saves, unsure>>
    BY DEF smtpVars
<1>2. \A t \in Slot : job'[t] = IF t = s THEN j ELSE job[t]
    BY DEF Jobs
<1>3. "login" \in Locked /\ Committed \subseteq Locked /\ {"login", "from"} \subseteq Locked
      /\ "from" \in Locked
    BY DEF Locked, Committed
<1>4. Fields'
    BY <1>1 DEF SInv, Fields, Whole, Ordered
<1>5. Paired'
    <2>1. (\A t \in Slot : job'[t].at # "login") => (\A t \in Slot : job[t].at # "login")
        BY <1>2, <1>3
    <2> QED
        BY <1>1, <2>1 DEF SInv, Paired
<1>6. UnderWay'
    <2>1. Saves(j, saves, table, mem)
        BY <1>3 DEF Saves
    <2> QED
        BY <1>1, <2>1, OneUnderWay DEF SInv, UnderWay
<1>7. Settled'
    <2>1. (\A t \in Slot : job'[t].at \notin Committed)
              => (\A t \in Slot : job[t].at \notin Committed)
        BY <1>2, <1>3
    <2>2. InitConfig(TRUE)' = InitConfig(TRUE)
        BY <1>1 DEF InitConfig, ReadDBConfig, IsSMTPConfigured
    <2> QED
        BY <1>1, <2>1, <2>2 DEF SInv, Settled
<1> QED
    BY <1>4, <1>5, <1>6, <1>7 DEF SInv

\* A job that moves on outside the mutex changes no settings.
LEMMA AsideSettings ==
    ASSUME Jobs, LegalJobs, SInv, NEW s \in Slot, NEW j, Aside(s, j)
    PROVE  SInv'
<1>1. Reads(j, mem)
    BY DEF Aside, Reads
<1> QED
    BY <1>1, Bystander DEF Aside

\* Nobody else saves.
LEMMA Alone ==
    ASSUME LegalJobs, NEW s \in Slot, job[s].at \in Locked, NEW t \in Slot \ {s}
    PROVE  job[t].at \notin Locked
BY DEF LegalJobs

\* A goroutine that is not saving has nothing of a save to show.
LEMMA NotSaving ==
    ASSUME NEW j, j.at \notin Locked, NEW number, NEW row, NEW fields
    PROVE  Saves(j, number, row, fields)
BY DEF Saves, Locked, Committed

\* Each step of a save and of a mail.
LEMMA SmtpSettings ==
    ASSUME WInv, TInv, SInv, NEW s \in Slot, SmtpStep(s)
    PROVE  SInv'
<1> USE DEF WInv, TInv, SInv
<1>0. /\ Legal(job[s], Config) /\ (writer = s <=> job[s].at \in Locked)
      /\ Saves(job[s], saves, table, mem) /\ Reads(job[s], mem)
    BY DEF LegalJobs, UnderWay
<1>a. Idle.at = "idle" /\ "idle" \notin Locked
    BY DEF Idle, Locked
<1>b. \A t \in Slot \ {s} : Legal(job[t], Config) /\ Reads(job[t], mem)
    BY DEF LegalJobs, UnderWay
<1>c. ASSUME job[s].at \in Locked
      PROVE  \A t \in Slot \ {s} : Saves(job[t], saves', table', mem')
    BY <1>c, Alone, NotSaving
<1>d. \A fields : Reads(Idle, fields) /\ \A n, row : Saves(Idle, n, row, fields)
    BY <1>a, NotSaving DEF Reads
<1>1. CASE TestConnection(s)
    <2>1. job' = [job EXCEPT ![s] = Moved(s, "test", NoBrowser, NoForm)]
        BY <1>1 DEF TestConnection, Work, Moved
    <2>2. /\ job[s].at \notin Locked
          /\ "test" \notin Locked \cup {"mail", "send", "idle", "rows", "handler"}
        BY <1>1 DEF TestConnection, At, Locked
    <2>3. PICK j : Aside(s, j)
        BY <1>1, <2>1, <2>2, MovedLegal DEF TestConnection
    <2> QED
        BY <2>3, AsideSettings
<1>2. CASE TestFails(s) \/ DialAndSend(s)
    <2>1. job[s].at \notin Locked /\ End(s) /\ UNCHANGED smtpVars
        BY <1>2 DEF TestFails, DialAndSend, At, Locked
    <2>2. PICK j : Aside(s, j)
        BY <2>1, EndLegal
    <2> QED
        BY <2>2, AsideSettings
<1>3. CASE Lock(s)
    <2>1. /\ saves' = saves + 1 /\ writer = NoSlot /\ UNCHANGED <<env, table, mem, unsure>>
        BY <1>3 DEF Lock, LockFree
    <2>2. PICK sender \in {saves + 1} \cup {Unset : n \in {saves + 1} \cap Senderless} :
              Work(s, "statement", Configuration(saves + 1, sender))
        BY <1>3 DEF Lock
    <2> DEFINE form == Configuration(saves + 1, sender)
               j == Moved(s, "statement", NoBrowser, form)
    <2>3. /\ job' = [job EXCEPT ![s] = j] /\ j.at = "statement" /\ j.form = form
          /\ form.server = saves + 1 /\ form.login = saves + 1 /\ form.from = sender
        BY <2>2 DEF Work, Moved, Configuration
    <2>4. \A t \in Slot : job[t].at \notin Locked /\ job'[t] = IF t = s THEN j ELSE job[t]
        BY <2>1, <2>3, NoSlotAssumption DEF LegalJobs, Jobs
    <2>5. "statement" \notin Committed \cup {"mail", "send", "login", "from"}
          /\ "login" \in Locked /\ Committed \subseteq Locked
        BY DEF Committed, Locked
    <2> HIDE DEF j, form
    <2>6. Saves(j, saves', table', mem') /\ Reads(j, mem')
        BY <2>1, <2>2, <2>3, <2>5 DEF Saves, Reads
    <2>7. UnderWay'
        BY <1>b, <2>1, <2>3, <2>4, <2>6, NotSaving, OneUnderWay
    <2>8. Fields'
        BY <2>1 DEF Fields, Whole, Ordered
    <2>9. Paired'
        BY <2>1, <2>4, <2>5 DEF Paired
    <2>10. Settled'
        <3>1. InitConfig(TRUE)' = InitConfig(TRUE)
            BY <2>1 DEF InitConfig, ReadDBConfig, IsSMTPConfigured
        <3>2. \A t \in Slot : job[t].at \notin Committed
            BY <2>4, <2>5
        <3> QED
            BY <2>1, <3>1, <3>2 DEF Settled
    <2> QED
        BY <2>7, <2>8, <2>9, <2>10
<1>4. CASE SaveFails(s) \/ SaveUnanswered(s)
    <2>1. /\ job[s].at = "statement" /\ End(s) /\ UNCHANGED <<env, mem, saves>>
          /\ \/ UNCHANGED <<table, unsure>>
             \/ table' = job[s].form /\ unsure' = TRUE
        BY <1>4 DEF SaveFails, SaveUnanswered, At
    <2>2. /\ job' = [job EXCEPT ![s] = Idle] /\ job[s].at \in Locked
          /\ "statement" \notin Committed /\ "login" \in Locked /\ Committed \subseteq Locked
        BY <2>1 DEF End, Locked, Committed
    <2>3. \A t \in Slot : job[t].at \notin Committed /\ job[t].at # "login"
        <3>1. \A t \in Slot \ {s} : job[t].at \notin Locked
            BY <2>2, Alone
        <3> QED
            BY <2>1, <2>2, <3>1
    <2>4. UnderWay'
        BY <1>b, <1>c, <1>d, <2>1, <2>2, OneUnderWay
    <2>5. Fields'
        <3>1. Whole(job[s].form)
            BY <1>0, <2>2 DEF Saves, Whole, Ordered, Unset, SmtpTypes
        <3> QED
            BY <2>1, <3>1 DEF Fields, Whole, Ordered
    <2>6. Paired'
        BY <2>1, <2>3 DEF Paired
    <2>7. Settled'
        <3>1. CASE unsure'
            BY <3>1 DEF Settled
        <3>2. CASE ~unsure'
            <4>1. UNCHANGED <<table, unsure>>
                BY <2>1, <3>2
            <4>2. InitConfig(TRUE)' = InitConfig(TRUE)
                BY <2>1, <4>1 DEF InitConfig, ReadDBConfig, IsSMTPConfigured
            <4> QED
                BY <2>1, <2>3, <4>1, <4>2 DEF Settled
        <3> QED
            BY <3>1, <3>2
    <2> QED
        BY <2>4, <2>5, <2>6, <2>7
<1>5. CASE Save(s) \/ AssignServer(s) \/ AssignLogin(s)
    <2>1. PICK next \in Committed : /\ Goto(s, next) /\ UNCHANGED <<env, saves, unsure>>
          /\ \/ /\ job[s].at = "statement" /\ next = "server"
                /\ table' = job[s].form /\ mem' = mem
             \/ /\ job[s].at = "server" /\ next = "login"
                /\ table' = table /\ Assign("server", s)
             \/ /\ job[s].at = "login" /\ next = "from"
                /\ table' = table /\ Assign("login", s)
        BY <1>5 DEF Save, AssignServer, AssignLogin, At, Committed
    <2> DEFINE j == Moved(s, next, job[s].browser, job[s].form)
    <2>2. /\ job' = [job EXCEPT ![s] = j] /\ j.at = next /\ j.form = job[s].form
        BY <2>1, GotoMoves DEF Moved
    <2> HIDE DEF j
    <2>3. job[s].at \in Locked /\ next \in Locked /\ next \notin {"mail", "send"}
        BY <2>1 DEF Locked, Committed
    <2>4. /\ job[s].form.server = saves /\ job[s].form.login = saves
          /\ job[s].form.from \in {Unset, saves} /\ job[s].form \in Config
          /\ saves \in Nat
        BY <1>0, <2>3 DEF Saves, Legal, SmtpTypes
    <2>5. job'[s] = j
        BY <2>2 DEF Jobs
    <2>6. mem \in Config /\ mem.from \in Field /\ mem.from <= saves
        BY <2>4 DEF SmtpTypes, Config, Field, Env
    <2>7. /\ mem'.from = mem.from
          /\ next = "server" => mem'.server = mem.server /\ mem'.login = mem.login
          /\ next = "login" => mem'.server = saves /\ mem'.login = mem.login
          /\ next = "from" => mem'.server = mem.server /\ mem'.login = saves
        BY <2>1, <2>4, <2>6 DEF Assign, Config
    <2>8. table' = job[s].form
        BY <1>0, <2>1 DEF Saves, Committed
    <2>9. Saves(j, saves', table', mem')
        <3>1. next = "from" => mem.server = saves
            BY <1>0, <2>1 DEF Saves
        <3> QED
            BY <2>1, <2>2, <2>4, <2>7, <2>8, <3>1 DEF Saves, Committed
    <2>10. Reads(j, mem')
        BY <2>2, <2>3 DEF Reads
    <2>11. ASSUME NEW t \in Slot \ {s} PROVE Reads(job[t], mem')
        <3>1. mem'.server \in {mem.server, saves}
            BY <2>1, <2>7 DEF Committed
        <3>2. job[t].at = "mail" => job[t].form.from <= saves
            <4>1. job[t].at = "mail" => job[t].form \in Config
                BY <1>b DEF Legal
            <4> QED
                BY <2>4, <4>1 DEF Config, Field, Env
        <3>3. job[t].at = "mail" => Ordered(job[t].form.from, mem'.server)
            BY <1>b, <3>1, <3>2 DEF Reads, Ordered
        <3> QED
            BY <1>b, <3>3 DEF Reads
    <2>12. UnderWay'
        BY <2>2, <2>3, <2>9, <2>10, <2>11, Alone, NotSaving, OneUnderWay
    <2>13. Fields'
        <3>1. Whole(table)'
            BY <2>4, <2>8 DEF Whole, Ordered, Unset
        <3>2. mem'.server \in {mem.server, saves}
            BY <2>1, <2>7 DEF Committed
        <3>3. Ordered(mem.from, mem.server)'
            BY <2>6, <2>7, <3>2 DEF Fields, Ordered
        <3> QED
            BY <2>1, <3>1, <3>3 DEF Fields
    <2>14. Paired'
        <3>1. CASE next = "server"
            <4>1. \A t \in Slot : job[t].at # "login"
                <5>1. "login" \in Locked /\ job[s].at = "statement"
                    BY <2>1, <3>1 DEF Locked
                <5> QED
                    BY <2>3, <5>1, Alone
            <4> QED
                BY <2>7, <3>1, <4>1 DEF Paired
        <3>2. CASE next = "login"
            BY <2>2, <2>5, <3>2 DEF Paired
        <3>3. CASE next = "from"
            <4>1. mem.server = saves
                BY <1>0, <2>1, <3>3 DEF Saves
            <4> QED
                BY <2>7, <3>3, <4>1 DEF Paired
        <3> QED
            BY <3>1, <3>2, <3>3 DEF Committed
    <2>15. Settled'
        BY <2>2, <2>5 DEF Settled, Committed
    <2> QED
        BY <2>12, <2>13, <2>14, <2>15
<1>6. CASE AssignFrom(s)
    <2>1. /\ job[s].at = "from" /\ Assign("from", s) /\ End(s)
          /\ UNCHANGED <<env, table, saves>>
        BY <1>6 DEF AssignFrom, At
    <2>2. job' = [job EXCEPT ![s] = Idle] /\ job[s].at \in Locked
        BY <2>1 DEF End, Locked
    <2>3. /\ job[s].form.server = saves /\ job[s].form.login = saves
          /\ job[s].form.from \in {Unset, saves} /\ job[s].form \in Config
          /\ mem.server = saves /\ mem.login = saves /\ table = job[s].form
          /\ saves \in Nat
        BY <1>0, <2>1, <2>2 DEF Saves, Legal, SmtpTypes, Committed
    <2>4. mem = [server |-> saves, login |-> saves, from |-> mem.from]
          /\ table = [server |-> saves, login |-> saves, from |-> table.from]
        BY <2>3 DEF SmtpTypes, Config
    <2>5. mem' = table
        BY <2>1, <2>3, <2>4 DEF Assign
    <2>6. Whole(table)
        BY DEF Fields
    <2>7. Fields' /\ Paired' /\ Settled'
        BY <2>1, <2>5, <2>6 DEF Fields, Paired, Settled, Whole
    <2>8. ASSUME NEW t \in Slot \ {s} PROVE Reads(job[t], mem')
        BY <1>b, <2>3, <2>5 DEF Reads
    <2>9. UnderWay'
        BY <1>c, <1>d, <2>2, <2>8, OneUnderWay
    <2> QED
        BY <2>7, <2>9
<1>7. CASE ReadSender(s)
    <2> DEFINE form == [NoConfig EXCEPT !.from = mem.from]
               j == Moved(s, "mail", NoBrowser, form)
    <2>1. job' = [job EXCEPT ![s] = j] /\ UNCHANGED smtpVars /\ job[s].at \notin Locked
        BY <1>7, <1>a DEF ReadSender, Work, Moved
    <2>2. j.at = "mail" /\ j.form.from = mem.from /\ "mail" \notin Locked
        BY DEF Moved, NoConfig, Configuration, Locked
    <2> HIDE DEF j, form
    <2>3. Reads(j, mem)
        BY <2>2 DEF Reads, Fields
    <2> QED
        BY <2>1, <2>2, <2>3, Bystander
<1>8. CASE GetSMTPConfig(s)
    <2> DEFINE form == [mem EXCEPT !.from = job[s].form.from]
               j == Moved(s, "send", NoBrowser, form)
    <2>1. /\ job' = [job EXCEPT ![s] = j] /\ UNCHANGED smtpVars
          /\ job[s].at = "mail" /\ writer = NoSlot
        BY <1>8 DEF GetSMTPConfig, Work, Moved, At, CanRead, LockFree
    <2>2. /\ j.at = "send" /\ j.form.server = mem.server /\ j.form.login = mem.login
          /\ j.form.from = job[s].form.from /\ {"mail", "send"} \cap Locked = {}
        BY DEF Moved, Locked, SmtpTypes, Config
    <2> HIDE DEF j, form
    <2>3. mem.server = mem.login
        <3>1. \A t \in Slot : job[t].at # "login"
            BY <2>1, NoSlotAssumption DEF LegalJobs, Locked
        <3> QED
            BY <3>1 DEF Paired
    <2>4. Ordered(job[s].form.from, mem.server)
        BY <1>0, <2>1 DEF Reads
    <2>5. Reads(j, mem)
        BY <2>2, <2>3, <2>4 DEF Reads, Whole
    <2> QED
        BY <2>1, <2>2, <2>5, Bystander
<1> QED
    BY <1>1, <1>2, <1>3, <1>4, <1>5, <1>6, <1>7, <1>8 DEF SmtpStep

\* Every step keeps the settings in order.
LEMMA NextSInv == WInv /\ TInv /\ SInv /\ [Next]_vars => SInv'
<1> SUFFICES ASSUME WInv, TInv, SInv, [Next]_vars PROVE SInv'
    OBVIOUS
<1> USE DEF WInv, TInv
<1>a. ASSUME UNCHANGED smtpVars, job' = job PROVE SInv'
    <2>1. UNCHANGED <<env, table, mem, writer, saves, unsure>>
        BY <1>a DEF smtpVars
    <2>2. InitConfig(TRUE)' = InitConfig(TRUE)
        BY <2>1 DEF InitConfig, ReadDBConfig, IsSMTPConfigured
    <2>3. Fields' /\ Paired' /\ UnderWay'
        BY <1>a, <2>1 DEF SInv, Fields, Paired, UnderWay, Whole, Ordered, Saves, Reads,
                          Locked, Committed
    <2>4. Settled'
        BY <1>a, <2>1, <2>2 DEF SInv, Settled, Committed
    <2> QED
        BY <2>3, <2>4 DEF SInv
<1>1. ASSUME NEW s \in Slot, SessionStep(s), UNCHANGED smtpVars PROVE SInv'
    <2>1. PICK j : Aside(s, j)
        BY <1>1, SessionAside
    <2> QED
        BY <2>1, AsideSettings
<1>2. ASSUME NEW s \in Slot, AddressStep(s) PROVE SInv'
    <2>1. PICK j : Aside(s, j)
        BY <1>2, AddressAside
    <2> QED
        BY <2>1, AsideSettings
<1>3. ASSUME NEW a \in Account, CreateUser(a), UNCHANGED smtpVars PROVE SInv'
    BY <1>3, <1>a DEF CreateUser
<1>4. ASSUME NEW b \in Browser, Logout(b), UNCHANGED smtpVars PROVE SInv'
    BY <1>4, <1>a DEF Logout
<1>5. CASE Restart
    <2>1. PICK answered \in BOOLEAN :
              /\ mem' = InitConfig(answered)
              /\ unsure' = (~answered /\ ~IsSMTPConfigured(env))
        BY <1>5 DEF Restart
    <2>2. /\ UNCHANGED <<env, table, saves>>
          /\ \A s \in Slot : job'[s].at = "idle"
        BY <1>5 DEF Restart, Idle
    <2>3. /\ DOMAIN env = {"server", "login", "from"}
          /\ Fields
        BY DEF SmtpTypes, Config, SInv
    <2>4. mem' = env \/ mem' = ReadDBConfig
        BY <2>1 DEF InitConfig
    <2>5. /\ mem'.server = mem'.login
          /\ Ordered(mem'.from, mem'.server)
        <3>1. CASE mem' = env
            BY <2>3, <3>1 DEF Fields, Ordered, Env, Unset
        <3>2. CASE mem' = ReadDBConfig
            <4>1. /\ mem'.server = IF env.server = Unset THEN table.server ELSE env.server
                  /\ mem'.login = IF env.login = Unset THEN table.login ELSE env.login
                  /\ mem'.from = IF env.from = Unset THEN table.from ELSE env.from
                BY <2>3, <3>2 DEF ReadDBConfig
            <4> QED
                BY <2>3, <4>1 DEF Fields, Whole, Ordered, Env, Unset
        <3> QED
            BY <2>4, <3>1, <3>2
    <2>6. Fields'
        BY <2>2, <2>3, <2>5 DEF Fields, Whole, Ordered
    <2>7. Paired'
        BY <2>5 DEF Paired
    <2>8. UnderWay'
        BY <2>2 DEF UnderWay, Saves, Reads, Locked, Committed
    <2>9. Settled'
        <3>1. InitConfig(TRUE)' = InitConfig(TRUE)
            BY <2>2 DEF InitConfig, ReadDBConfig, IsSMTPConfigured
        <3>2. ~unsure' => mem' = InitConfig(TRUE)
            BY <2>1 DEF InitConfig
        <3> QED
            BY <3>1, <3>2 DEF Settled
    <2> QED
        BY <2>6, <2>7, <2>8, <2>9 DEF SInv
<1>6. CASE UNCHANGED vars
    BY <1>6, <1>a DEF vars
<1> QED
    BY <1>1, <1>2, <1>3, <1>4, <1>5, <1>6, SmtpSettings DEF Next

-----------------------------------------------------------------------------
\* Handlers run for the account whose password was typed, webhooks are
\* written by and shown to their owner, settings are saved by admins: for
\* any accounts, also when names are used again (GetUserByUsername of
\* api/user.go, authMiddleware of http/auth.go).
THEOREM ActsForOwnerAlways == Spec => []ActsForOwner
<1>1. WInv => ActsForOwner
    BY DEF WInv, Jobs, Hook, Proper, Honest, ActsForOwner, User, At
<1> QED
    BY <1>1, InitWInv, NextWInv, PTL DEF Spec

\* The types, one live user for each name, and the mutex of configs.Config
\* held by exactly the save that is between its Lock and its Unlock, for any
\* accounts, browsers and goroutines.
THEOREM TypeCorrect == Spec => []TypeOK
<1>1. WInv /\ TInv => TypeOK
    <2> SUFFICES ASSUME WInv, TInv PROVE TypeOK
        OBVIOUS
    <2> USE DEF WInv, TInv
    <2>1. cookie \in [Browser -> Session]
        <3>1. \A b \in Browser : cookie[b] \in Session
            <4> SUFFICES ASSUME NEW b \in Browser PROVE cookie[b] \in Session
                OBVIOUS
            <4>1. /\ cookie[b] = [user |-> cookie[b].user, typed |-> cookie[b].user]
                  /\ cookie[b].user \in Account \cup {NoAccount}
                BY DEF Cookies, CookieTypes, Honest
            <4> QED
                BY <4>1 DEF Session, NoSession
        <3> QED
            BY <3>1 DEF Cookies
    <2>2. \A s \in Slot : /\ writer = s <=> job[s].at \in Locked
                          /\ job[s].at \in Locked \cup {"mail", "send"} => job[s].form \in Config
                          /\ job[s].at = "idle" <=> job[s] = Idle
        BY DEF LegalJobs, Legal
    <2> QED
        BY <2>1, <2>2 DEF TypeOK, UserTypes, HookTypes, SmtpTypes
<1> QED
    BY <1>1, InitWInv, NextWInv, InitTInv, NextTInv, PTL DEF Spec

\* What the address form hands over is what its input stands for, for every
\* gap limit: both chains of a key, each index below the gap once, each row
\* with the path it was derived on; the first addresses of a descriptor that
\* can be watched; nothing when a call failed (handlers_address.go Create).
THEOREM RowsCoverInputAlways == Spec => []RowsCoverInput
<1>1. TInv => RowsCoverInput
    BY RowsCover DEF TInv, LegalJobs, Legal, RowsCoverInput, At
<1> QED
    BY <1>1, InitWInv, NextWInv, InitTInv, NextTInv, PTL DEF Spec
\* A mail never logs in at one server with the login of another, and its
\* sender is at most older, for any number of saves and mails: the mutex and
\* the order of the three assignments suffice although the sender is read
\* without it (configs.go UpdateSMTPConfig, mail.go sendEmail).
THEOREM MailServerAtomicAlways == Spec => []MailServerAtomic
<1>1. TInv /\ SInv => MailServerAtomic
    <2> SUFFICES ASSUME TInv, SInv, NEW s \in Slot, At(s, "send")
                 PROVE  Whole(job[s].form) /\ job[s].form \in Config
        BY DEF MailServerAtomic, Whole, Ordered, Config, Field, Env
    <2>1. Whole(job[s].form)
        BY DEF SInv, UnderWay, Reads, At
    <2>2. job[s].form \in Config
        BY DEF TInv, LegalJobs, Legal, At
    <2> QED
        BY <2>1, <2>2
<1> QED
    BY <1>1, InitWInv, NextWInv, InitTInv, NextTInv, InitSInv, NextSInv, PTL DEF Spec

\* With nobody saving and no answer of the database lost, the settings in use
\* are the ones of the table, or what a restart makes of them, whatever saves
\* waited, failed or were interrupted (configs.go).
THEOREM InUseIsStoredAlways == Spec => []InUseIsStored
<1>1. SInv => InUseIsStored
    BY DEF SInv, Settled, InUseIsStored, Committed, Locked
<1> QED
    BY <1>1, InitWInv, NextWInv, InitTInv, NextTInv, InitSInv, NextSInv, PTL DEF Spec
=============================================================================
