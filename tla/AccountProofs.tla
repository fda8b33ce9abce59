---------------------------- MODULE AccountProofs ----------------------------
(***************************************************************************)
(* Proofs about a user's account: the sessions of a browser, for any       *)
(* number of tabs and requests, and billing, for any number of users,      *)
(* checkouts, handlers and events.                                         *)
(***************************************************************************)
EXTENDS BrowserSessions, Billing, SequenceTheorems, FiniteSetTheorems, TLAPS

-----------------------------------------------------------------------------
(* Cookies and refreshes: BrowserSessions.                                 *)

Row == [hash : 1..MaxCalls, revoked : BOOLEAN, expired : BOOLEAN]
Fetch == [phase : Phases, kind : Kinds, call : 0..MaxCalls, cred : Access,
          bearer : BOOLEAN, token : 0..MaxCalls, row : Nat,
          ok : BOOLEAN, retried : BOOLEAN]

\* The parts of the type invariant.
RowsTyped  == sess \in Seq(Row)
JarTyped   == jar \in [refresh : 0..MaxCalls, access : {"none", "valid"}] /\ stored \in Access
FetchTyped == fetch \in [Tabs -> Fetch]
HistoryTyped == calls \in 0..MaxCalls /\ raced \in BOOLEAN

\* A request under way has a number, which names the token it may be given; a
\* refresh that has read a row has read one that is there.
CallsNumbered ==
  \A t \in Tabs : /\ fetch[t].phase # "idle" => fetch[t].call \in 1..MaxCalls
                  /\ fetch[t].phase = "found" => fetch[t].row \in DOMAIN sess

\* The inductive invariant.
SessionInv == RowsTyped /\ JarTyped /\ FetchTyped /\ HistoryTyped /\ CallsNumbered

\* A request that a tab sends.
LEMMA SentTyped ==
  ASSUME JarTyped, NEW t, NEW kind \in Kinds, NEW call \in 0..MaxCalls, NEW retried \in BOOLEAN
  PROVE  /\ Sent(t, kind, call, retried) \in Fetch
         /\ Sent(t, kind, call, retried).phase = "sent" /\ Sent(t, kind, call, retried).call = call
<1>1. Credential \in Access /\ jar.refresh \in 0..MaxCalls /\ (stored # "none") \in BOOLEAN
  BY DEF Credential, JarTyped, Access
<1> QED BY <1>1 DEF Sent, Fetch, Phases

\* A request that goes from one record to another.
LEMMA FetchMove ==
  ASSUME FetchTyped, CallsNumbered, NEW t \in Tabs, NEW r \in Fetch, fetch' = [fetch EXCEPT ![t] = r],
         DOMAIN sess \subseteq DOMAIN sess',
         r.phase # "idle" => r.call \in 1..MaxCalls, r.phase = "found" => r.row \in DOMAIN sess'
  PROVE  FetchTyped' /\ CallsNumbered'
<1>1. fetch' \in [Tabs -> Fetch] /\ fetch'[t] = r /\ \A u \in Tabs \ {t} : fetch'[u] = fetch[u]
  BY DEF FetchTyped
<1> QED BY <1>1 DEF FetchTyped, CallsNumbered

\* A tab that is done.
LEMMA IdleFetch == Idle \in Fetch /\ Idle.phase = "idle"
BY SessionBoundsAssumption DEF Idle, Fetch, Phases, Kinds, Access

\* What the steps of the API write to the rows.
LEMMA RowsKeep ==
  ASSUME SessionInv, NEW t \in Tabs, Serve(t)
  PROVE  RowsTyped' /\ DOMAIN sess \subseteq DOMAIN sess'
<1> USE DEF SessionInv
<1>1. sess \in Seq(Row) /\ DOMAIN sess = 1..Len(sess) /\ Len(sess) \in Nat /\ \A s \in DOMAIN sess : sess[s] \in Row
  BY LenProperties DEF RowsTyped
<1>n. fetch[t].phase # "idle" => fetch[t].call \in 1..MaxCalls
  BY DEF CallsNumbered
<1>2. ASSUME NEW f, f \in [DOMAIN sess -> Row], sess' = f PROVE RowsTyped' /\ DOMAIN sess \subseteq DOMAIN sess'
  <2>1. f \in Seq(Row)
    BY <1>1, <1>2
  <2> QED BY <1>2, <2>1 DEF RowsTyped
<1>3. CASE ServeLogin(t)
  <2> DEFINE r == [hash |-> fetch[t].call, revoked |-> FALSE, expired |-> FALSE]
  <2>1. r \in Row
    BY <1>3, <1>n DEF ServeLogin, Row
  <2>2. sess' = Append(sess, r)
    BY <1>3 DEF ServeLogin
  <2>3. sess' \in Seq(Row) /\ Len(sess') = Len(sess) + 1
    BY <1>1, <2>1, <2>2, AppendProperties
  <2>4. DOMAIN sess' = 1..Len(sess')
    BY <2>3, LenProperties
  <2> QED BY <1>1, <2>3, <2>4 DEF RowsTyped
<1>4. CASE ServeLogout(t)
  <2> DEFINE f == [s \in DOMAIN sess |->
                     IF s \in Rows(fetch[t].token) THEN [sess[s] EXCEPT !.revoked = TRUE] ELSE sess[s]]
  <2>1. \A s \in DOMAIN sess : [sess[s] EXCEPT !.revoked = TRUE] \in Row
    BY <1>1 DEF Row
  <2>2. f \in [DOMAIN sess -> Row]
    BY <1>1, <2>1
  <2>3. sess' = f
    BY <1>4 DEF ServeLogout
  <2> HIDE DEF f
  <2> QED BY <1>2, <2>2, <2>3
<1>5. CASE ServeLogoutAll(t)
  <2> DEFINE f == [s \in DOMAIN sess |-> [sess[s] EXCEPT !.revoked = TRUE]]
  <2>1. f \in [DOMAIN sess -> Row]
    BY <1>1 DEF Row
  <2>2. sess' = f \/ sess' = sess
    BY <1>5 DEF ServeLogoutAll
  <2>3. sess \in [DOMAIN sess -> Row]
    BY <1>1
  <2> HIDE DEF f
  <2> QED BY <1>2, <2>1, <2>2, <2>3
<1>6. CASE RefreshRotate(t)
  <2> DEFINE r == [hash |-> fetch[t].call, revoked |-> FALSE, expired |-> FALSE]
  <2>1. r \in Row
    BY <1>6, <1>n DEF RefreshRotate, Row
  <2>2. sess' = [sess EXCEPT ![fetch[t].row] = r] /\ sess \in [DOMAIN sess -> Row]
    BY <1>1, <1>6 DEF RefreshRotate
  <2>3. sess' \in [DOMAIN sess -> Row]
    BY <2>1, <2>2
  <2> QED BY <1>2, <2>3
<1>7. CASE ServeData(t) \/ RefreshFind(t)
  <2>1. sess' = sess /\ sess \in [DOMAIN sess -> Row]
    BY <1>1, <1>7 DEF ServeData, RefreshFind
  <2> QED BY <1>2, <2>1
<1> QED BY <1>3, <1>4, <1>5, <1>6, <1>7 DEF Serve

\* The steps of the API.
LEMMA ServeKeeps ==
  ASSUME SessionInv, NEW t \in Tabs, Serve(t)
  PROVE  SessionInv'
<1> USE DEF SessionInv
<1>0. UNCHANGED <<jar, stored, calls>> /\ raced' \in BOOLEAN
  BY DEF Serve, ServeLogin, ServeData, ServeLogout, ServeLogoutAll, RefreshFind, RefreshRotate, HistoryTyped
<1>1. fetch[t] \in Fetch /\ (fetch[t].phase # "idle" => fetch[t].call \in 1..MaxCalls)
  BY DEF FetchTyped, CallsNumbered
<1>2. RowsTyped' /\ DOMAIN sess \subseteq DOMAIN sess'
  BY RowsKeep
<1>3. JarTyped' /\ HistoryTyped'
  BY <1>0 DEF JarTyped, HistoryTyped
<1>4. FetchTyped' /\ CallsNumbered'
  <2>1. ASSUME NEW ok \in BOOLEAN, Served(t, ok), fetch[t].phase = "sent" PROVE FetchTyped' /\ CallsNumbered'
    <3> DEFINE r == [fetch[t] EXCEPT !.phase = "served", !.ok = ok]
    <3>1. r \in Fetch /\ r.phase = "served" /\ r.call = fetch[t].call
      BY <1>1 DEF Fetch, Phases
    <3>2. fetch' = [fetch EXCEPT ![t] = r]
      BY <2>1 DEF Served
    <3> HIDE DEF r
    <3> QED BY <1>1, <1>2, <2>1, <3>1, <3>2, FetchMove
  <2>2. CASE ServeLogin(t) \/ ServeData(t) \/ ServeLogout(t) \/ ServeLogoutAll(t)
    <3>1. fetch[t].phase = "sent" /\ (Served(t, TRUE) \/ Served(t, FALSE))
      <4>1. (fetch[t].cred = "valid") \in BOOLEAN
        OBVIOUS
      <4>2. fetch[t].phase = "sent" /\ (Served(t, TRUE) \/ Served(t, fetch[t].cred = "valid"))
        BY <2>2 DEF ServeLogin, ServeData, ServeLogout, ServeLogoutAll
      <4>3. CASE fetch[t].cred = "valid"
        BY <4>2, <4>3 DEF Served
      <4>4. CASE fetch[t].cred # "valid"
        BY <4>2, <4>4 DEF Served
      <4> QED BY <4>2, <4>3, <4>4
    <3> QED BY <2>1, <3>1
  <2>3. CASE RefreshFind(t)
    <3> DEFINE found == {s \in Rows(fetch[t].token) : Live(s)}
               phase == IF found = {} THEN "refused" ELSE "found"
               row   == IF found = {} THEN 0 ELSE CHOOSE s \in found : TRUE
    <3>1. /\ fetch' = [fetch EXCEPT ![t].phase = phase, ![t].row = row]
          /\ phase \in {"refused", "found"}
          /\ phase = "found" => found # {} /\ row = CHOOSE s \in found : TRUE
          /\ phase = "refused" => row = 0
      BY <2>3 DEF RefreshFind
    <3>2. found \subseteq DOMAIN sess
      BY DEF Rows
    <3> HIDE DEF phase, row
    <3>3. phase = "found" => row \in DOMAIN sess
      BY <3>1, <3>2
    <3>4. DOMAIN sess \subseteq Nat
      BY LenProperties DEF RowsTyped
    <3> DEFINE r == [fetch[t] EXCEPT !.phase = phase, !.row = row]
    <3>5. row \in Nat
      BY <3>1, <3>3, <3>4
    <3>6. r \in Fetch /\ r.phase = phase /\ r.call = fetch[t].call /\ r.row = row
      BY <1>1, <3>1, <3>5 DEF Fetch, Phases
    <3>7. fetch[t].phase = "refresh"
      BY <2>3 DEF RefreshFind
    <3>8. fetch' = [fetch EXCEPT ![t] = r]
      BY <3>1
    <3> HIDE DEF r, found
    <3> QED BY <1>1, <1>2, <3>3, <3>6, <3>7, <3>8, FetchMove
  <2>4. CASE RefreshRotate(t)
    <3> DEFINE r == [fetch[t] EXCEPT !.phase = "rotated"]
    <3>1. r \in Fetch /\ r.phase = "rotated" /\ r.call = fetch[t].call
      BY <1>1 DEF Fetch, Phases
    <3>2. fetch' = [fetch EXCEPT ![t] = r] /\ fetch[t].phase = "found"
      BY <2>4 DEF RefreshRotate
    <3> HIDE DEF r
    <3> QED BY <1>1, <1>2, <3>1, <3>2, FetchMove
  <2> QED BY <2>2, <2>3, <2>4 DEF Serve
<1> QED BY <1>2, <1>3, <1>4

\* The steps of a tab.
LEMMA TabKeeps ==
  ASSUME SessionInv, NEW t \in Tabs,
         (\E kind \in Kinds : StartFetch(t, kind)) \/ Read(t) \/ LoseAnswer(t)
  PROVE  SessionInv'
<1> USE DEF SessionInv
<1>0. sess' = sess
  BY DEF StartFetch, Read, ReadRotated, ReadRefused, ReadLogin, ReadLogout, ReadData, ReadUnauthorized,
         ReadUnauthorizedAgain, LoseAnswer
<1>1. fetch[t] \in Fetch /\ (fetch[t].phase # "idle" => fetch[t].call \in 1..MaxCalls)
  BY DEF FetchTyped, CallsNumbered
<1>2. RowsTyped'
  BY <1>0 DEF RowsTyped
<1>i. ASSUME fetch' = [fetch EXCEPT ![t] = Idle] PROVE FetchTyped' /\ CallsNumbered'
  BY <1>0, <1>i, IdleFetch, FetchMove
<1>3. ASSUME NEW kind \in Kinds, StartFetch(t, kind) PROVE SessionInv'
  <2>1. calls + 1 \in 1..MaxCalls /\ calls' = calls + 1 /\ UNCHANGED <<jar, stored, raced>>
    BY <1>3, SessionBoundsAssumption DEF StartFetch, HistoryTyped
  <2>c. calls + 1 \in 0..MaxCalls /\ FALSE \in BOOLEAN /\ JarTyped
    BY <2>1, SessionBoundsAssumption
  <2> DEFINE r == Sent(t, kind, calls + 1, FALSE)
  <2>2. r \in Fetch /\ r.phase = "sent" /\ r.call = calls + 1
    BY <2>c, SentTyped, Zenon
  <2>3. fetch' = [fetch EXCEPT ![t] = r]
    BY <1>3 DEF StartFetch
  <2> HIDE DEF r
  <2>4. FetchTyped' /\ CallsNumbered'
    BY <1>0, <2>1, <2>2, <2>3, FetchMove
  <2>5. JarTyped' /\ HistoryTyped'
    BY <2>1 DEF JarTyped, HistoryTyped
  <2> QED BY <1>2, <2>4, <2>5
<1>4. CASE ReadRotated(t)
  <2>1. fetch[t].call \in 1..MaxCalls /\ fetch[t].kind \in Kinds
    BY <1>1, <1>4 DEF ReadRotated, Fetch
  <2> DEFINE old == Sent(t, fetch[t].kind, fetch[t].call, TRUE)
             r == [old EXCEPT !.cred = IF stored # "none" THEN stored ELSE "valid", !.token = fetch[t].call]
  <2>c. fetch[t].call \in 0..MaxCalls /\ TRUE \in BOOLEAN /\ JarTyped
    BY <2>1, SessionBoundsAssumption
  <2>2. old \in Fetch /\ old.phase = "sent" /\ old.call = fetch[t].call
    BY <2>1, <2>c, SentTyped, Zenon
  <2>3. r \in Fetch /\ r.phase = "sent" /\ r.call = fetch[t].call
    <3> HIDE DEF old
    <3> QED BY <2>1, <2>2 DEF Fetch, JarTyped, Access
  <2>4. fetch' = [fetch EXCEPT ![t] = r]
    BY <1>4 DEF ReadRotated
  <2> HIDE DEF r
  <2>5. FetchTyped' /\ CallsNumbered'
    BY <1>0, <2>1, <2>3, <2>4, FetchMove
  <2>6. JarTyped' /\ HistoryTyped'
    BY <1>4, <2>1 DEF ReadRotated, JarTyped, HistoryTyped
  <2> QED BY <1>2, <2>5, <2>6
<1>5. CASE ReadRefused(t) \/ ReadLogin(t) \/ ReadLogout(t) \/ ReadData(t) \/ ReadUnauthorizedAgain(t) \/ LoseAnswer(t)
  <2>1. fetch' = [fetch EXCEPT ![t] = Idle]
    BY <1>5 DEF ReadRefused, ReadLogin, ReadLogout, ReadData, ReadUnauthorizedAgain, LoseAnswer
  <2>2. calls' = calls /\ raced' \in BOOLEAN
    BY <1>5 DEF ReadRefused, ReadLogin, ReadLogout, ReadData, ReadUnauthorizedAgain, LoseAnswer, HistoryTyped
  <2>3. stored' \in {stored, "none", "valid"}
    BY <1>5 DEF ReadRefused, ReadLogin, ReadLogout, ReadData, ReadUnauthorizedAgain, LoseAnswer
  <2>4. jar' = jar \/ jar' = NoCookies \/ (fetch[t].phase = "served" /\ jar' = [refresh |-> fetch[t].call, access |-> "valid"])
    BY <1>5 DEF ReadRefused, ReadLogin, ReadLogout, ReadData, ReadUnauthorizedAgain, LoseAnswer
  <2>5. JarTyped'
    BY <1>1, <2>3, <2>4, SessionBoundsAssumption DEF JarTyped, NoCookies, Access
  <2>6. HistoryTyped'
    BY <2>2 DEF HistoryTyped
  <2> QED BY <1>2, <1>i, <2>1, <2>5, <2>6
<1>6. CASE ReadUnauthorized(t)
  <2> DEFINE r == [fetch[t] EXCEPT !.phase = "refresh", !.token = jar.refresh]
  <2>1. r \in Fetch /\ r.phase = "refresh" /\ r.call = fetch[t].call
    BY <1>1 DEF Fetch, Phases, JarTyped
  <2>2. fetch' = [fetch EXCEPT ![t] = r] /\ fetch[t].phase = "served" /\ UNCHANGED <<jar, stored, calls, raced>>
    BY <1>6 DEF ReadUnauthorized
  <2> HIDE DEF r
  <2>3. FetchTyped' /\ CallsNumbered'
    BY <1>0, <1>1, <2>1, <2>2, FetchMove
  <2>4. JarTyped' /\ HistoryTyped'
    BY <2>2 DEF JarTyped, HistoryTyped
  <2> QED BY <1>2, <2>3, <2>4
<1> QED BY <1>3, <1>4, <1>5, <1>6 DEF Read

\* Every step keeps the invariant.
LEMMA NextSessionInv == SessionInv /\ [SessionNext]_sessionVars => SessionInv'
<1> SUFFICES ASSUME SessionInv, [SessionNext]_sessionVars PROVE SessionInv'
  OBVIOUS
<1>1. CASE StoredTokenExpires \/ AccessCookieExpires
  <2>1. UNCHANGED <<sess, fetch, calls, raced>>
    BY <1>1 DEF StoredTokenExpires, AccessCookieExpires
  <2>2. stored' \in Access /\ \E a \in {jar.access, "none"} : jar' = [jar EXCEPT !.access = a]
    BY <1>1 DEF StoredTokenExpires, AccessCookieExpires, Access, SessionInv, JarTyped
  <2>3. JarTyped'
    BY <2>2 DEF SessionInv, JarTyped
  <2> QED BY <2>1, <2>3 DEF SessionInv, RowsTyped, FetchTyped, HistoryTyped, CallsNumbered
<1>2. ASSUME NEW s \in DOMAIN sess, SessionExpires(s) PROVE SessionInv'
  <2>1. UNCHANGED <<jar, stored, fetch, calls, raced>> /\ sess' = [sess EXCEPT ![s].expired = TRUE]
    BY <1>2 DEF SessionExpires
  <2>2. sess \in Seq(Row) /\ DOMAIN sess = 1..Len(sess) /\ Len(sess) \in Nat /\ sess \in [DOMAIN sess -> Row]
    BY LenProperties DEF SessionInv, RowsTyped
  <2>3. [sess[s] EXCEPT !.expired = TRUE] \in Row
    BY <2>2 DEF Row
  <2>4. sess' \in [DOMAIN sess -> Row]
    BY <2>1, <2>2, <2>3
  <2>5. RowsTyped' /\ DOMAIN sess' = DOMAIN sess
    BY <2>2, <2>4 DEF RowsTyped
  <2> QED BY <2>1, <2>5 DEF SessionInv, JarTyped, FetchTyped, HistoryTyped, CallsNumbered
<1>3. CASE UNCHANGED sessionVars
  BY <1>3 DEF sessionVars, SessionInv, RowsTyped, JarTyped, FetchTyped, HistoryTyped, CallsNumbered
<1> QED BY <1>1, <1>2, <1>3, ServeKeeps, TabKeeps DEF SessionNext

\* Before the first request.
LEMMA InitSessionInv == SessionInit => SessionInv
<1> SUFFICES ASSUME SessionInit PROVE SessionInv
  OBVIOUS
<1>1. RowsTyped
  BY EmptySeq DEF SessionInit, RowsTyped
<1>2. JarTyped /\ HistoryTyped
  <2>1. 0 \in 0..MaxCalls /\ FALSE \in BOOLEAN
    BY SessionBoundsAssumption
  <2>2. jar \in [refresh : 0..MaxCalls, access : {"none", "valid"}]
    BY <2>1 DEF SessionInit
  <2> QED BY <2>1, <2>2 DEF SessionInit, JarTyped, HistoryTyped, Access
<1>3. FetchTyped /\ CallsNumbered
  BY IdleFetch DEF SessionInit, FetchTyped, CallsNumbered
<1> QED BY <1>1, <1>2, <1>3 DEF SessionInv

\* The sessions of auth-routes.ts and the tabs of lib/auth.ts, for any number
\* of tabs and requests, stay as SessionInv says.
THEOREM SessionInvariance == SessionSpec => []SessionInv
BY InitSessionInv, NextSessionInv, PTL DEF SessionSpec

\* Rows, cookies and requests are of their types.
THEOREM SessionTypes == SessionSpec => []SessionTypeOK
<1>1. SessionInv => SessionTypeOK
  BY DEF SessionInv, RowsTyped, JarTyped, FetchTyped, HistoryTyped, SessionTypeOK, Row, Fetch
<1> QED BY <1>1, SessionInvariance, PTL

-----------------------------------------------------------------------------
\* A step leaves a row revoked that nobody is about to rotate.
LEMMA StepKeepsRevoked ==
  SessionInv /\ [SessionNext]_sessionVars => [\A s \in DOMAIN sess : Gone(s) => Gone(s)']_sessionVars
<1> SUFFICES ASSUME SessionInv, SessionNext, NEW s \in DOMAIN sess, Gone(s) PROVE Gone(s)'
  BY DEF sessionVars
<1> USE DEF SessionInv
<1>1. sess \in Seq(Row) /\ DOMAIN sess = 1..Len(sess) /\ Len(sess) \in Nat /\ sess[s] \in Row /\ sess[s].revoked
  BY LenProperties DEF RowsTyped, Gone
<1>2. fetch \in [Tabs -> Fetch]
  BY DEF FetchTyped
<1>3. \A t \in Tabs : fetch[t].phase = "found" => fetch[t].row # s
  BY DEF Gone
<1>r. s \in DOMAIN sess' /\ sess'[s].revoked
  <2>1. CASE sess' = sess
    BY <1>1, <2>1
  <2>2. ASSUME NEW t \in Tabs, ServeLogin(t) PROVE s \in DOMAIN sess' /\ sess'[s].revoked
    <3> DEFINE r == [hash |-> fetch[t].call, revoked |-> FALSE, expired |-> FALSE]
    <3>1. r \in Row
      BY <2>2 DEF ServeLogin, Row, CallsNumbered
    <3>2. sess' = Append(sess, r)
      BY <2>2 DEF ServeLogin
    <3>3. sess'[s] = sess[s] /\ sess' \in Seq(Row) /\ Len(sess') = Len(sess) + 1
      BY <1>1, <3>1, <3>2, AppendProperties
    <3>4. DOMAIN sess' = 1..Len(sess')
      BY <3>3, LenProperties
    <3> QED BY <1>1, <3>3, <3>4
  <2>3. ASSUME NEW t \in Tabs, ServeLogout(t) \/ ServeLogoutAll(t) PROVE s \in DOMAIN sess' /\ sess'[s].revoked
    BY <1>1, <2>3 DEF ServeLogout, ServeLogoutAll, Row
  <2>4. ASSUME NEW t \in Tabs, RefreshRotate(t) PROVE s \in DOMAIN sess' /\ sess'[s].revoked
    BY <1>1, <1>3, <2>4 DEF RefreshRotate
  <2>5. ASSUME NEW u \in DOMAIN sess, SessionExpires(u) PROVE s \in DOMAIN sess' /\ sess'[s].revoked
    BY <1>1, <2>5 DEF SessionExpires, Row
  <2>6. ASSUME NEW t \in Tabs, (\E kind \in Kinds : StartFetch(t, kind)) \/ Read(t) \/ LoseAnswer(t) PROVE sess' = sess
    BY <2>6 DEF StartFetch, Read, ReadRotated, ReadRefused, ReadLogin, ReadLogout, ReadData, ReadUnauthorized,
                ReadUnauthorizedAgain, LoseAnswer
  <2>7. ASSUME NEW t \in Tabs, ServeData(t) \/ RefreshFind(t) PROVE sess' = sess
    BY <2>7 DEF ServeData, RefreshFind
  <2>8. ASSUME StoredTokenExpires \/ AccessCookieExpires PROVE sess' = sess
    BY <2>8 DEF StoredTokenExpires, AccessCookieExpires
  <2> QED BY <2>1, <2>2, <2>3, <2>4, <2>5, <2>6, <2>7, <2>8 DEF SessionNext, Serve
<1>f. \A t \in Tabs : fetch'[t].phase = "found" => fetch'[t].row # s
  <2> DEFINE Safe == \A t \in Tabs : fetch'[t].phase = "found" => fetch'[t].row # s
  <2>1. ASSUME UNCHANGED fetch PROVE Safe
    BY <1>3, <2>1
  <2>2. ASSUME NEW t \in Tabs, NEW r, fetch' = [fetch EXCEPT ![t] = r], r.phase = "found" => r.row # s PROVE Safe
    BY <1>2, <1>3, <2>2
  <2>t. \A t \in Tabs : fetch[t] \in Fetch
    BY <1>2
  <2>3. ASSUME NEW t \in Tabs, NEW kind \in Kinds, StartFetch(t, kind) PROVE Safe
    <3>1. fetch' = [fetch EXCEPT ![t] = Sent(t, kind, calls + 1, FALSE)] /\ Sent(t, kind, calls + 1, FALSE).phase = "sent"
      BY <2>3 DEF StartFetch, Sent
    <3> QED BY <2>2, <3>1
  <2>4. ASSUME NEW t \in Tabs, ServeLogin(t) \/ ServeData(t) \/ ServeLogout(t) \/ ServeLogoutAll(t) PROVE Safe
    <3>1. PICK ok : fetch' = [fetch EXCEPT ![t].phase = "served", ![t].ok = ok]
      BY <2>4 DEF ServeLogin, ServeData, ServeLogout, ServeLogoutAll, Served
    <3> DEFINE r == [fetch[t] EXCEPT !.phase = "served", !.ok = ok]
    <3>2. fetch' = [fetch EXCEPT ![t] = r] /\ r.phase = "served"
      BY <2>t, <3>1 DEF Fetch
    <3> QED BY <2>2, <3>2
  <2>5. ASSUME NEW t \in Tabs, RefreshFind(t) PROVE Safe
    <3> DEFINE found == {u \in Rows(fetch[t].token) : Live(u)}
               phase == IF found = {} THEN "refused" ELSE "found"
               row   == IF found = {} THEN 0 ELSE CHOOSE u \in found : TRUE
    <3>1. /\ fetch' = [fetch EXCEPT ![t].phase = phase, ![t].row = row]
          /\ phase = "found" => found # {} /\ row = CHOOSE u \in found : TRUE
      BY <2>5 DEF RefreshFind
    <3> HIDE DEF phase, row
    <3>2. s \notin found
      BY <1>1 DEF Live
    <3>3. phase = "found" => row # s
      BY <3>1, <3>2
    <3> DEFINE r == [fetch[t] EXCEPT !.phase = phase, !.row = row]
    <3>4. fetch' = [fetch EXCEPT ![t] = r] /\ r.phase = phase /\ r.row = row
      BY <2>t, <3>1 DEF Fetch
    <3> HIDE DEF r, found
    <3> QED BY <2>2, <3>3, <3>4
  <2>6. ASSUME NEW t \in Tabs, RefreshRotate(t) PROVE Safe
    <3> DEFINE r == [fetch[t] EXCEPT !.phase = "rotated"]
    <3>1. fetch' = [fetch EXCEPT ![t] = r] /\ r.phase = "rotated"
      BY <2>t, <2>6 DEF RefreshRotate, Fetch
    <3> QED BY <2>2, <3>1
  <2>7. ASSUME NEW t \in Tabs, ReadRotated(t) PROVE Safe
    <3> DEFINE r == [Sent(t, fetch[t].kind, fetch[t].call, TRUE) EXCEPT
                       !.cred = IF stored # "none" THEN stored ELSE "valid", !.token = fetch[t].call]
    <3>1. fetch' = [fetch EXCEPT ![t] = r] /\ r.phase = "sent"
      BY <2>7 DEF ReadRotated, Sent
    <3> QED BY <2>2, <3>1
  <2>8. ASSUME NEW t \in Tabs, ReadUnauthorized(t) PROVE Safe
    <3> DEFINE r == [fetch[t] EXCEPT !.phase = "refresh", !.token = jar.refresh]
    <3>1. fetch' = [fetch EXCEPT ![t] = r] /\ r.phase = "refresh"
      BY <2>t, <2>8 DEF ReadUnauthorized, Fetch
    <3> QED BY <2>2, <3>1
  <2>9. ASSUME NEW t \in Tabs,
               \/ ReadRefused(t) \/ ReadLogin(t) \/ ReadLogout(t) \/ ReadData(t)
               \/ ReadUnauthorizedAgain(t) \/ LoseAnswer(t)
        PROVE  Safe
    <3>1. fetch' = [fetch EXCEPT ![t] = Idle]
      BY <2>9 DEF ReadRefused, ReadLogin, ReadLogout, ReadData, ReadUnauthorizedAgain, LoseAnswer
    <3> QED BY <2>2, <3>1, IdleFetch
  <2>10. ASSUME \/ StoredTokenExpires \/ AccessCookieExpires
                \/ \E u \in DOMAIN sess : SessionExpires(u)
         PROVE  Safe
    BY <2>1, <2>10 DEF StoredTokenExpires, AccessCookieExpires, SessionExpires
  <2> HIDE DEF Safe
  <2>11. Safe
    BY <2>3, <2>4, <2>5, <2>6, <2>7, <2>8, <2>9, <2>10 DEF SessionNext, Serve, Read
  <2> QED BY <2>11 DEF Safe
<1> QED BY <1>r, <1>f DEF Gone

\* Once a logout has revoked a row of sessionsRepo and no refresh that read the
\* row before holds it, no sequence of requests of any tabs makes it live again.
THEOREM RevokedForGood == SessionSpec => RevokedStaysRevoked
BY SessionInvariance, StepKeepsRevoked, PTL DEF SessionSpec, RevokedStaysRevoked

-----------------------------------------------------------------------------
(* The refresh cookie.                                                      *)

HasRow(token) == \E s \in DOMAIN sess : sess[s].hash = token

\* Tokens are the numbers of the requests they were given to.
Numbered ==
  /\ jar.refresh <= calls /\ \A s \in DOMAIN sess : sess[s].hash <= calls
  /\ \A t \in Tabs : fetch[t].token <= calls /\ fetch[t].call <= calls

\* The token of a login is known to nobody before its answer is read, so that
\* nobody can rotate its row.
Opening(t) ==
  fetch[t].kind = "login" =>
    /\ fetch[t].phase \in {"sent", "served"} /\ (fetch[t].phase = "served" => fetch[t].ok)
    /\ jar.refresh # fetch[t].call
    /\ \A u \in Tabs : fetch[u].token # fetch[t].call /\ (u # t => fetch[u].call # fetch[t].call)
    /\ fetch[t].phase = "sent" => ~HasRow(fetch[t].call)
    /\ fetch[t].phase = "served" =>
         /\ HasRow(fetch[t].call)
         /\ \A u \in Tabs : fetch[u].phase = "found" => sess[fetch[u].row].hash # fetch[t].call

\* The cookie names a row, or the one that was rotated away is being answered for.
CookieInv ==
  /\ SessionInv /\ Numbered /\ \A t \in Tabs : Opening(t)
  /\ ~raced => /\ \A t \in Tabs : fetch[t].phase = "rotated" => HasRow(fetch[t].call)
               /\ jar.refresh # 0 => HasRow(jar.refresh) \/ \E t \in Tabs : fetch[t].phase = "rotated"

SameHashes == DOMAIN sess' = DOMAIN sess /\ \A s \in DOMAIN sess : sess'[s].hash = sess[s].hash

\* Numbers are numbers.
LEMMA NumberFacts ==
  ASSUME SessionInv
  PROVE  /\ calls \in Nat /\ jar.refresh \in Nat /\ \A s \in DOMAIN sess : sess[s].hash \in Nat
         /\ \A t \in Tabs : /\ fetch[t].call \in Nat /\ fetch[t].token \in Nat
                            /\ fetch[t].phase # "idle" => fetch[t].call > 0
                            /\ fetch[t].phase = "found" => fetch[t].row \in DOMAIN sess
<1> USE SessionBoundsAssumption DEF SessionInv
<1>1. calls \in Nat /\ jar.refresh \in Nat
  BY DEF HistoryTyped, JarTyped
<1>2. \A s \in DOMAIN sess : sess[s].hash \in Nat
  <2>1. \A s \in DOMAIN sess : sess[s] \in Row
    BY LenProperties DEF RowsTyped
  <2> QED BY <2>1 DEF Row
<1>3. ASSUME NEW t \in Tabs
      PROVE  /\ fetch[t].call \in Nat /\ fetch[t].token \in Nat /\ (fetch[t].phase # "idle" => fetch[t].call > 0)
             /\ fetch[t].phase = "found" => fetch[t].row \in DOMAIN sess
  <2>1. fetch[t] \in Fetch
    BY DEF FetchTyped
  <2> QED BY <2>1 DEF Fetch, CallsNumbered
<1> QED BY <1>1, <1>2, <1>3

\* A step of one tab that leaves the tokens of the rows.
LEMMA TabMoves ==
  ASSUME CookieInv, SessionInv', SameHashes, NEW t \in Tabs, NEW r, fetch' = [fetch EXCEPT ![t] = r],
         raced => raced', calls' \in {calls, calls + 1},
         jar'.refresh \in {0, jar.refresh, fetch[t].call},
         r.token \in {0, jar.refresh, fetch[t].token, fetch[t].call},
         r.call \in {0, fetch[t].call} \/ (r.call = calls + 1 /\ calls' = calls + 1),
         r.kind = "login" => r.phase = "sent" /\ r.call = calls + 1 /\ r.token = jar.refresh /\ jar' = jar,
         r.phase # "rotated",
         r.phase = "found" => r.row \in DOMAIN sess /\ sess[r.row].hash = fetch[t].token,
         fetch[t].phase = "rotated" /\ ~raced' => jar'.refresh \in {0, fetch[t].call},
         ~raced' /\ jar'.refresh \notin {0, jar.refresh} => HasRow(fetch[t].call)
  PROVE  CookieInv'
<1> USE NumberFacts DEF CookieInv
<1>1. fetch'[t] = r /\ \A u \in Tabs \ {t} : fetch'[u] = fetch[u]
  BY DEF SessionInv, FetchTyped
<1>2. \A c : HasRow(c) <=> \E s \in DOMAIN sess' : sess'[s].hash = c
  BY DEF SameHashes, HasRow
<1>3. Numbered'
  BY <1>1 DEF Numbered, SameHashes
<1>4. ASSUME NEW u \in Tabs, fetch'[u].kind = "login" PROVE Opening(u)'
  <2>1. CASE u = t
    <3>1. /\ r.phase = "sent" /\ r.call = calls + 1 /\ r.token = jar.refresh /\ jar' = jar
      BY <1>1, <1>4, <2>1
    <3>2. jar'.refresh # r.call /\ \A v \in Tabs : fetch'[v].token # r.call /\ (v # t => fetch'[v].call # r.call)
      BY <1>1, <3>1 DEF Numbered
    <3>3. ~HasRow(r.call)'
      BY <1>2, <3>1 DEF Numbered, HasRow
    <3> QED BY <1>1, <2>1, <3>1, <3>2, <3>3 DEF Opening
  <2>2. CASE u # t
    <3>1. Opening(u) /\ fetch'[u] = fetch[u] /\ fetch[u].kind = "login" /\ fetch[u].call > 0 /\ fetch[u].call <= calls
      BY <1>1, <1>4, <2>2 DEF Opening, Numbered
    <3>c. PICK c : c = fetch[u].call
      OBVIOUS
    <3>2. jar.refresh # c /\ fetch[t].call # c /\ fetch[t].token # c /\ c # 0 /\ c # calls + 1
      BY <2>2, <3>1, <3>c DEF Opening
    <3>3. jar'.refresh # c /\ r.token # c /\ r.call # c
      BY <3>2
    <3>4. \A v \in Tabs : fetch'[v].token # c /\ (v # u => fetch'[v].call # c)
      BY <1>1, <3>1, <3>3, <3>c DEF Opening
    <3>5. HasRow(c)' <=> HasRow(c)
      BY <1>2 DEF HasRow
    <3>6. fetch[u].phase = "served" => \A v \in Tabs : fetch'[v].phase = "found" => sess'[fetch'[v].row].hash # c
      <4>1. ASSUME NEW v \in Tabs, fetch[u].phase = "served", fetch'[v].phase = "found" PROVE sess'[fetch'[v].row].hash # c
        <5>1. CASE v = t
          BY <1>1, <3>2, <4>1, <5>1 DEF SameHashes
        <5>2. CASE v # t
          BY <1>1, <3>1, <3>c, <4>1, <5>2 DEF SameHashes, Opening
        <5> QED BY <5>1, <5>2
      <4> QED BY <4>1
    <3> QED BY <1>1, <2>2, <3>1, <3>3, <3>4, <3>5, <3>6, <3>c DEF Opening, HasRow
  <2> QED BY <2>1, <2>2
<1>5. ASSUME ~raced'
      PROVE  /\ \A u \in Tabs : fetch'[u].phase = "rotated" => HasRow(fetch[u].call)'
             /\ jar'.refresh # 0 => HasRow(jar.refresh)' \/ \E u \in Tabs : fetch'[u].phase = "rotated"
  <2>1. ~raced
    BY <1>5
  <2>2. ASSUME NEW u \in Tabs, fetch'[u].phase = "rotated" PROVE HasRow(fetch[u].call)'
    <3>1. fetch'[u] = fetch[u]
      BY <1>1, <2>2
    <3>2. HasRow(fetch[u].call)
      BY <2>1, <2>2, <3>1
    <3>3. \E s \in DOMAIN sess' : sess'[s].hash = fetch'[u].call
      BY <1>2, <3>1, <3>2
    <3> QED BY <3>3 DEF HasRow
  <2>3. ASSUME jar'.refresh # 0 PROVE HasRow(jar.refresh)' \/ \E u \in Tabs : fetch'[u].phase = "rotated"
    <3>1. CASE \E s \in DOMAIN sess : sess[s].hash = jar'.refresh
      BY <3>1 DEF HasRow, SameHashes
    <3>2. CASE ~\E s \in DOMAIN sess : sess[s].hash = jar'.refresh
      <4>1. fetch[t].phase = "rotated" => HasRow(fetch[t].call) /\ jar'.refresh = fetch[t].call
        BY <1>5, <2>1, <2>3
      <4>2. jar'.refresh = jar.refresh
        BY <1>5, <2>3, <3>2 DEF HasRow
      <4>3. ~HasRow(jar.refresh) /\ fetch[t].phase # "rotated"
        BY <3>2, <4>1, <4>2 DEF HasRow
      <4> QED BY <1>1, <2>1, <2>3, <4>2, <4>3
    <3> QED BY <3>1, <3>2
  <2> QED BY <2>2, <2>3
<1> QED BY <1>3, <1>4, <1>5 DEF Opening

\* Refreshing is not for logins.
LEMMA NotALogin ==
  ASSUME CookieInv, NEW t \in Tabs, fetch[t].phase \notin {"sent", "served"} \/ ~fetch[t].ok, fetch[t].phase # "sent"
  PROVE  fetch[t].kind # "login"
BY DEF CookieInv, Opening

\* A login that is answered has a row of its own.
LEMMA LoginOpens ==
  ASSUME CookieInv, SessionInv', NEW t \in Tabs, ServeLogin(t)
  PROVE  CookieInv'
<1> USE NumberFacts DEF CookieInv
<1>c. PICK c : c = fetch[t].call
  OBVIOUS
<1>1. fetch[t].phase = "sent" /\ fetch[t].kind = "login" /\ UNCHANGED <<jar, stored, calls, raced>>
  BY DEF ServeLogin
<1> DEFINE row == [hash |-> c, revoked |-> FALSE, expired |-> FALSE]
<1>2. /\ DOMAIN sess = 1..Len(sess) /\ DOMAIN sess' = 1..(Len(sess) + 1) /\ Len(sess) \in Nat
      /\ \A s \in DOMAIN sess : sess'[s] = sess[s]
      /\ sess'[Len(sess) + 1].hash = c
  <2>1. c \in 1..MaxCalls
    BY <1>1, <1>c DEF SessionInv, CallsNumbered
  <2>2. row \in Row /\ sess \in Seq(Row) /\ sess' = Append(sess, row)
    BY <1>c, <2>1 DEF ServeLogin, SessionInv, RowsTyped, Row
  <2>3. /\ sess' \in Seq(Row) /\ Len(sess') = Len(sess) + 1 /\ sess'[Len(sess) + 1] = row
        /\ \A s \in 1..Len(sess) : sess'[s] = sess[s]
    BY <2>2, AppendProperties
  <2> QED BY <2>2, <2>3, LenProperties
<1>3. \A d : (\E s \in DOMAIN sess' : sess'[s].hash = d) <=> HasRow(d) \/ d = c
  BY <1>2 DEF HasRow
<1>4. fetch' = [fetch EXCEPT ![t] = [fetch[t] EXCEPT !.phase = "served", !.ok = TRUE]]
  BY DEF ServeLogin, Served
<1>5. /\ \A u \in Tabs \ {t} : fetch'[u] = fetch[u]
      /\ fetch'[t].phase = "served" /\ fetch'[t].ok /\ fetch'[t].kind = "login" /\ fetch'[t].call = c
      /\ fetch'[t].token = fetch[t].token
  <2>1. fetch \in [Tabs -> Fetch] /\ fetch[t] \in Fetch
    BY DEF SessionInv, FetchTyped
  <2> QED BY <1>1, <1>4, <1>c, <2>1 DEF Fetch
<1>6. Opening(t) /\ ~HasRow(c) /\ jar.refresh # c /\ c <= calls
      /\ \A u \in Tabs : fetch[u].token # c /\ (u # t => fetch[u].call # c)
  BY <1>1, <1>c DEF Opening, Numbered
<1>7. Numbered'
  BY <1>1, <1>2, <1>5, <1>6 DEF Numbered
<1>8. \A u \in Tabs : fetch'[u].phase = "found" =>
        fetch[u].phase = "found" /\ fetch'[u].row = fetch[u].row /\ fetch[u].row \in DOMAIN sess
        /\ sess'[fetch'[u].row].hash = sess[fetch[u].row].hash
  BY <1>2, <1>5
<1>9. Opening(t)'
  <2>1. HasRow(c)'
    BY <1>3 DEF HasRow
  <2>2. \A u \in Tabs : fetch'[u].phase = "found" => sess'[fetch'[u].row].hash # c
    BY <1>6, <1>8 DEF HasRow
  <2>3. \A u \in Tabs : fetch'[u].token # c /\ (u # t => fetch'[u].call # c)
    BY <1>5, <1>6
  <2> QED BY <1>1, <1>5, <1>6, <2>1, <2>2, <2>3 DEF Opening, HasRow
<1>10. ASSUME NEW u \in Tabs \ {t}, fetch[u].kind = "login" PROVE Opening(u)'
  <2>d. PICK d : d = fetch[u].call
    OBVIOUS
  <2>1. Opening(u) /\ d # c /\ fetch'[u] = fetch[u]
    BY <1>5, <1>6, <2>d
  <2>2. HasRow(d)' <=> HasRow(d)
    BY <1>3, <2>1 DEF HasRow
  <2>3. \A v \in Tabs : fetch'[v].token # d /\ (v # u => fetch'[v].call # d)
    BY <1>5, <1>10, <2>1, <2>d DEF Opening
  <2>4. fetch[u].phase = "served" => \A v \in Tabs : fetch'[v].phase = "found" => sess'[fetch'[v].row].hash # d
    BY <1>8, <1>10, <2>1, <2>d DEF Opening
  <2> QED BY <1>1, <1>10, <2>1, <2>2, <2>3, <2>4, <2>d DEF Opening, HasRow
<1>11. ASSUME ~raced'
       PROVE  /\ \A u \in Tabs : fetch'[u].phase = "rotated" => HasRow(fetch[u].call)'
              /\ jar'.refresh # 0 => HasRow(jar.refresh)' \/ \E u \in Tabs : fetch'[u].phase = "rotated"
  <2>1. ASSUME NEW u \in Tabs, fetch'[u].phase = "rotated" PROVE HasRow(fetch[u].call)'
    <3>1. fetch'[u] = fetch[u] /\ HasRow(fetch[u].call)
      BY <1>1, <1>5, <1>11, <2>1
    <3>2. \E s \in DOMAIN sess' : sess'[s].hash = fetch'[u].call
      BY <1>3, <3>1
    <3> QED BY <3>2 DEF HasRow
  <2>2. ASSUME jar'.refresh # 0 PROVE HasRow(jar.refresh)' \/ \E u \in Tabs : fetch'[u].phase = "rotated"
    <3>1. CASE HasRow(jar.refresh)
      <4>1. \E s \in DOMAIN sess' : sess'[s].hash = jar'.refresh
        BY <1>1, <1>3, <3>1
      <4> QED BY <4>1 DEF HasRow
    <3>2. CASE \E u \in Tabs : fetch[u].phase = "rotated"
      BY <1>1, <1>5, <3>2
    <3> QED BY <1>1, <1>11, <2>2, <3>1, <3>2
  <2> QED BY <2>1, <2>2
<1>12. \A u \in Tabs : Opening(u)'
  <2>1. ASSUME NEW u \in Tabs \ {t}, fetch[u].kind # "login" PROVE Opening(u)'
    BY <1>5, <2>1 DEF Opening
  <2> QED BY <1>9, <1>10, <2>1
<1> QED BY <1>7, <1>11, <1>12

\* A refresh that writes its row gives it the token it answers with.
LEMMA RefreshMovesRow ==
  ASSUME CookieInv, SessionInv', NEW t \in Tabs, RefreshRotate(t)
  PROVE  CookieInv'
<1> USE NumberFacts DEF CookieInv
<1>c. PICK c : c = fetch[t].call
  OBVIOUS
<1>w. PICK w : w = fetch[t].row
  OBVIOUS
<1>1. /\ fetch[t].phase = "found" /\ fetch[t].kind # "login" /\ UNCHANGED <<jar, stored, calls>> /\ w \in DOMAIN sess
      /\ ~raced' => ~raced /\ \A u \in Tabs \ {t} : fetch[u].phase # "rotated"
  BY <1>w, NotALogin DEF RefreshRotate, Refreshing
<1>2. /\ DOMAIN sess' = DOMAIN sess /\ sess'[w].hash = c
      /\ \A s \in DOMAIN sess \ {w} : sess'[s] = sess[s]
  BY <1>1, <1>c, <1>w DEF RefreshRotate
<1>3. /\ \A u \in Tabs \ {t} : fetch'[u] = fetch[u]
      /\ fetch'[t].phase = "rotated" /\ fetch'[t].kind # "login" /\ fetch'[t].call = c
      /\ fetch'[t].token = fetch[t].token
  <2>1. fetch \in [Tabs -> Fetch] /\ fetch[t] \in Fetch
    BY DEF SessionInv, FetchTyped
  <2> QED BY <1>1, <1>c, <2>1 DEF Fetch, RefreshRotate
<1>4. Numbered'
  BY <1>1, <1>2, <1>3, <1>c DEF Numbered
<1>5. ASSUME NEW u \in Tabs \ {t}, fetch[u].kind = "login" PROVE Opening(u)'
  <2>d. PICK d : d = fetch[u].call
    OBVIOUS
  <2>1. Opening(u) /\ d # c /\ fetch'[u] = fetch[u]
    BY <1>3, <1>5, <1>c, <2>d DEF Opening
  <2>2. \A v \in Tabs : fetch'[v].token # d /\ (v # u => fetch'[v].call # d)
    BY <1>3, <1>5, <1>c, <2>1, <2>d DEF Opening
  <2>3. HasRow(d)' => HasRow(d)
    BY <1>2, <2>1 DEF HasRow
  <2>4. fetch[u].phase = "served" => sess[w].hash # d
    BY <1>1, <1>5, <1>w, <2>1, <2>d DEF Opening
  <2>5. fetch[u].phase = "served" => HasRow(d)'
    BY <1>2, <1>5, <2>1, <2>4, <2>d DEF HasRow, Opening
  <2>6. ASSUME fetch[u].phase = "served", NEW v \in Tabs, fetch'[v].phase = "found" PROVE sess'[fetch'[v].row].hash # d
    <3>1. v # t /\ fetch'[v] = fetch[v] /\ fetch[v].row \in DOMAIN sess
      BY <1>3, <2>6
    <3>2. sess[fetch[v].row].hash # d
      BY <1>5, <2>1, <2>6, <2>d, <3>1 DEF Opening
    <3>3. CASE fetch[v].row = w
      BY <1>2, <2>1, <3>1, <3>3
    <3>4. CASE fetch[v].row # w
      BY <1>2, <3>1, <3>2, <3>4
    <3> QED BY <3>3, <3>4
  <2> QED BY <1>1, <1>5, <2>1, <2>2, <2>3, <2>5, <2>6, <2>d DEF Opening, HasRow
<1>6. \A u \in Tabs : Opening(u)'
  <2>1. ASSUME NEW u \in Tabs, fetch'[u].kind # "login" PROVE Opening(u)'
    BY <2>1 DEF Opening
  <2> QED BY <1>3, <1>5, <2>1
<1>7. ASSUME ~raced'
      PROVE  /\ \A u \in Tabs : fetch'[u].phase = "rotated" => HasRow(fetch[u].call)'
             /\ jar'.refresh # 0 => HasRow(jar.refresh)' \/ \E u \in Tabs : fetch'[u].phase = "rotated"
  <2>1. \A u \in Tabs : fetch'[u].phase = "rotated" => u = t
    BY <1>1, <1>3, <1>7
  <2>2. \E s \in DOMAIN sess' : sess'[s].hash = fetch'[t].call
    BY <1>1, <1>2, <1>3
  <2> QED BY <1>3, <2>1, <2>2 DEF HasRow
<1> QED BY <1>4, <1>6, <1>7

\* The other steps of the API.
LEMMA ServeKeepsCookie ==
  ASSUME CookieInv, SessionInv', NEW t \in Tabs, Serve(t)
  PROVE  CookieInv'
<1> USE DEF CookieInv
<1>0. fetch \in [Tabs -> Fetch] /\ fetch[t] \in Fetch
  BY DEF SessionInv, FetchTyped
<1>1. CASE ServeData(t) \/ ServeLogout(t) \/ ServeLogoutAll(t)
  <2>1. PICK ok : fetch' = [fetch EXCEPT ![t].phase = "served", ![t].ok = ok]
    BY <1>1 DEF ServeData, ServeLogout, ServeLogoutAll, Served
  <2>2. fetch[t].phase = "sent" /\ fetch[t].kind # "login" /\ UNCHANGED <<jar, calls, raced>>
    BY <1>1 DEF ServeData, ServeLogout, ServeLogoutAll
  <2> DEFINE r == [fetch[t] EXCEPT !.phase = "served", !.ok = ok]
  <2>3. /\ fetch' = [fetch EXCEPT ![t] = r] /\ r.phase = "served" /\ r.kind = fetch[t].kind
        /\ r.call = fetch[t].call /\ r.token = fetch[t].token
    BY <1>0, <2>1 DEF Fetch
  <2>4. SameHashes
    <3>1. \A s \in DOMAIN sess : sess[s] \in Row
      BY LenProperties DEF SessionInv, RowsTyped
    <3>2. CASE ServeData(t)
      BY <3>2 DEF SameHashes, ServeData
    <3>3. CASE ServeLogout(t)
      BY <3>1, <3>3 DEF SameHashes, ServeLogout, Row
    <3>4. CASE ServeLogoutAll(t)
      BY <3>1, <3>4 DEF SameHashes, ServeLogoutAll, Row
    <3> HIDE DEF CookieInv
    <3> QED BY <1>1, <3>2, <3>3, <3>4
  <2> HIDE DEF r, CookieInv
  <2> QED BY <2>2, <2>3, <2>4, TabMoves
<1>2. CASE RefreshFind(t)
  <2> DEFINE found == {s \in Rows(fetch[t].token) : Live(s)}
             phase == IF found = {} THEN "refused" ELSE "found"
             row   == IF found = {} THEN 0 ELSE CHOOSE s \in found : TRUE
  <2>1. /\ fetch' = [fetch EXCEPT ![t].phase = phase, ![t].row = row]
        /\ phase \in {"refused", "found"}
        /\ phase = "found" => found # {} /\ row = CHOOSE s \in found : TRUE
        /\ fetch[t].phase = "refresh" /\ UNCHANGED <<sess, jar, calls, raced>>
    BY <1>2 DEF RefreshFind
  <2>2. \A s \in found : s \in DOMAIN sess /\ sess[s].hash = fetch[t].token
    BY DEF Rows
  <2> HIDE DEF phase, row
  <2>3. phase = "found" => row \in DOMAIN sess /\ sess[row].hash = fetch[t].token
    BY <2>1, <2>2
  <2> DEFINE r == [fetch[t] EXCEPT !.phase = phase, !.row = row]
  <2>4. /\ fetch' = [fetch EXCEPT ![t] = r] /\ r.phase = phase /\ r.row = row /\ r.kind = fetch[t].kind
        /\ r.call = fetch[t].call /\ r.token = fetch[t].token
    BY <1>0, <2>1 DEF Fetch
  <2>5. SameHashes /\ fetch[t].kind # "login" /\ r.phase # "rotated"
    BY <2>1, <2>4, NotALogin DEF SameHashes
  <2>6. r.phase = "found" => r.row \in DOMAIN sess /\ sess[r.row].hash = fetch[t].token
    BY <2>3, <2>4
  <2> HIDE DEF r, found, CookieInv
  <2> QED BY <2>1, <2>4, <2>5, <2>6, TabMoves
<1> QED BY <1>1, <1>2, LoginOpens, RefreshMovesRow DEF Serve

\* The steps of a tab.
LEMMA TabKeepsCookie ==
  ASSUME CookieInv, SessionInv', NEW t \in Tabs,
         (\E kind \in Kinds : StartFetch(t, kind)) \/ Read(t) \/ LoseAnswer(t)
  PROVE  CookieInv'
<1> USE DEF CookieInv
<1>0. fetch \in [Tabs -> Fetch] /\ fetch[t] \in Fetch
  BY DEF SessionInv, FetchTyped
<1>s. SameHashes
  BY DEF StartFetch, Read, ReadRotated, ReadRefused, ReadLogin, ReadLogout, ReadData, ReadUnauthorized,
         ReadUnauthorizedAgain, LoseAnswer, SameHashes
<1>1. ASSUME NEW kind \in Kinds, StartFetch(t, kind) PROVE CookieInv'
  <2> DEFINE r == Sent(t, kind, calls + 1, FALSE)
  <2>1. /\ fetch' = [fetch EXCEPT ![t] = r] /\ r.phase = "sent" /\ r.call = calls + 1 /\ r.token = jar.refresh
        /\ fetch[t].phase = "idle" /\ calls' = calls + 1 /\ UNCHANGED <<jar, raced>>
    BY <1>1 DEF StartFetch, Sent
  <2> HIDE DEF r, CookieInv
  <2> QED BY <1>s, <2>1, TabMoves
<1>2. CASE ReadRotated(t)
  <2> DEFINE r == [Sent(t, fetch[t].kind, fetch[t].call, TRUE) EXCEPT
                     !.cred = IF stored # "none" THEN stored ELSE "valid", !.token = fetch[t].call]
  <2>1. /\ fetch' = [fetch EXCEPT ![t] = r] /\ r.phase = "sent" /\ r.call = fetch[t].call /\ r.token = fetch[t].call
        /\ r.kind = fetch[t].kind /\ fetch[t].phase = "rotated" /\ jar'.refresh = fetch[t].call
        /\ UNCHANGED <<calls, raced>>
    BY <1>2 DEF ReadRotated, Sent
  <2>2. fetch[t].kind # "login" /\ (~raced' => HasRow(fetch[t].call))
    BY <2>1, NotALogin
  <2> HIDE DEF r, CookieInv
  <2> QED BY <1>s, <2>1, <2>2, TabMoves
<1>3. CASE ReadRefused(t) \/ ReadLogin(t) \/ ReadLogout(t) \/ ReadData(t) \/ ReadUnauthorizedAgain(t) \/ LoseAnswer(t)
  <2>1. fetch' = [fetch EXCEPT ![t] = Idle] /\ calls' = calls
    BY <1>3 DEF ReadRefused, ReadLogin, ReadLogout, ReadData, ReadUnauthorizedAgain, LoseAnswer
  <2>2. (raced => raced') /\ (fetch[t].phase = "rotated" => raced')
    <3> HIDE DEF CookieInv
    <3>1. CASE LoseAnswer(t)
      BY <3>1 DEF LoseAnswer
    <3>2. CASE ~LoseAnswer(t)
      <4>1. raced' = raced /\ fetch[t].phase # "rotated"
        BY <1>3, <3>2 DEF ReadRefused, ReadLogin, ReadLogout, ReadData, ReadUnauthorizedAgain
      <4> QED BY <4>1
    <3> QED BY <3>1, <3>2
  <2>3. \/ jar' = jar \/ jar' = NoCookies
        \/ /\ fetch[t].phase = "served" /\ fetch[t].kind = "login"
           /\ jar' = [refresh |-> fetch[t].call, access |-> "valid"]
    <3> HIDE DEF CookieInv
    <3> QED BY <1>3 DEF ReadRefused, ReadLogin, ReadLogout, ReadData, ReadUnauthorizedAgain, LoseAnswer
  <2>4. jar'.refresh \in {0, jar.refresh, fetch[t].call} /\ (jar'.refresh \notin {0, jar.refresh} => HasRow(fetch[t].call))
    <3>1. CASE jar' = jar \/ jar' = NoCookies
      BY <3>1 DEF NoCookies
    <3>2. CASE /\ fetch[t].phase = "served" /\ fetch[t].kind = "login"
               /\ jar' = [refresh |-> fetch[t].call, access |-> "valid"]
      <4>1. HasRow(fetch[t].call)
        BY <3>2 DEF Opening
      <4>2. jar'.refresh = fetch[t].call
        BY <3>2
      <4> QED BY <4>1, <4>2
    <3> QED BY <2>3, <3>1, <3>2
  <2>5. Idle.phase = "idle" /\ Idle.kind = "data" /\ Idle.call = 0 /\ Idle.token = 0
    BY DEF Idle
  <2> HIDE DEF CookieInv
  <2> QED BY <1>s, <2>1, <2>2, <2>4, <2>5, TabMoves
<1>4. CASE ReadUnauthorized(t)
  <2> DEFINE r == [fetch[t] EXCEPT !.phase = "refresh", !.token = jar.refresh]
  <2>1. /\ fetch' = [fetch EXCEPT ![t] = r] /\ r.phase = "refresh" /\ r.token = jar.refresh
        /\ r.call = fetch[t].call /\ r.kind = fetch[t].kind
        /\ fetch[t].phase = "served" /\ ~fetch[t].ok /\ UNCHANGED <<jar, calls, raced>>
    BY <1>0, <1>4 DEF ReadUnauthorized, Fetch
  <2>2. fetch[t].kind # "login"
    BY <2>1, NotALogin
  <2> HIDE DEF r, CookieInv
  <2> QED BY <1>s, <2>1, <2>2, TabMoves
<1> QED BY <1>1, <1>2, <1>3, <1>4 DEF Read

\* Time leaves the tokens.
LEMMA TimeKeepsCookie ==
  ASSUME CookieInv, SessionInv', SameHashes, jar'.refresh = jar.refresh, UNCHANGED <<fetch, calls, raced>>
  PROVE  CookieInv'
<1> USE NumberFacts DEF CookieInv
<1>1. \A d : (\E s \in DOMAIN sess' : sess'[s].hash = d) <=> HasRow(d)
  BY DEF HasRow, SameHashes
<1>2. Numbered'
  BY DEF Numbered, SameHashes
<1>3. ASSUME NEW u \in Tabs PROVE Opening(u)'
  <2>1. Opening(u) /\ fetch' = fetch
    OBVIOUS
  <2>2. HasRow(fetch[u].call)' <=> HasRow(fetch[u].call)
    BY <1>1 DEF HasRow
  <2>3. \A v \in Tabs : fetch[v].phase = "found" => sess'[fetch[v].row].hash = sess[fetch[v].row].hash
    BY DEF SameHashes
  <2> QED BY <2>1, <2>2, <2>3 DEF Opening
<1>4. \A u \in Tabs : HasRow(fetch[u].call)' <=> HasRow(fetch[u].call)
  BY <1>1 DEF HasRow
<1>5. HasRow(jar.refresh)' <=> HasRow(jar.refresh)
  BY <1>1 DEF HasRow
<1> QED BY <1>2, <1>3, <1>4, <1>5

\* For any number of tabs, the refresh cookie of the browser follows the rows
\* of sessionsRepo as CookieInv says.
THEOREM CookieInvariance == SessionSpec => []CookieInv
<1>1. SessionInit /\ SessionInv => CookieInv
  BY SessionBoundsAssumption DEF SessionInit, CookieInv, Numbered, Opening, Idle, HasRow
<1>2. CookieInv /\ [SessionNext]_sessionVars => CookieInv'
  <2> SUFFICES ASSUME CookieInv, [SessionNext]_sessionVars PROVE CookieInv'
    OBVIOUS
  <2>1. SessionInv'
    BY NextSessionInv DEF CookieInv
  <2>2. CASE StoredTokenExpires \/ AccessCookieExpires \/ UNCHANGED sessionVars
    <3>1. SameHashes /\ UNCHANGED <<fetch, calls, raced>>
      BY <2>2 DEF StoredTokenExpires, AccessCookieExpires, sessionVars, SameHashes
    <3>2. jar \in [refresh : 0..MaxCalls, access : {"none", "valid"}]
      BY DEF CookieInv, SessionInv, JarTyped
    <3>3. jar'.refresh = jar.refresh
      BY <2>2, <3>2 DEF StoredTokenExpires, AccessCookieExpires, sessionVars
    <3> QED BY <2>1, <3>1, <3>3, TimeKeepsCookie
  <2>3. ASSUME NEW s \in DOMAIN sess, SessionExpires(s) PROVE CookieInv'
    <3>1. \A u \in DOMAIN sess : sess[u] \in Row
      BY LenProperties DEF CookieInv, SessionInv, RowsTyped
    <3>2. SameHashes /\ UNCHANGED <<jar, fetch, calls, raced>>
      BY <2>3, <3>1 DEF SessionExpires, SameHashes, Row
    <3> QED BY <2>1, <3>2, TimeKeepsCookie
  <2> QED BY <2>1, <2>2, <2>3, ServeKeepsCookie, TabKeepsCookie DEF SessionNext
<1>3. SessionInit => CookieInv
  <2>1. SessionInit => SessionInv
    BY InitSessionInv
  <2> QED BY <1>1, <2>1
<1> QED BY <1>2, <1>3, PTL DEF SessionSpec

\* A browser at rest with a refresh cookie is logged in by a row of sessionsRepo,
\* unless refreshes overlapped or the answer of one was lost.
THEOREM CookieStaysLive == SessionSpec => []CookieIsLive
<1>1. CookieInv => CookieIsLive
  <2> SUFFICES ASSUME CookieInv, \A t \in Tabs : fetch[t].phase = "idle", jar.refresh # 0, ~raced
               PROVE  Rows(jar.refresh) # {}
    BY DEF CookieIsLive
  <2>1. HasRow(jar.refresh)
    BY DEF CookieInv
  <2> QED BY <2>1 DEF HasRow, Rows
<1> QED BY <1>1, CookieInvariance, PTL

-----------------------------------------------------------------------------
(* Customers, events and what a user's row becomes: Billing.               *)

\* A checkout under way holds a customer of its own user.
CheckoutTyped ==
  /\ checkout \in [Checkouts -> [user : BillingUsers \cup {"none"},
                                 at : {"free", "create", "save", "session", "paid"}, customer : Nat]]
  /\ customerOf \in [BillingUsers -> {0} \cup DOMAIN customers]
  /\ \A c \in Checkouts :
       /\ checkout[c].at \in {"create", "save", "session"} => checkout[c].user \in BillingUsers
       /\ checkout[c].at \in {"save", "session"} =>
            checkout[c].customer \in DOMAIN customers /\ customers[checkout[c].customer] = checkout[c].user

\* The row of an event decides who writes it: a handler that processes one has
\* made its row, and nobody else processes it or has done so.
Writes(h, e) == hook[h] = [e |-> e, at |-> "process"]
HookTyped   == hook \in [Handlers -> [e : Nat, at : {"free", "create", "process"}]]
WriterHasRow ==
  \A h \in Handlers : hook[h].at = "process" =>
    hook[h].e \in eventRows /\ applied[hook[h].e] = 0
OneWriter   == \A h, g \in Handlers : hook[h].at = "process" /\ hook[g].at = "process" /\ hook[h].e = hook[g].e => h = g
NewIsUnacked == \A e \in EventIds \ eventRows : applied[e] = 0 /\ (e \in unacked \/ e \in spoiled)
AtMostOnce   == \A e \in EventIds : applied[e] \in {0, 1}
RowIsWritten == \A e \in eventRows : applied[e] = 1 \/ e \in spoiled \/ \E h \in Handlers : Writes(h, e)
DeliveryInv == HookTyped /\ WriterHasRow /\ OneWriter /\ NewIsUnacked /\ AtMostOnce /\ RowIsWritten

\* The inductive invariant.
BillingInv == BillingTypeOK /\ CheckoutTyped /\ DeliveryInv

\* Nothing has been delivered in the initial state.
LEMMA InitBillingInv == BillingInit => BillingInv
<1> SUFFICES ASSUME BillingInit PROVE BillingInv
  OBVIOUS
<1>1. BillingTypeOK
  <2>1. \A S : <<>> \in Seq(S)
    BY EmptySeq
  <2> QED BY <2>1 DEF BillingInit, BillingTypeOK, EventIds, Free, RawStatus
<1>2. CheckoutTyped
  BY DEF BillingInit, CheckoutTyped
<1>3. DeliveryInv
  BY DEF BillingInit, DeliveryInv, HookTyped, WriterHasRow, OneWriter, NewIsUnacked, AtMostOnce, RowIsWritten, EventIds, Free
<1> QED BY <1>1, <1>2, <1>3 DEF BillingInv

\* Events that Stripe makes are numbered on, and none of them is applied yet.
EventRecord == [cust : DOMAIN customers, kind : {"subscription", "checkout"}, status : RawStatus]
LEMMA EmitAppends ==
  ASSUME BillingInv, NEW cust, NEW raw, NEW news \in Seq(EventRecord), Emit(cust, raw, news)
  PROVE  /\ EventIds = 1..Len(events) /\ Len(events) \in Nat /\ Len(news) \in Nat
         /\ EventIds' = 1..(Len(events) + Len(news)) /\ EventIds \subseteq EventIds' /\ events' \in Seq(EventRecord)
         /\ unacked' = unacked \cup (EventIds' \ EventIds)
         /\ applied' \in [EventIds' -> Nat]
         /\ \A e \in EventIds : events'[e] = events[e] /\ applied'[e] = applied[e]
         /\ \A e \in EventIds' \ EventIds :
              applied'[e] = 0 /\ e - Len(events) \in 1..Len(news) /\ events'[e] = news[e - Len(events)]
<1> DEFINE fresh == [i \in 1..Len(news) |-> 0]
<1>0. /\ events \in Seq(EventRecord) /\ applied \in [EventIds -> Nat]
      /\ EventIds = 1..Len(events) /\ Len(events) \in Nat /\ Len(news) \in Nat
  BY LenProperties DEF BillingInv, BillingTypeOK, EventIds, EventRecord
<1>1. applied \in Seq(Nat) /\ Len(applied) = Len(events) /\ fresh \in Seq(Nat) /\ Len(fresh) = Len(news)
  BY <1>0
<1>2. /\ applied' \in Seq(Nat) /\ Len(applied') = Len(events) + Len(news)
      /\ \A i \in 1..Len(events) : applied'[i] = applied[i]
      /\ \A i \in (Len(events) + 1)..(Len(events) + Len(news)) : applied'[i] = 0
  <2>1. applied' = applied \o fresh
    BY DEF Emit
  <2>2. \A i \in (Len(events) + 1)..(Len(events) + Len(news)) : fresh[i - Len(events)] = 0
    BY <1>0
  <2>3. /\ applied \o fresh \in Seq(Nat) /\ Len(applied \o fresh) = Len(applied) + Len(fresh)
        /\ \A i \in 1..(Len(applied) + Len(fresh)) :
             (applied \o fresh)[i] = IF i <= Len(applied) THEN applied[i] ELSE fresh[i - Len(applied)]
    <3> HIDE DEF fresh
    <3> QED BY <1>1, ConcatProperties
  <2> HIDE DEF fresh
  <2> QED BY <1>0, <1>1, <2>1, <2>2, <2>3
<1>3. /\ events' \in Seq(EventRecord) /\ Len(events') = Len(events) + Len(news)
      /\ \A i \in 1..(Len(events) + Len(news)) :
           events'[i] = IF i <= Len(events) THEN events[i] ELSE news[i - Len(events)]
  BY <1>0, ConcatProperties DEF Emit
<1>4. EventIds' = 1..(Len(events) + Len(news)) /\ EventIds \subseteq EventIds'
  BY <1>0, <1>3, LenProperties DEF EventIds
<1>5. unacked' = unacked \cup (EventIds' \ EventIds)
  BY <1>0, <1>4 DEF Emit
<1>6. applied' \in [EventIds' -> Nat]
  BY <1>0, <1>2, <1>4, LenProperties
<1>7. \A e \in EventIds : events'[e] = events[e] /\ applied'[e] = applied[e]
  BY <1>0, <1>2, <1>3
<1>8. \A e \in EventIds' \ EventIds :
        applied'[e] = 0 /\ e - Len(events) \in 1..Len(news) /\ events'[e] = news[e - Len(events)]
  <2> SUFFICES ASSUME NEW e \in EventIds' \ EventIds
               PROVE  applied'[e] = 0 /\ e - Len(events) \in 1..Len(news) /\ events'[e] = news[e - Len(events)]
    OBVIOUS
  <2>1. e \in (Len(events) + 1)..(Len(events) + Len(news))
    BY <1>0, <1>4
  <2> QED BY <1>0, <1>2, <1>3, <2>1
<1> QED BY <1>0, <1>3, <1>4, <1>5, <1>6, <1>7, <1>8

\* Events that Stripe makes wait for their delivery.
LEMMA EmitKeeps ==
  ASSUME BillingInv, NEW cust \in DOMAIN customers, NEW raw \in RawStatus, NEW news \in Seq(EventRecord),
         Emit(cust, raw, news),
         UNCHANGED <<customers, customerOf, webhookVars>>
  PROVE  BillingTypeOK' /\ DeliveryInv'
<1>0. customers \in Seq(BillingUsers)
  BY DEF BillingInv, BillingTypeOK
<1>3. events' \in Seq(EventRecord)
  BY EmitAppends
<1>4. EventIds \subseteq EventIds' /\ unacked' = unacked \cup (EventIds' \ EventIds)
  BY EmitAppends
<1>5. applied' \in [EventIds' -> Nat]
  BY EmitAppends
<1>6. BillingTypeOK'
  <2>1. EventRecord' = EventRecord
    BY DEF EventRecord
  <2>2. subs' \in [DOMAIN customers -> RawStatus]
    BY DEF Emit, BillingInv, BillingTypeOK
  <2> QED BY <1>0, <1>3, <1>4, <1>5, <2>1, <2>2 DEF BillingInv, BillingTypeOK, EventRecord, webhookVars
<1>7. \A e \in EventIds : applied'[e] = applied[e]
  BY EmitAppends
<1>8. \A e \in EventIds' \ EventIds : applied'[e] = 0 /\ e \in unacked' /\ e \notin spoiled /\ e \notin eventRows
  BY <1>4, EmitAppends DEF BillingInv, BillingTypeOK
<1>9. DeliveryInv'
  <2>1. eventRows \subseteq EventIds
    BY DEF BillingInv, BillingTypeOK
  <2> QED BY <1>4, <1>7, <1>8, <2>1
          DEF BillingInv, DeliveryInv, HookTyped, WriterHasRow, OneWriter, NewIsUnacked, AtMostOnce, RowIsWritten, Writes, webhookVars
<1> QED BY <1>6, <1>9

\* The steps of a checkout.
LEMMA CheckoutKeeps ==
  ASSUME BillingInv, NEW c \in Checkouts,
         \/ \E u \in BillingUsers : CheckoutBegin(c, u)
         \/ CheckoutCreate(c) \/ CheckoutSave(c)
         \/ \E raw \in {"active", "trialing"} : Pay(c, raw)
  PROVE  BillingInv'
<1> USE DEF BillingInv
<1>d. ASSUME UNCHANGED <<events, unacked, applied, webhookVars>> PROVE DeliveryInv'
  BY <1>d DEF DeliveryInv, HookTyped, WriterHasRow, OneWriter, NewIsUnacked, AtMostOnce, RowIsWritten, Writes, EventIds, webhookVars
<1>1. ASSUME NEW u \in BillingUsers, CheckoutBegin(c, u) PROVE BillingInv'
  <2>1. BillingTypeOK'
    BY <1>1 DEF CheckoutBegin, BillingTypeOK, stripeVars, webhookVars, EventIds
  <2>2. CheckoutTyped'
    BY <1>1 DEF CheckoutBegin, CheckoutTyped, BillingTypeOK
  <2> QED BY <1>1, <1>d, <2>1, <2>2 DEF CheckoutBegin, stripeVars
<1>2. ASSUME CheckoutCreate(c) PROVE BillingInv'
  <2>0. checkout[c].user \in BillingUsers
    BY <1>2 DEF CheckoutCreate, CheckoutTyped
  <2>1. /\ customers' \in Seq(BillingUsers) /\ DOMAIN customers' = 1..(Len(customers) + 1)
        /\ DOMAIN customers = 1..Len(customers) /\ Len(customers) \in Nat
        /\ \A i \in DOMAIN customers : customers'[i] = customers[i]
        /\ customers'[Len(customers) + 1] = checkout[c].user
    BY <1>2, <2>0, AppendProperties, LenProperties DEF CheckoutCreate, BillingTypeOK
  <2>2. subs' \in [DOMAIN customers' -> RawStatus]
    <3>0. subs \in [1..Len(customers) -> RawStatus] /\ Len(customers) \in Nat
      BY <2>1 DEF BillingTypeOK
    <3>1. subs \in Seq(RawStatus) /\ Len(subs) = Len(customers)
      BY <3>0
    <3>2. subs' \in Seq(RawStatus) /\ Len(subs') = Len(customers) + 1
      BY <1>2, <3>1, AppendProperties DEF CheckoutCreate, RawStatus
    <3> QED BY <2>1, <3>2, LenProperties
  <2>3. events \in Seq([cust : DOMAIN customers', kind : {"subscription", "checkout"}, status : RawStatus])
    <3>1. [cust : DOMAIN customers, kind : {"subscription", "checkout"}, status : RawStatus]
            \subseteq [cust : DOMAIN customers', kind : {"subscription", "checkout"}, status : RawStatus]
      BY <2>1
    <3> QED BY <3>1, SeqMonotonic DEF BillingTypeOK
  <2>4. BillingTypeOK'
    BY <1>2, <2>1, <2>2, <2>3 DEF CheckoutCreate, BillingTypeOK, CheckoutTyped, webhookVars, EventIds
  <2>5. CheckoutTyped'
    <3> DEFINE new == [user |-> checkout[c].user, at |-> "save", customer |-> Len(customers) + 1]
    <3>1. customerOf' \in [BillingUsers -> {0} \cup DOMAIN customers']
      BY <1>2, <2>1 DEF CheckoutCreate, CheckoutTyped
    <3>2. checkout' = [checkout EXCEPT ![c] = new]
      BY <1>2 DEF CheckoutCreate, CheckoutTyped
    <3>3. new \in [user : BillingUsers \cup {"none"},
                   at : {"free", "create", "save", "session", "paid"}, customer : Nat]
          /\ new.user = checkout[c].user /\ new.customer = Len(customers) + 1
      BY <2>0, <2>1
    <3>4. \A d \in Checkouts \ {c} : checkout'[d] = checkout[d]
      BY <3>2 DEF CheckoutTyped
    <3>5. checkout'[c] = new
      BY <3>2 DEF CheckoutTyped
    <3> HIDE DEF new
    <3>6. \A d \in Checkouts :
            /\ checkout'[d].at \in {"create", "save", "session"} => checkout'[d].user \in BillingUsers
            /\ checkout'[d].at \in {"save", "session"} =>
                 checkout'[d].customer \in DOMAIN customers' /\ customers'[checkout'[d].customer] = checkout'[d].user
      BY <2>0, <2>1, <3>3, <3>4, <3>5 DEF CheckoutTyped
    <3> QED BY <3>1, <3>2, <3>3, <3>6 DEF CheckoutTyped
  <2> QED BY <1>2, <1>d, <2>4, <2>5 DEF CheckoutCreate
<1>3. ASSUME CheckoutSave(c) PROVE BillingInv'
  <2>1. BillingTypeOK'
    BY <1>3 DEF CheckoutSave, BillingTypeOK, CheckoutTyped, stripeVars, webhookVars, EventIds
  <2>2. CheckoutTyped'
    BY <1>3 DEF CheckoutSave, CheckoutTyped, BillingTypeOK
  <2> QED BY <1>3, <1>d, <2>1, <2>2 DEF CheckoutSave, stripeVars
<1>4. ASSUME NEW raw \in {"active", "trialing"}, Pay(c, raw) PROVE BillingInv'
  <2> DEFINE cust == checkout[c].customer
             news == << [cust |-> cust, kind |-> "subscription", status |-> raw],
                        [cust |-> cust, kind |-> "checkout", status |-> raw] >>
  <2>1. cust \in DOMAIN customers
    BY <1>4 DEF Pay, CheckoutTyped
  <2>2. news \in Seq(EventRecord) /\ raw \in RawStatus
    BY <2>1 DEF EventRecord, RawStatus
  <2>3. Emit(cust, raw, news) /\ UNCHANGED <<customers, customerOf, webhookVars>>
    BY <1>4 DEF Pay
  <2>4. BillingTypeOK' /\ DeliveryInv'
    <3> HIDE DEF news, cust
    <3> QED BY <2>1, <2>2, <2>3, EmitKeeps
  <2>5. CheckoutTyped'
    BY <1>4 DEF Pay, CheckoutTyped
  <2> QED BY <2>4, <2>5
<1> QED BY <1>1, <1>2, <1>3, <1>4

\* The steps of a webhook handler, and a restart.
LEMMA HookKeeps ==
  ASSUME BillingInv,
         \/ \E h \in Handlers : \/ \E e \in unacked : HookBegin(h, e)
                                \/ HookCreate(h) \/ HookCreateFails(h) \/ HookProcess(h) \/ HookFails(h)
         \/ BillingRestart
  PROVE  BillingInv'
<1> USE DEF BillingInv
<1>0. unacked \subseteq EventIds /\ eventRows \subseteq EventIds /\ EventIds \subseteq Nat
  BY LenProperties DEF BillingTypeOK, EventIds
<1>c. ASSUME UNCHANGED <<customers, customerOf, checkout>> PROVE CheckoutTyped'
  BY <1>c DEF CheckoutTyped
<1>1. ASSUME NEW h \in Handlers, NEW e \in unacked, HookBegin(h, e) PROVE BillingInv'
  <2>1. BillingTypeOK'
    <3>1. \A g \in Handlers : hook'[g] = hook[g] \/ hook'[g] = [e |-> e, at |-> "create"]
      BY <1>1 DEF HookBegin, DeliveryInv, HookTyped
    <3>2. unacked' \subseteq EventIds /\ e \in EventIds
      BY <1>0, <1>1 DEF HookBegin
    <3>3. UNCHANGED <<customers, subs, events, customerOf, subscription, eventRows, checkout, applied, spoiled>>
      BY <1>1 DEF HookBegin
    <3>4. \A g \in Handlers : hook[g] = Free \/ (hook[g].e \in EventIds /\ hook[g].at \in {"create", "process"})
      BY DEF BillingTypeOK
    <3>5. [e |-> e, at |-> "create"].e \in EventIds /\ [e |-> e, at |-> "create"].at \in {"create", "process"}
      BY <3>2
    <3>6. \A g \in Handlers : hook'[g] = Free \/ (hook'[g].e \in EventIds /\ hook'[g].at \in {"create", "process"})
      BY <3>1, <3>4, <3>5
    <3> QED BY <3>2, <3>3, <3>6 DEF BillingTypeOK, EventIds, Free
  <2>2. DeliveryInv'
    <3>1. \A f \in EventIds \ eventRows : f \in unacked => f \in unacked'
      BY <1>1 DEF HookBegin
    <3>2. \A g \in Handlers : hook'[g] = hook[g] \/ (hook[g] = Free /\ hook'[g] = [e |-> e, at |-> "create"])
      BY <1>1 DEF HookBegin, DeliveryInv, HookTyped
    <3>3. HookTyped' /\ WriterHasRow' /\ OneWriter'
      BY <1>0, <1>1, <3>2 DEF HookBegin, DeliveryInv, HookTyped, WriterHasRow, OneWriter
    <3>4. NewIsUnacked' /\ AtMostOnce'
      BY <1>1, <3>1 DEF HookBegin, DeliveryInv, NewIsUnacked, AtMostOnce, EventIds
    <3>5. RowIsWritten'
      BY <1>1, <3>2 DEF HookBegin, DeliveryInv, RowIsWritten, Writes, Free
    <3> QED BY <3>3, <3>4, <3>5 DEF DeliveryInv
  <2> QED BY <1>1, <1>c, <2>1, <2>2 DEF HookBegin
<1>2. ASSUME NEW h \in Handlers, HookCreate(h) PROVE BillingInv'
  <2>1. hook[h].e \in EventIds
    BY <1>2 DEF HookCreate, BillingTypeOK, Free
  <2>2. BillingTypeOK'
    <3>1. \A g \in Handlers \ {h} : hook'[g] = hook[g]
      BY <1>2 DEF HookCreate, DeliveryInv, HookTyped
    <3>2. hook'[h] = Free \/ (hook'[h].e = hook[h].e /\ hook'[h].at = "process")
      BY <1>2 DEF HookCreate, DeliveryInv, HookTyped
    <3>3. unacked' \subseteq EventIds /\ eventRows' \subseteq EventIds
      BY <1>0, <1>2, <2>1 DEF HookCreate
    <3> QED BY <1>2, <2>1, <3>1, <3>2, <3>3 DEF HookCreate, BillingTypeOK, EventIds
  <2>3. DeliveryInv'
    <3>1. CASE hook[h].e \in eventRows
      BY <1>0, <1>2, <2>1, <3>1 DEF HookCreate, DeliveryInv, HookTyped, WriterHasRow, OneWriter, NewIsUnacked, AtMostOnce,
                                    RowIsWritten, Writes, EventIds, Free
    <3>2. CASE hook[h].e \notin eventRows
      <4>1. /\ hook' = [hook EXCEPT ![h].at = "process"] /\ eventRows' = eventRows \cup {hook[h].e}
            /\ UNCHANGED <<unacked, events, applied, spoiled>>
        BY <1>2, <3>2 DEF HookCreate
      <4>2. hook'[h] = [e |-> hook[h].e, at |-> "process"] /\ \A g \in Handlers \ {h} : hook'[g] = hook[g]
        BY <4>1 DEF DeliveryInv, HookTyped
      <4>3. applied[hook[h].e] = 0
        BY <2>1, <3>2 DEF DeliveryInv, NewIsUnacked
      <4>4. HookTyped'
        BY <4>1 DEF DeliveryInv, HookTyped
      <4>5. WriterHasRow' /\ OneWriter' /\ NewIsUnacked' /\ AtMostOnce'
        BY <3>2, <4>1, <4>2, <4>3 DEF DeliveryInv, WriterHasRow, OneWriter, NewIsUnacked, AtMostOnce, EventIds
      <4>6. RowIsWritten'
        <5> SUFFICES ASSUME NEW e \in eventRows', applied[e] # 1, e \notin spoiled
                     PROVE  \E g \in Handlers : Writes(g, e)'
          BY <4>1 DEF RowIsWritten
        <5>1. CASE e = hook[h].e
          BY <4>2, <5>1 DEF Writes
        <5>2. CASE e # hook[h].e
          <6>1. PICK g \in Handlers : Writes(g, e)
            BY <4>1, <5>2 DEF DeliveryInv, RowIsWritten
          <6>2. g # h
            BY <1>2, <6>1 DEF Writes, HookCreate
          <6> QED BY <4>2, <6>1, <6>2 DEF Writes
        <5> QED BY <5>1, <5>2
      <4> QED BY <4>4, <4>5, <4>6 DEF DeliveryInv
    <3> QED BY <3>1, <3>2
  <2> QED BY <1>2, <1>c, <2>2, <2>3 DEF HookCreate
<1>3. ASSUME NEW h \in Handlers, HookProcess(h) PROVE BillingInv'
  <2> DEFINE e == hook[h].e
  <2>1. e \in EventIds /\ e \in eventRows /\ applied[e] = 0 /\ hook[h] = [e |-> e, at |-> "process"]
    BY <1>0, <1>3 DEF HookProcess, DeliveryInv, WriterHasRow, HookTyped
  <2>2. applied' = [applied EXCEPT ![e] = 1] /\ hook' = [hook EXCEPT ![h] = Free]
        /\ UNCHANGED <<customers, subs, events, customerOf, eventRows, checkout, spoiled>>
        /\ unacked' \in {unacked, unacked \ {e}}
    BY <1>3, <2>1, SMTT(30) DEF HookProcess, BillingTypeOK
  <2>3. BillingTypeOK'
    <3>1. subscription' \in [BillingUsers -> {"active", "inactive"}]
      BY <1>3 DEF HookProcess, BillingTypeOK, Says, Mapped
    <3>2. hook' \in [Handlers -> [e : Nat, at : {"free", "create", "process"}]]
          /\ \A g \in Handlers : hook'[g] = Free \/ hook'[g] = hook[g]
      BY <2>2 DEF DeliveryInv, HookTyped, Free
    <3> QED BY <1>0, <2>2, <3>1, <3>2 DEF BillingTypeOK, EventIds
  <2>4. DeliveryInv'
    <3>1. \A g \in Handlers \ {h} : hook'[g] = hook[g]
      BY <2>2 DEF DeliveryInv, HookTyped
    <3>2. hook'[h] = Free
      BY <2>2 DEF DeliveryInv, HookTyped
    <3>3. applied'[e] = 1 /\ \A f \in EventIds \ {e} : applied'[f] = applied[f]
      BY <2>1, <2>2 DEF BillingTypeOK
    <3>4. HookTyped'
      BY <2>2 DEF DeliveryInv, HookTyped, Free
    <3>5. \A g \in Handlers \ {h} : hook[g].at = "process" => hook[g].e # e
      BY <2>1 DEF DeliveryInv, OneWriter
    <3>6. WriterHasRow' /\ OneWriter'
      BY <1>0, <2>2, <3>1, <3>2, <3>3, <3>5 DEF DeliveryInv, WriterHasRow, OneWriter, Free
    <3>7. NewIsUnacked' /\ AtMostOnce'
      BY <2>1, <2>2, <3>3 DEF DeliveryInv, NewIsUnacked, AtMostOnce, EventIds
    <3>8. RowIsWritten'
      <4> SUFFICES ASSUME NEW f \in eventRows, applied'[f] # 1, f \notin spoiled
                   PROVE  \E g \in Handlers : Writes(g, f)'
        BY <2>2 DEF RowIsWritten
      <4>1. f # e /\ applied'[f] = applied[f]
        BY <1>0, <3>3
      <4>2. PICK g \in Handlers : Writes(g, f)
        BY <4>1 DEF DeliveryInv, RowIsWritten
      <4>3. g # h
        BY <2>1, <4>1, <4>2 DEF Writes
      <4> QED BY <3>1, <4>2, <4>3 DEF Writes
    <3> QED BY <3>4, <3>6, <3>7, <3>8 DEF DeliveryInv
  <2> QED BY <1>c, <2>2, <2>3, <2>4
<1>4. ASSUME NEW h \in Handlers, HookFails(h) PROVE BillingInv'
  <2>1. hook[h].e \in eventRows /\ hook[h].e \in EventIds
    BY <1>0, <1>4 DEF HookFails, DeliveryInv, WriterHasRow
  <2>2. BillingTypeOK'
    BY <1>4, <2>1 DEF HookFails, BillingTypeOK, EventIds, Free, DeliveryInv, HookTyped, stripeVars
  <2>3. DeliveryInv'
    BY <1>0, <1>4, <2>1 DEF HookFails, DeliveryInv, HookTyped, WriterHasRow, OneWriter, NewIsUnacked, AtMostOnce, RowIsWritten,
                            Writes, EventIds, Free, stripeVars
  <2> QED BY <1>4, <1>c, <2>2, <2>3 DEF HookFails
<1>5. ASSUME BillingRestart PROVE BillingInv'
  <2> DEFINE cut == {hook[h].e : h \in {g \in Handlers : hook[g].at = "process"}}
  <2>1. cut \subseteq eventRows
    BY DEF DeliveryInv, WriterHasRow
  <2>2. BillingTypeOK'
    BY <1>0, <1>5, <2>1 DEF BillingRestart, BillingTypeOK, EventIds, Free, stripeVars
  <2>3. DeliveryInv'
    BY <1>0, <1>5, <2>1 DEF BillingRestart, DeliveryInv, HookTyped, WriterHasRow, OneWriter, NewIsUnacked, AtMostOnce, RowIsWritten,
                            Writes, EventIds, Free, stripeVars
  <2> QED BY <1>5, <1>c, <2>2, <2>3 DEF BillingRestart
<1>6. ASSUME NEW h \in Handlers, HookCreateFails(h) PROVE BillingInv'
  <2>1. hook[h].e \in EventIds /\ hook[h].e \notin eventRows
    BY <1>6 DEF HookCreateFails, BillingTypeOK, Free
  <2>2. \A g \in Handlers : hook'[g] = IF g = h THEN Free ELSE hook[g]
    BY <1>6 DEF HookCreateFails, DeliveryInv, HookTyped
  <2>3. HookTyped'
    BY <1>6 DEF HookCreateFails, DeliveryInv, HookTyped, Free
  <2>4. BillingTypeOK'
    BY <1>0, <1>6, <2>1, <2>2 DEF HookCreateFails, BillingTypeOK, EventIds
  <2>5. WriterHasRow' /\ OneWriter'
    BY <1>6, <2>2 DEF HookCreateFails, DeliveryInv, WriterHasRow, OneWriter, Free
  <2>6. NewIsUnacked' /\ AtMostOnce'
    BY <1>6 DEF HookCreateFails, DeliveryInv, NewIsUnacked, AtMostOnce, EventIds
  <2>7. RowIsWritten'
    <3> SUFFICES ASSUME NEW e \in eventRows', applied[e] # 1, e \notin spoiled'
                 PROVE  \E g \in Handlers : Writes(g, e)'
      BY <1>6 DEF HookCreateFails, RowIsWritten
    <3>1. e \in eventRows /\ e \notin spoiled
      BY <1>6 DEF HookCreateFails
    <3>2. PICK g \in Handlers : Writes(g, e)
      BY <3>1 DEF DeliveryInv, RowIsWritten
    <3>3. g # h
      BY <1>6, <3>2 DEF HookCreateFails, Writes
    <3> QED BY <2>2, <3>2, <3>3 DEF Writes
  <2> QED BY <1>6, <1>c, <2>3, <2>4, <2>5, <2>6, <2>7 DEF HookCreateFails, DeliveryInv
<1> QED BY <1>1, <1>2, <1>3, <1>4, <1>5, <1>6

\* Every step keeps the invariant.
LEMMA NextBillingInv == BillingInv /\ [BillingNext]_billingVars => BillingInv'
<1> SUFFICES ASSUME BillingInv, [BillingNext]_billingVars PROVE BillingInv'
  OBVIOUS
<1>1. ASSUME NEW cust \in DOMAIN customers, NEW raw \in {"active", "past_due", "canceled"}, Change(cust, raw)
      PROVE  BillingInv'
  <2> DEFINE news == << [cust |-> cust, kind |-> "subscription", status |-> raw] >>
  <2>1. news \in Seq(EventRecord) /\ raw \in RawStatus
    BY DEF EventRecord, RawStatus
  <2>2. Emit(cust, raw, news) /\ UNCHANGED <<customers, customerOf, checkout, webhookVars>>
    BY <1>1 DEF Change
  <2>3. BillingTypeOK' /\ DeliveryInv'
    <3> HIDE DEF news
    <3> QED BY <2>1, <2>2, EmitKeeps
  <2> QED BY <2>2, <2>3 DEF BillingInv, CheckoutTyped
<1>2. ASSUME UNCHANGED billingVars PROVE BillingInv'
  BY <1>2 DEF billingVars, BillingInv, BillingTypeOK, CheckoutTyped, DeliveryInv, HookTyped, WriterHasRow, OneWriter,
              NewIsUnacked, AtMostOnce, RowIsWritten, Writes, EventIds
<1> QED BY <1>1, <1>2, CheckoutKeeps, HookKeeps DEF BillingNext

\* For any number of users, requests, handlers and events: the rows, the
\* checkouts and the deliveries are as BillingInv says.
THEOREM BillingInvariance == BillingSpec => []BillingInv
BY InitBillingInv, NextBillingInv, PTL DEF BillingSpec

\* The webhook of apps/api/src/index.ts writes an event to the user's row
\* exactly once before Stripe forgets it, whatever is delivered again, runs at
\* once or restarts; only a row that could not be made, or a first processing that
\* failed, loses the event.
THEOREM AppliedExactlyOnce == BillingSpec => []EventAppliedExactlyOnce
<1>1. BillingInv => EventAppliedExactlyOnce
  <2> SUFFICES ASSUME BillingInv PROVE EventAppliedExactlyOnce
    OBVIOUS
  <2>1. EventAppliedOnce
    BY DEF EventAppliedOnce, BillingInv, DeliveryInv, AtMostOnce
  <2>2. AckedIsApplied
    BY DEF AckedIsApplied, BillingInv, DeliveryInv, NewIsUnacked, AtMostOnce, RowIsWritten, Writes
  <2> QED BY <2>1, <2>2 DEF EventAppliedExactlyOnce
<1> QED BY <1>1, BillingInvariance, PTL

\* A user row holds "active" or "inactive" and only a customer that was made
\* for the user (POST /billing/checkout, usersRepo.updateStripeCustomerId).
THEOREM BillingTypes == BillingSpec => []BillingTypeOK
BY BillingInvariance, PTL DEF BillingInv

----------------------------------------------------------------------------
\* The user's row says what Stripe says.

\* The only customer that was made for its user.
Sole(k) == \A j \in DOMAIN customers : customers[j] = customers[k] => j = k

\* The last event about a customer's subscription says what Stripe says.
LastSays(k, e) ==
  /\ events[e].cust = k /\ Says(events[e]) = Mapped(subs[k])
  /\ \A f \in EventIds : f > e => events[f].cust # k

\* Who pays has a customer in the user row; a row without one was never
\* written; Stripe's subscriptions and its events agree.
Subscribed ==
  /\ \A c \in Checkouts : checkout[c].at = "session" => customerOf[checkout[c].user] # 0
  /\ \A u \in BillingUsers : customerOf[u] = 0 => subscription[u] = "inactive"
  /\ \A k \in DOMAIN customers : subs[k] # "none" => customerOf[customers[k]] # 0 /\ \E e \in EventIds : LastSays(k, e)
  /\ \A e \in EventIds : subs[events[e].cust] # "none"

\* The row of a user with one customer says what the latest event says that was
\* written to it.
LatestWritten(k, e) ==
  /\ events[e].cust = k /\ applied[e] # 0
  /\ \A f \in EventIds : f > e /\ events[f].cust = k => applied[f] = 0
NoneWritten(k) == \A e \in EventIds : events[e].cust = k => applied[e] = 0
RowSays ==
  ~unordered => \A k \in DOMAIN customers : Sole(k) =>
    /\ NoneWritten(k) => subscription[customers[k]] = "inactive"
    /\ \A e \in EventIds : LatestWritten(k, e) => subscription[customers[k]] = Says(events[e])

\* The invariant that is inductive with BillingInv.
SettledInv == Subscribed /\ RowSays

\* The types the proofs below use.
LEMMA BillingFacts ==
  ASSUME BillingInv
  PROVE  /\ customers \in Seq(BillingUsers) /\ DOMAIN customers = 1..Len(customers) /\ Len(customers) \in Nat
         /\ \A k \in DOMAIN customers : customers[k] \in BillingUsers
         /\ subs \in [DOMAIN customers -> RawStatus]
         /\ events \in Seq(EventRecord) /\ EventIds = 1..Len(events) /\ Len(events) \in Nat
         /\ \A e \in EventIds : events[e] \in EventRecord /\ events[e].cust \in DOMAIN customers
         /\ applied \in [EventIds -> Nat]
         /\ customerOf \in [BillingUsers -> {0} \cup DOMAIN customers]
         /\ \A u \in BillingUsers : customerOf[u] # 0 => customers[customerOf[u]] = u
<1>1. /\ customers \in Seq(BillingUsers) /\ subs \in [DOMAIN customers -> RawStatus] /\ events \in Seq(EventRecord)
      /\ applied \in [EventIds -> Nat] /\ customerOf \in [BillingUsers -> {0} \cup DOMAIN customers]
      /\ \A u \in BillingUsers : customerOf[u] # 0 => customers[customerOf[u]] = u
  BY DEF BillingInv, BillingTypeOK, CheckoutTyped, EventRecord
<1>2. /\ DOMAIN customers = 1..Len(customers) /\ Len(customers) \in Nat
      /\ EventIds = 1..Len(events) /\ Len(events) \in Nat
  BY <1>1, LenProperties DEF EventIds
<1>3. \A k \in DOMAIN customers : customers[k] \in BillingUsers
  BY <1>1, <1>2, ElementOfSeq
<1>4. \A e \in EventIds : events[e] \in EventRecord
  BY <1>1, <1>2, ElementOfSeq
<1>5. \A e \in EventIds : events[e].cust \in DOMAIN customers
  BY <1>4 DEF EventRecord
<1> QED BY <1>1, <1>2, <1>3, <1>4, <1>5

\* A step that leaves Stripe, the rows and what was written.
LEMMA QuietSettled ==
  ASSUME BillingInv, SettledInv,
         UNCHANGED <<customers, subs, events, customerOf, subscription, checkout, applied, unordered>>
  PROVE  SettledInv'
<1>1. Subscribed'
  BY DEF SettledInv, Subscribed, LastSays, EventIds
<1>2. RowSays'
  BY DEF SettledInv, RowSays, Sole, NoneWritten, LatestWritten, EventIds
<1> QED BY <1>1, <1>2 DEF SettledInv

\* Events about a customer that is in its user's row: none is written yet, and
\* the last one says what Stripe says now.
LEMMA EmitSettled ==
  ASSUME BillingInv, SettledInv, NEW cust \in DOMAIN customers, NEW raw \in RawStatus \ {"none"},
         NEW news \in Seq(EventRecord), Emit(cust, raw, news), UNCHANGED <<customers, customerOf, webhookVars>>,
         Len(news) > 0, \A i \in 1..Len(news) : news[i].cust = cust, Says(news[Len(news)]) = Mapped(raw),
         customerOf[customers[cust]] # 0,
         \A c \in Checkouts : checkout'[c].at = "session" => checkout'[c] = checkout[c]
  PROVE  SettledInv'
<1>l. PICK last : last = Len(events) + Len(news)
  OBVIOUS
<1>0. Subscribed /\ RowSays /\ UNCHANGED <<subscription, unordered>>
  BY DEF SettledInv, webhookVars
<1>1. /\ EventIds = 1..Len(events) /\ Len(events) \in Nat /\ Len(news) \in Nat /\ EventIds' = 1..last
      /\ EventIds \subseteq EventIds'
      /\ \A e \in EventIds : events'[e] = events[e] /\ applied'[e] = applied[e]
      /\ \A e \in EventIds' \ EventIds :
           applied'[e] = 0 /\ e - Len(events) \in 1..Len(news) /\ events'[e] = news[e - Len(events)]
  BY <1>l, EmitAppends
<1>2. \A e \in EventIds' \ EventIds : events'[e].cust = cust
  BY <1>1
<1>3. subs' = [subs EXCEPT ![cust] = raw] /\ subs'[cust] = raw /\ \A k \in DOMAIN customers \ {cust} : subs'[k] = subs[k]
  BY BillingFacts DEF Emit
<1>4. last \in EventIds' \ EventIds /\ events'[last] = news[Len(news)] /\ \A f \in EventIds' : ~(f > last)
  BY <1>1, <1>l
<1>5. ASSUME NEW k \in DOMAIN customers, subs'[k] # "none"
      PROVE  customerOf[customers[k]] # 0 /\ \E e \in EventIds' : LastSays(k, e)'
  <2>1. CASE k = cust
    <3>1. LastSays(k, last)'
      BY <1>2, <1>3, <1>4, <2>1 DEF LastSays
    <3> QED BY <1>4, <2>1, <3>1
  <2>2. CASE k # cust
    <3>1. PICK e \in EventIds : LastSays(k, e)
      BY <1>0, <1>3, <1>5, <2>2 DEF Subscribed
    <3>2. customerOf[customers[k]] # 0
      BY <1>0, <1>3, <1>5, <2>2 DEF Subscribed
    <3>3. events'[e].cust = k /\ Says(events'[e]) = Mapped(subs'[k])
      BY <1>1, <1>3, <2>2, <3>1 DEF LastSays
    <3>4. \A f \in EventIds' : f > e => events'[f].cust # k
      BY <1>1, <1>2, <2>2, <3>1 DEF LastSays
    <3>5. LastSays(k, e)'
      BY <3>3, <3>4 DEF LastSays
    <3> QED BY <1>1, <3>2, <3>5
  <2> QED BY <2>1, <2>2
<1>6. ASSUME NEW e \in EventIds' PROVE subs'[events'[e].cust] # "none"
  <2>1. CASE e \in EventIds
    <3>1. events'[e] = events[e] /\ events[e].cust \in DOMAIN customers
      BY <1>1, <2>1, BillingFacts
    <3>2. subs[events[e].cust] # "none"
      BY <1>0, <2>1 DEF Subscribed
    <3> QED BY <1>3, <3>1, <3>2
  <2>2. CASE e \notin EventIds
    BY <1>2, <1>3, <2>2
  <2> QED BY <2>1, <2>2
<1>7. Subscribed'
  BY <1>0, <1>5, <1>6 DEF Subscribed
<1>8. RowSays'
  <2> SUFFICES ASSUME ~unordered, NEW k \in DOMAIN customers, Sole(k)
               PROVE  /\ NoneWritten(k)' => subscription[customers[k]] = "inactive"
                      /\ \A e \in EventIds' : LatestWritten(k, e)' => subscription[customers[k]] = Says(events'[e])
    BY <1>0 DEF RowSays, Sole
  <2>1. NoneWritten(k)' => NoneWritten(k)
    BY <1>1 DEF NoneWritten
  <2>2. \A e \in EventIds' : LatestWritten(k, e)' => e \in EventIds /\ LatestWritten(k, e)
    BY <1>1 DEF LatestWritten
  <2> QED BY <1>0, <1>1, <2>1, <2>2 DEF RowSays
<1> QED BY <1>7, <1>8 DEF SettledInv

\* A customer is made: nothing is said of its subscription yet.
LEMMA CreateSettled ==
  ASSUME BillingInv, SettledInv, NEW c \in Checkouts, CheckoutCreate(c)
  PROVE  SettledInv'
<1> DEFINE new == Len(customers) + 1
<1>0. Subscribed /\ RowSays
  BY DEF SettledInv
<1>1. /\ checkout[c].user \in BillingUsers /\ checkout[c].at = "create"
      /\ checkout \in [Checkouts -> [user : BillingUsers \cup {"none"},
                                     at : {"free", "create", "save", "session", "paid"}, customer : Nat]]
  BY DEF CheckoutCreate, BillingInv, CheckoutTyped
<1>2. UNCHANGED <<customerOf, events, unacked, applied, subscription, unordered>>
  BY DEF CheckoutCreate, webhookVars
<1>3. /\ DOMAIN customers' = DOMAIN customers \cup {new} /\ new \notin DOMAIN customers
      /\ \A k \in DOMAIN customers : customers'[k] = customers[k]
      /\ customers'[new] = checkout[c].user
  <2>1. customers \in Seq(BillingUsers) /\ DOMAIN customers = 1..Len(customers) /\ Len(customers) \in Nat
    BY BillingFacts
  <2>2. customers' = Append(customers, checkout[c].user)
    BY DEF CheckoutCreate
  <2>3. customers' \in Seq(BillingUsers) /\ Len(customers') = new /\ customers'[new] = checkout[c].user
        /\ \A k \in 1..Len(customers) : customers'[k] = customers[k]
    BY <1>1, <2>1, <2>2, AppendProperties
  <2>4. DOMAIN customers' = 1..new
    BY <2>3, LenProperties
  <2> QED BY <2>1, <2>3, <2>4
<1>4. subs'[new] = "none" /\ \A k \in DOMAIN customers : subs'[k] = subs[k]
  <2>1. subs \in Seq(RawStatus) /\ Len(subs) = Len(customers) /\ Len(customers) \in Nat
        /\ DOMAIN customers = 1..Len(customers)
    BY BillingFacts, SMTT(30)
  <2>2. subs' = Append(subs, "none") /\ "none" \in RawStatus
    BY DEF CheckoutCreate, RawStatus
  <2> QED BY <2>1, <2>2, AppendProperties
<1>5. \A e \in EventIds : events[e].cust \in DOMAIN customers /\ events[e].cust # new
  BY <1>3, BillingFacts
<1>6. EventIds' = EventIds
  BY <1>2 DEF EventIds
<1> HIDE DEF new
<1>7. Subscribed'
  <2>1. ASSUME NEW d \in Checkouts, checkout'[d].at = "session" PROVE customerOf[checkout'[d].user] # 0
    <3>1. checkout' = [checkout EXCEPT ![c] = [user |-> @.user, at |-> "save", customer |-> Len(customers) + 1]]
      BY DEF CheckoutCreate
    <3>2. checkout'[c].at = "save"
      BY <1>1, <3>1
    <3>3. checkout'[d] = checkout[d]
      BY <1>1, <2>1, <3>1, <3>2
    <3> QED BY <1>0, <2>1, <3>3 DEF Subscribed
  <2>2. ASSUME NEW k \in DOMAIN customers', subs'[k] # "none"
        PROVE  customerOf[customers'[k]] # 0 /\ \E e \in EventIds : LastSays(k, e)'
    <3>1. k \in DOMAIN customers
      BY <1>3, <1>4, <2>2
    <3>2. customerOf[customers[k]] # 0 /\ \E e \in EventIds : LastSays(k, e)
      BY <1>0, <1>4, <2>2, <3>1 DEF Subscribed
    <3>3. \A e \in EventIds : LastSays(k, e) => LastSays(k, e)'
      BY <1>2, <1>4, <1>6, <3>1 DEF LastSays
    <3> QED BY <1>3, <3>1, <3>2, <3>3
  <2>3. \A e \in EventIds : subs'[events[e].cust] # "none"
    BY <1>0, <1>4, <1>5 DEF Subscribed
  <2>4. \A u \in BillingUsers : customerOf'[u] = 0 => subscription'[u] = "inactive"
    BY <1>0, <1>2 DEF Subscribed
  <2> QED BY <1>2, <1>6, <2>1, <2>2, <2>3, <2>4 DEF Subscribed
<1>8. RowSays'
  <2> SUFFICES ASSUME ~unordered, NEW k \in DOMAIN customers', Sole(k)'
               PROVE  /\ NoneWritten(k) => subscription[customers'[k]] = "inactive"
                      /\ \A e \in EventIds : LatestWritten(k, e) => subscription[customers'[k]] = Says(events[e])
    BY <1>2, <1>6 DEF RowSays, NoneWritten, LatestWritten
  <2>1. CASE k = new
    <3>1. customerOf[checkout[c].user] = 0
      BY <1>1, <1>3, <2>1, BillingFacts DEF Sole
    <3>2. subscription[customers'[k]] = "inactive"
      BY <1>0, <1>1, <1>3, <2>1, <3>1 DEF Subscribed
    <3> QED BY <1>5, <2>1, <3>2 DEF LatestWritten
  <2>2. CASE k # new
    <3>1. k \in DOMAIN customers /\ Sole(k)
      BY <1>3, <2>2 DEF Sole
    <3> QED BY <1>0, <1>3, <3>1 DEF RowSays
  <2> QED BY <2>1, <2>2
<1> QED BY <1>7, <1>8 DEF SettledInv

\* The steps of a checkout.
LEMMA CheckoutSettled ==
  ASSUME BillingInv, SettledInv, NEW c \in Checkouts,
         \/ \E u \in BillingUsers : CheckoutBegin(c, u)
         \/ CheckoutCreate(c) \/ CheckoutSave(c)
         \/ \E raw \in {"active", "trialing"} : Pay(c, raw)
  PROVE  SettledInv'
<1>0. Subscribed /\ RowSays
  BY DEF SettledInv
<1>t. /\ checkout \in [Checkouts -> [user : BillingUsers \cup {"none"},
                                     at : {"free", "create", "save", "session", "paid"}, customer : Nat]]
      /\ checkout[c].at \in {"save", "session"} =>
           /\ checkout[c].user \in BillingUsers /\ checkout[c].customer \in DOMAIN customers
           /\ customers[checkout[c].customer] = checkout[c].user
  BY DEF BillingInv, CheckoutTyped
<1>1. ASSUME NEW u \in BillingUsers, CheckoutBegin(c, u) PROVE SettledInv'
  <2>0. /\ UNCHANGED <<customers, customerOf, subs, events, unacked, applied, subscription, unordered>>
        /\ checkout' = [checkout EXCEPT ![c] =
             [user |-> u, at |-> IF customerOf[u] = 0 THEN "create" ELSE "session", customer |-> customerOf[u]]]
    BY <1>1 DEF CheckoutBegin, stripeVars, webhookVars
  <2>1. \A d \in Checkouts : checkout'[d].at = "session" => customerOf[checkout'[d].user] # 0
    <3>1. checkout'[c].user = u /\ (checkout'[c].at = "session" => customerOf[u] # 0)
      BY <1>t, <2>0
    <3>2. \A d \in Checkouts \ {c} : checkout'[d] = checkout[d]
      BY <1>t, <2>0
    <3> QED BY <1>0, <3>1, <3>2 DEF Subscribed
  <2>2. Subscribed'
    BY <1>0, <2>0, <2>1 DEF Subscribed, LastSays, EventIds
  <2>3. RowSays'
    BY <1>0, <2>0 DEF RowSays, Sole, NoneWritten, LatestWritten, EventIds
  <2> QED BY <2>2, <2>3 DEF SettledInv
<1>2. CASE CheckoutCreate(c)
  BY <1>2, CreateSettled
<1>3. CASE CheckoutSave(c)
  <2>0. /\ UNCHANGED <<customers, subs, events, unacked, applied, subscription, unordered>>
        /\ checkout' = [checkout EXCEPT ![c].at = "session"] /\ checkout[c].at = "save"
        /\ customerOf' = [customerOf EXCEPT ![checkout[c].user] = checkout[c].customer]
    BY <1>3 DEF CheckoutSave, stripeVars, webhookVars
  <2>1. checkout[c].user \in BillingUsers /\ checkout[c].customer # 0
    BY <1>t, <2>0, BillingFacts
  <2>2. \A u \in BillingUsers : customerOf[u] # 0 => customerOf'[u] # 0
    BY <2>0, <2>1, BillingFacts
  <2>3. customerOf'[checkout[c].user] # 0
    BY <2>0, <2>1, BillingFacts
  <2>4. \A d \in Checkouts : checkout'[d].user = checkout[d].user /\ (d # c => checkout'[d] = checkout[d])
    BY <1>t, <2>0
  <2>5. \A d \in Checkouts : checkout'[d].at = "session" => customerOf'[checkout'[d].user] # 0
    <3> SUFFICES ASSUME NEW d \in Checkouts, checkout'[d].at = "session" PROVE customerOf'[checkout[d].user] # 0
      BY <2>4
    <3>1. CASE d = c
      BY <2>3, <3>1
    <3>2. CASE d # c
      <4>1. checkout[d].at = "session" /\ checkout[d].user \in BillingUsers
        BY <2>4, <3>2 DEF BillingInv, CheckoutTyped
      <4> QED BY <1>0, <2>2, <4>1 DEF Subscribed
    <3> QED BY <3>1, <3>2
  <2>6. \A k \in DOMAIN customers : customerOf[customers[k]] # 0 => customerOf'[customers[k]] # 0
    BY <2>2, BillingFacts
  <2>7. \A u \in BillingUsers : customerOf'[u] = 0 => subscription[u] = "inactive"
    BY <1>0, <2>2 DEF Subscribed
  <2>8. Subscribed'
    BY <1>0, <2>0, <2>5, <2>6, <2>7 DEF Subscribed, LastSays, EventIds
  <2>9. RowSays'
    BY <1>0, <2>0 DEF RowSays, Sole, NoneWritten, LatestWritten, EventIds
  <2> QED BY <2>8, <2>9 DEF SettledInv
<1>4. ASSUME NEW raw \in {"active", "trialing"}, Pay(c, raw) PROVE SettledInv'
  <2> DEFINE cust == checkout[c].customer
             news == << [cust |-> cust, kind |-> "subscription", status |-> raw],
                        [cust |-> cust, kind |-> "checkout", status |-> raw] >>
  <2>0. checkout[c].at = "session" /\ checkout' = [checkout EXCEPT ![c].at = "paid"]
    BY <1>4 DEF Pay
  <2>1. cust \in DOMAIN customers /\ customerOf[customers[cust]] # 0
    BY <1>0, <1>t, <2>0 DEF Subscribed
  <2>2. news \in Seq(EventRecord) /\ raw \in RawStatus \ {"none"} /\ Len(news) = 2
    BY <2>1 DEF EventRecord, RawStatus
  <2>3. Emit(cust, raw, news) /\ UNCHANGED <<customers, customerOf, webhookVars>>
    BY <1>4 DEF Pay
  <2>4. news[1].cust = cust /\ news[2].cust = cust /\ Says(news[2]) = Mapped(raw)
    BY DEF Says, Mapped
  <2>5. \A d \in Checkouts : checkout'[d].at = "session" => checkout'[d] = checkout[d]
    BY <1>t, <2>0
  <2> HIDE DEF news, cust
  <2>6. \A i \in 1..Len(news) : news[i].cust = cust
    <3>1. \A i \in 1..Len(news) : i = 1 \/ i = 2
      BY <2>2
    <3> QED BY <2>4, <3>1
  <2>7. Len(news) > 0 /\ Says(news[Len(news)]) = Mapped(raw)
    BY <2>2, <2>4
  <2> QED BY <2>1, <2>2, <2>3, <2>5, <2>6, <2>7, EmitSettled
<1> QED BY <1>1, <1>2, <1>3, <1>4

\* A subscription that goes on.
LEMMA ChangeSettled ==
  ASSUME BillingInv, SettledInv, NEW cust \in DOMAIN customers, NEW raw \in {"active", "past_due", "canceled"},
         Change(cust, raw)
  PROVE  SettledInv'
<1> DEFINE news == << [cust |-> cust, kind |-> "subscription", status |-> raw] >>
<1>1. subs[cust] # "none" /\ Emit(cust, raw, news) /\ UNCHANGED <<customers, customerOf, checkout, webhookVars>>
  BY DEF Change
<1>2. customerOf[customers[cust]] # 0
  BY <1>1 DEF SettledInv, Subscribed
<1>3. news \in Seq(EventRecord) /\ raw \in RawStatus \ {"none"} /\ Len(news) = 1
  BY DEF EventRecord, RawStatus
<1>4. news[1].cust = cust /\ Says(news[1]) = Mapped(raw)
  BY DEF Says
<1> HIDE DEF news
<1>5. \A i \in 1..Len(news) : news[i].cust = cust
  <2>1. \A i \in 1..Len(news) : i = 1
    BY <1>3
  <2> QED BY <1>4, <2>1
<1>6. Len(news) > 0 /\ Says(news[Len(news)]) = Mapped(raw)
  BY <1>3, <1>4
<1> QED BY <1>1, <1>2, <1>3, <1>5, <1>6, EmitSettled

\* A handler writes its event: the row is the one of the event's customer, and
\* no later event was written to it.
LEMMA ProcessSettled ==
  ASSUME BillingInv, SettledInv, NEW h \in Handlers, HookProcess(h)
  PROVE  SettledInv'
<1>c. PICK e : e = hook[h].e
  OBVIOUS
<1>0. Subscribed /\ RowSays
  BY DEF SettledInv
<1>1. e \in EventIds /\ applied[e] = 0
  <2>1. e \in eventRows /\ applied[e] = 0
    BY <1>c DEF HookProcess, BillingInv, DeliveryInv, WriterHasRow
  <2> QED BY <2>1 DEF BillingInv, BillingTypeOK
<1>2. /\ UNCHANGED <<customers, subs, events, customerOf, checkout>>
      /\ subscription' = [u \in BillingUsers |->
           IF customerOf[u] = events[e].cust THEN Says(events[e]) ELSE subscription[u]]
      /\ applied' = [applied EXCEPT ![e] = @ + 1]
  BY <1>c DEF HookProcess
<1>3. ~unordered' => ~unordered /\ ~\E f \in EventIds : f > e /\ events[f].cust = events[e].cust /\ applied[f] > 0
  <2>1. unordered' = (unordered \/ \E f \in EventIds : f > e /\ events[f].cust = events[e].cust /\ applied[f] > 0)
    BY <1>c DEF HookProcess
  <2> QED BY <2>1
<1>4. applied'[e] = 1 /\ \A f \in EventIds \ {e} : applied'[f] = applied[f]
  BY <1>1, <1>2, BillingFacts
<1>5. EventIds' = EventIds /\ EventIds \subseteq Nat /\ \A f \in EventIds : applied[f] \in Nat
  <2>1. EventIds \subseteq Nat /\ \A f \in EventIds : applied[f] \in Nat
    BY BillingFacts
  <2> QED BY <1>2, <2>1 DEF EventIds
<1>6. Subscribed'
  <2>1. \A u \in BillingUsers : customerOf[u] = 0 => subscription'[u] = subscription[u]
    <3>1. events[e].cust # 0
      BY <1>1, BillingFacts
    <3> QED BY <1>2, <3>1
  <2>2. \A k, f : LastSays(k, f)' <=> LastSays(k, f)
    BY <1>2, <1>5 DEF LastSays
  <2> QED BY <1>0, <1>2, <1>5, <2>1, <2>2 DEF Subscribed
<1>7. RowSays'
  <2> SUFFICES ASSUME ~unordered', NEW k \in DOMAIN customers, Sole(k)
               PROVE  /\ NoneWritten(k)' => subscription'[customers[k]] = "inactive"
                      /\ \A f \in EventIds : LatestWritten(k, f)' => subscription'[customers[k]] = Says(events[f])
    BY <1>2, <1>5 DEF RowSays, Sole
  <2>0. customers[k] \in BillingUsers /\ customerOf[customers[k]] \in {0, k}
    BY BillingFacts DEF Sole
  <2>1. CASE events[e].cust = k
    <3>1. customerOf[customers[k]] = k
      BY <1>0, <1>1, <2>0, <2>1 DEF Subscribed
    <3>2. subscription'[customers[k]] = Says(events[e])
      BY <1>2, <2>0, <2>1, <3>1
    <3>3. ~NoneWritten(k)'
      BY <1>1, <1>2, <1>4, <1>5, <2>1 DEF NoneWritten
    <3>4. ASSUME NEW f \in EventIds, LatestWritten(k, f)' PROVE f = e
      <4>1. applied'[f] # 0 /\ events[f].cust = k /\ ~(e > f)
        BY <1>1, <1>2, <1>4, <1>5, <2>1, <3>4 DEF LatestWritten
      <4>2. ~(f > e)
        BY <1>1, <1>3, <1>4, <1>5, <2>1, <4>1
      <4> QED BY <1>1, <1>5, <4>1, <4>2
    <3> QED BY <3>2, <3>3, <3>4
  <2>2. CASE events[e].cust # k
    <3>1. events[e].cust # 0
      BY <1>1, BillingFacts
    <3>2. subscription'[customers[k]] = subscription[customers[k]]
      BY <1>2, <2>0, <2>2, <3>1
    <3>3. NoneWritten(k)' => NoneWritten(k)
      BY <1>2, <1>4, <1>5, <2>2 DEF NoneWritten
    <3>4. \A f \in EventIds : LatestWritten(k, f)' => LatestWritten(k, f)
      BY <1>2, <1>4, <1>5, <2>2 DEF LatestWritten
    <3> QED BY <1>0, <1>3, <3>2, <3>3, <3>4 DEF RowSays
  <2> QED BY <2>1, <2>2
<1> QED BY <1>6, <1>7 DEF SettledInv

LEMMA NextSettledInv == BillingInv /\ SettledInv /\ [BillingNext]_billingVars => SettledInv'
<1> SUFFICES ASSUME BillingInv, SettledInv, [BillingNext]_billingVars PROVE SettledInv'
  OBVIOUS
<1>1. CASE \E h \in Handlers : (\E e \in unacked : HookBegin(h, e)) \/ HookCreate(h) \/ HookCreateFails(h) \/ HookFails(h)
  BY <1>1, QuietSettled DEF HookBegin, HookCreate, HookCreateFails, HookFails, stripeVars
<1>2. CASE BillingRestart
  BY <1>2, QuietSettled DEF BillingRestart, stripeVars
<1>3. CASE UNCHANGED billingVars
  BY <1>3, QuietSettled DEF billingVars
<1> QED BY <1>1, <1>2, <1>3, CheckoutSettled, ChangeSettled, ProcessSettled DEF BillingNext

LEMMA InitSettledInv == BillingInit => SettledInv
<1> SUFFICES ASSUME BillingInit PROVE SettledInv
  OBVIOUS
<1>1. DOMAIN customers = {} /\ EventIds = {}
  BY DEF BillingInit, EventIds
<1>2. Subscribed
  BY <1>1 DEF BillingInit, Subscribed
<1>3. RowSays
  BY <1>1 DEF RowSays
<1> QED BY <1>2, <1>3 DEF SettledInv

\* For any number of users, checkouts, handlers and events: once everything is
\* delivered, in order and with no row or processing that failed, the row of a user with
\* one customer says what Stripe says (the webhook of apps/api/src/index.ts).
THEOREM RowIsStripes == BillingSpec => []SettledRowIsStripes
<1>1. BillingSpec => [](BillingInv /\ SettledInv)
  <2>1. BillingInit => BillingInv /\ SettledInv
    BY InitBillingInv, InitSettledInv
  <2>2. (BillingInv /\ SettledInv) /\ [BillingNext]_billingVars => (BillingInv /\ SettledInv)'
    BY NextBillingInv, NextSettledInv
  <2> QED BY <2>1, <2>2, PTL DEF BillingSpec
<1>2. BillingInv /\ SettledInv => SettledRowIsStripes
  <2> SUFFICES ASSUME BillingInv, SettledInv, unacked = {}, \A h \in Handlers : hook[h] = Free, ~unordered, spoiled = {},
                      NEW u \in BillingUsers, Cardinality({i \in DOMAIN customers : customers[i] = u}) = 1, customerOf[u] # 0
               PROVE  subscription[u] = Mapped(subs[customerOf[u]])
    BY DEF SettledRowIsStripes
  <2>c. PICK k : k = customerOf[u]
    OBVIOUS
  <2>0. k \in DOMAIN customers /\ customers[k] = u /\ Subscribed /\ RowSays
    BY <2>c, BillingFacts DEF SettledInv
  <2>1. Sole(k)
    <3> DEFINE own == {i \in DOMAIN customers : customers[i] = u}
    <3>1. IsFiniteSet(own)
      <4>1. IsFiniteSet(DOMAIN customers)
        <5>1. DOMAIN customers = 1..Len(customers) /\ 1 \in Int /\ Len(customers) \in Int
          BY BillingFacts
        <5> QED BY <5>1, FS_Interval
      <4>2. own \subseteq DOMAIN customers
        OBVIOUS
      <4> QED BY <4>1, <4>2, FS_Subset
    <3>2. PICK x : own = {x}
      BY <3>1, FS_Singleton
    <3>3. \A i \in DOMAIN customers : customers[i] = u => i = x
      BY <3>2
    <3> QED BY <2>0, <3>3 DEF Sole
  <2>2. \A e \in EventIds : applied[e] = 1
    <3>1. \A e \in EventIds, h \in Handlers : ~Writes(h, e)
      BY DEF Free, Writes
    <3>2. \A e \in EventIds : e \in eventRows
      BY DEF BillingInv, DeliveryInv, NewIsUnacked
    <3> QED BY <3>1, <3>2 DEF BillingInv, DeliveryInv, RowIsWritten
  <2>3. CASE subs[k] = "none"
    <3>1. NoneWritten(k)
      BY <2>0, <2>3 DEF Subscribed, NoneWritten
    <3>2. subscription[u] = "inactive"
      BY <2>0, <2>1, <3>1 DEF RowSays
    <3> QED BY <2>c, <2>3, <3>2 DEF Mapped
  <2>4. CASE subs[k] # "none"
    <3>1. PICK e \in EventIds : LastSays(k, e)
      BY <2>0, <2>4 DEF Subscribed
    <3>2. LatestWritten(k, e)
      BY <2>2, <3>1 DEF LastSays, LatestWritten
    <3> QED BY <2>0, <2>1, <2>c, <3>1, <3>2 DEF RowSays, LastSays
  <2> QED BY <2>3, <2>4
<1> QED BY <1>1, <1>2, PTL
=============================================================================
