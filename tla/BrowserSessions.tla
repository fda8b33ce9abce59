-------------------------- MODULE BrowserSessions --------------------------
(***************************************************************************)
(* Browser sessions of one user: the tabs of one browser (apps/web         *)
(* lib/auth.ts), which share a cookie jar and local storage, and the auth  *)
(* endpoints of the API with the sessions table behind them.  A request is *)
(* a record that moves through the awaits of apiFetch and of its handler:  *)
(*   "sent"      the request is on its way to the API;                     *)
(*   "served"    the handler has answered, the tab has not read it yet;    *)
(*   "refresh"   a 401 was read and POST /auth/refresh is on its way;      *)
(*   "found"     refresh has read the session row and not yet written it;  *)
(*   "rotated", "refused"   the two answers of refresh, not yet read.      *)
(***************************************************************************)
EXTENDS Naturals, Sequences

CONSTANTS Tabs,       \* the tabs of the browser
          MaxCalls    \* bound: requests started by the tabs in a behaviour

ASSUME SessionBoundsAssumption == MaxCalls \in Nat

VARIABLES sess,       \* session rows: hash (the live refresh token), revoked, expired
          jar,        \* the cookies: refresh token (0: none), access token
          stored,     \* the access token login() keeps in local storage
          fetch,      \* the request each tab is awaiting
          calls,      \* requests started; a request's number names the token it is given
          raced       \* history: a refresh was answered while another was under way,
                      \* or its answer was lost

sessionVars == <<sess, jar, stored, fetch, calls, raced>>

Kinds == {"login", "data", "me", "logout", "logout_all"}
Phases == {"idle", "sent", "served", "refresh", "found", "rotated", "refused"}
Access == {"none", "valid", "expired"}

Idle == [phase |-> "idle", kind |-> "data", call |-> 0, cred |-> "none", bearer |-> FALSE,
         token |-> 0, row |-> 0, ok |-> FALSE, retried |-> FALSE]

SessionInit ==
  /\ sess = <<>>
  /\ jar = [refresh |-> 0, access |-> "none"]
  /\ stored = "none"
  /\ fetch = [t \in Tabs |-> Idle]
  /\ calls = 0
  /\ raced = FALSE

(* getRequestAuthUser: the Authorization header first, the cookie otherwise. *)
Credential == IF stored # "none" THEN stored ELSE jar.access

Rows(token) == {s \in DOMAIN sess : sess[s].hash = token}
Live(s) == ~sess[s].revoked /\ ~sess[s].expired
Refreshing(t) == fetch[t].phase \in {"refresh", "found", "rotated"}

(* apiFetch builds the headers and sends: the stored token and the cookies  *)
(* of this moment go with the request.                                      *)
Sent(t, kind, call, retried) ==
  [phase |-> "sent", kind |-> kind, call |-> call, cred |-> Credential, bearer |-> (stored # "none"),
   token |-> jar.refresh, row |-> 0, ok |-> FALSE, retried |-> retried]

StartFetch(t, kind) ==
  /\ fetch[t].phase = "idle"
  /\ calls < MaxCalls
  /\ calls' = calls + 1
  /\ fetch' = [fetch EXCEPT ![t] = Sent(t, kind, calls + 1, FALSE)]
  /\ UNCHANGED <<sess, jar, stored, raced>>

Served(t, ok) == fetch' = [fetch EXCEPT ![t].phase = "served", ![t].ok = ok]

(* POST /auth/login with the right password: a new row, and a new token. *)
ServeLogin(t) ==
  /\ fetch[t].phase = "sent" /\ fetch[t].kind = "login"
  /\ sess' = Append(sess, [hash |-> fetch[t].call, revoked |-> FALSE, expired |-> FALSE])
  /\ Served(t, TRUE)
  /\ UNCHANGED <<jar, stored, calls, raced>>

(* Any route behind requireAuth that leaves the sessions alone. *)
ServeData(t) ==
  /\ fetch[t].phase = "sent" /\ fetch[t].kind \in {"data", "me"}
  /\ Served(t, fetch[t].cred = "valid")
  /\ UNCHANGED <<sess, jar, stored, calls, raced>>

(* POST /auth/logout needs no access token; it revokes the row of the      *)
(* refresh cookie the request carried, if that is still its token.         *)
ServeLogout(t) ==
  /\ fetch[t].phase = "sent" /\ fetch[t].kind = "logout"
  /\ sess' = [s \in DOMAIN sess |->
                IF s \in Rows(fetch[t].token) THEN [sess[s] EXCEPT !.revoked = TRUE] ELSE sess[s]]
  /\ Served(t, TRUE)
  /\ UNCHANGED <<jar, stored, calls, raced>>

ServeLogoutAll(t) ==
  /\ fetch[t].phase = "sent" /\ fetch[t].kind = "logout_all"
  /\ sess' = IF fetch[t].cred = "valid"
               THEN [s \in DOMAIN sess |-> [sess[s] EXCEPT !.revoked = TRUE]]
               ELSE sess
  /\ Served(t, fetch[t].cred = "valid")
  /\ UNCHANGED <<jar, stored, calls, raced>>

(* Mutant: refresh forgets to check revokedAt. *)
RefreshFindRevoked(t) ==
  /\ fetch[t].phase = "refresh"
  /\ LET found == {s \in Rows(fetch[t].token) : ~sess[s].expired} IN
       fetch' = [fetch EXCEPT ![t].phase = IF found = {} THEN "refused" ELSE "found",
                              ![t].row = IF found = {} THEN 0 ELSE CHOOSE s \in found : TRUE]
  /\ UNCHANGED <<sess, jar, stored, calls, raced>>

(* POST /auth/refresh up to its first await: the row is read and checked. *)
RefreshFind(t) ==
  /\ fetch[t].phase = "refresh"
  /\ LET found == {s \in Rows(fetch[t].token) : Live(s)} IN
       fetch' = [fetch EXCEPT ![t].phase = IF found = {} THEN "refused" ELSE "found",
                              ![t].row = IF found = {} THEN 0 ELSE CHOOSE s \in found : TRUE]
  /\ UNCHANGED <<sess, jar, stored, calls, raced>>

(* sessionsRepo.rotate writes the row by its id whatever happened since it  *)
(* was read: a new hash, a new expiry, and revokedAt: null.                 *)
RefreshRotate(t) ==
  /\ fetch[t].phase = "found"
  /\ sess' = [sess EXCEPT ![fetch[t].row] =
                [hash |-> fetch[t].call, revoked |-> FALSE, expired |-> FALSE]]
  /\ fetch' = [fetch EXCEPT ![t].phase = "rotated"]
  /\ raced' = (raced \/ \E u \in Tabs \ {t} : Refreshing(u))
  /\ UNCHANGED <<jar, stored, calls>>

(* Mutant: the answer of refresh does not set the refresh cookie. *)
ReadRotatedAccessOnly(t) ==
  /\ fetch[t].phase = "rotated"
  /\ jar' = [jar EXCEPT !.access = "valid"]
  /\ fetch' = [fetch EXCEPT ![t] =
       [Sent(t, fetch[t].kind, fetch[t].call, TRUE) EXCEPT
          !.cred = IF stored # "none" THEN stored ELSE "valid", !.token = fetch[t].token]]
  /\ UNCHANGED <<sess, stored, calls, raced>>

(* refreshSession() is told of success: the browser has the new cookies and *)
(* apiFetch sends the request again, this time without a second refresh.    *)
(* The stored token, if there is one, is sent as before.                    *)
ReadRotated(t) ==
  /\ fetch[t].phase = "rotated"
  /\ jar' = [refresh |-> fetch[t].call, access |-> "valid"]
  /\ fetch' = [fetch EXCEPT ![t] =
       [Sent(t, fetch[t].kind, fetch[t].call, TRUE) EXCEPT
          !.cred = IF stored # "none" THEN stored ELSE "valid", !.token = fetch[t].call]]
  /\ UNCHANGED <<sess, stored, calls, raced>>

NoCookies == [refresh |-> 0, access |-> "none"]

(* Refresh was refused: clearAuthCookies, and the tab drops the stored      *)
(* token its request was sent with (getMe drops it in any case).            *)
ReadRefused(t) ==
  /\ fetch[t].phase = "refused"
  /\ jar' = NoCookies
  /\ stored' = IF fetch[t].bearer \/ fetch[t].kind \in {"me", "logout_all"} THEN "none" ELSE stored
  /\ fetch' = [fetch EXCEPT ![t] = Idle]
  /\ UNCHANGED <<sess, calls, raced>>

(* login(): the cookies of startSession and the token of the body. *)
ReadLogin(t) ==
  /\ fetch[t].phase = "served" /\ fetch[t].kind = "login"
  /\ jar' = [refresh |-> fetch[t].call, access |-> "valid"]
  /\ stored' = "valid"
  /\ fetch' = [fetch EXCEPT ![t] = Idle]
  /\ UNCHANGED <<sess, calls, raced>>

(* logout() and logoutAllSessions(): the answer clears the cookies, the     *)
(* finally block the stored token.                                          *)
ReadLogout(t) ==
  /\ fetch[t].phase = "served" /\ fetch[t].ok /\ fetch[t].kind \in {"logout", "logout_all"}
  /\ jar' = NoCookies
  /\ stored' = "none"
  /\ fetch' = [fetch EXCEPT ![t] = Idle]
  /\ UNCHANGED <<sess, calls, raced>>

ReadData(t) ==
  /\ fetch[t].phase = "served" /\ fetch[t].ok /\ fetch[t].kind \in {"data", "me"}
  /\ fetch' = [fetch EXCEPT ![t] = Idle]
  /\ UNCHANGED <<sess, jar, stored, calls, raced>>

(* A first 401: refreshSession() goes out with the cookie of this moment. *)
ReadUnauthorized(t) ==
  /\ fetch[t].phase = "served" /\ ~fetch[t].ok /\ ~fetch[t].retried
  /\ fetch' = [fetch EXCEPT ![t].phase = "refresh", ![t].token = jar.refresh]
  /\ UNCHANGED <<sess, jar, stored, calls, raced>>

(* A 401 to the retry is the caller's: getMe and logoutAllSessions drop the *)
(* stored token, the others leave it where it is.                           *)
ReadUnauthorizedAgain(t) ==
  /\ fetch[t].phase = "served" /\ ~fetch[t].ok /\ fetch[t].retried
  /\ stored' = IF fetch[t].kind \in {"me", "logout_all"} THEN "none" ELSE stored
  /\ fetch' = [fetch EXCEPT ![t] = Idle]
  /\ UNCHANGED <<sess, jar, calls, raced>>

(* fetch rejects: the answer is lost.  logout() and logoutAllSessions()     *)
(* clear the stored token in their finally blocks.                          *)
LoseAnswer(t) ==
  /\ fetch[t].phase \in {"served", "rotated", "refused"}
  /\ stored' = IF fetch[t].kind \in {"logout", "logout_all"} THEN "none" ELSE stored
  /\ raced' = (raced \/ fetch[t].phase = "rotated")
  /\ fetch' = [fetch EXCEPT ![t] = Idle]
  /\ UNCHANGED <<sess, jar, calls>>

(* The token of login() runs out, in storage and in the cookie; the cookie  *)
(* of a later refresh is younger and may outlive it.                        *)
StoredTokenExpires ==
  /\ stored = "valid"
  /\ stored' = "expired"
  /\ \E a \in {jar.access, "none"} : jar' = [jar EXCEPT !.access = a]
  /\ UNCHANGED <<sess, fetch, calls, raced>>

AccessCookieExpires ==
  /\ jar.access = "valid" /\ stored # "valid"
  /\ jar' = [jar EXCEPT !.access = "none"]
  /\ UNCHANGED <<sess, stored, fetch, calls, raced>>

(* REFRESH_TOKEN_TTL_DAYS have passed since the row was last rotated. *)
SessionExpires(s) ==
  /\ ~sess[s].expired
  /\ sess' = [sess EXCEPT ![s].expired = TRUE]
  /\ UNCHANGED <<jar, stored, fetch, calls, raced>>

Serve(t) ==
  \/ ServeLogin(t) \/ ServeData(t) \/ ServeLogout(t) \/ ServeLogoutAll(t)
  \/ RefreshFind(t) \/ RefreshRotate(t)

Read(t) ==
  \/ ReadRotated(t) \/ ReadRefused(t) \/ ReadLogin(t) \/ ReadLogout(t)
  \/ ReadData(t) \/ ReadUnauthorized(t) \/ ReadUnauthorizedAgain(t)

SessionNext ==
  \/ \E t \in Tabs : \/ \E kind \in Kinds : StartFetch(t, kind)
                     \/ Serve(t) \/ Read(t) \/ LoseAnswer(t)
  \/ StoredTokenExpires \/ AccessCookieExpires
  \/ \E s \in DOMAIN sess : SessionExpires(s)

SessionSpec == SessionInit /\ [][SessionNext]_sessionVars

----------------------------------------------------------------------------

(* Types of the rows, the cookies, the storage and the requests. *)
SessionTypeOK ==
  /\ sess \in Seq([hash : 1..MaxCalls, revoked : BOOLEAN, expired : BOOLEAN])
  /\ jar \in [refresh : 0..MaxCalls, access : {"none", "valid"}]
  /\ stored \in Access
  /\ fetch \in [Tabs -> [phase : Phases, kind : Kinds, call : 0..MaxCalls, cred : Access,
                         bearer : BOOLEAN, token : 0..MaxCalls, row : Nat,
                         ok : BOOLEAN, retried : BOOLEAN]]
  /\ calls \in 0..MaxCalls
  /\ raced \in BOOLEAN

(* A revoked row is gone for good unless a refresh read it while it was    *)
(* live and has not written it yet: rotate's revokedAt: null can undo a     *)
(* logout, but only inside that one await.                                  *)
Gone(s) ==
  /\ s \in DOMAIN sess /\ sess[s].revoked
  /\ \A t \in Tabs : fetch[t].phase = "found" => fetch[t].row # s

RevokedStaysRevoked == [][\A s \in DOMAIN sess : Gone(s) => Gone(s)']_sessionVars

(* A browser at rest that has a refresh cookie has the current token of one *)
(* of its rows, so that only revocation and expiry log it out, unless two   *)
(* refreshes overlapped or an answer was lost: nothing else in apiFetch or  *)
(* in the handlers leaves it with a token that was rotated away.            *)
CookieIsLive ==
  (\A t \in Tabs : fetch[t].phase = "idle") /\ jar.refresh # 0 =>
    \/ raced
    \/ Rows(jar.refresh) # {}

(* README.md:71 "Revoke the current session" of POST /auth/logout: a row    *)
(* that was revoked stays so.  The code keeps less (see RevokedStaysRevoked). *)
LogoutHolds == [][\A s \in DOMAIN sess : sess[s].revoked => sess'[s].revoked]_sessionVars
=============================================================================
