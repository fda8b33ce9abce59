---------------------------- MODULE DeviceAccess ----------------------------
(***************************************************************************)
(* How one desktop comes to act for a user, and how it stops: sign-in      *)
(* through the browser (attempt, handoff, exchange), pairing by code,      *)
(* hello with a device token, sign-out, revocation from another desktop.   *)
(* The device's row in the database, the API's memory of it (deviceStore   *)
(* and ownership) and the desktop's keychain are written at different      *)
(* awaits; "work" holds the handlers between two of them.                  *)
(***************************************************************************)
EXTENDS Naturals, Sequences

CONSTANTS Users, NoUser,
          MaxTokens,    \* bound: device tokens issued
          MaxSignIns,   \* bound: sign-ins the desktop starts
          MaxHandoffs,  \* bound: handoffs issued
          MaxStops      \* bound: restarts of the API and of the desktop

ASSUME AccessBoundsAssumption == {MaxTokens, MaxSignIns, MaxHandoffs, MaxStops} \subseteq Nat

VARIABLES row,       \* devicesRepo: owner, token (its hash), live (not revoked, not expired), code
          mem,       \* the API's memory: paired (deviceStore), owner (ownership)
          attempts,  \* desktopAuth: the sign-ins whose attempt is kept
          handoffs,  \* desktopAuth: [signIn, user, used, kept] in order of issue
          work,      \* handlers between two awaits
          desk,      \* the desktop: auth state, sign-in number and phase, handoff, token
          sock,      \* its connection: phase, token and user of the hello
          mail,      \* device.token commands on their way to the desktop
          issued,    \* tokens issued so far, by the user each was issued to
          overlap,   \* history: a hello, a revocation or a second claim overlapped a claim
          lost,      \* history: a token was issued that the desktop never received
          stops

accessVars == <<row, mem, attempts, handoffs, work, desk, sock, mail, issued, overlap, lost, stops>>

Tokens == 0..MaxTokens                       \* 0: none
NoSock == [phase |-> "closed", token |-> 0, user |-> NoUser]
SignedOut == [auth |-> "signed_out", n |-> 0, phase |-> "none", handoff |-> 0, token |-> 0]

AccessInit ==
  /\ row = [owner |-> NoUser, token |-> 0, live |-> FALSE, code |-> FALSE]
  /\ mem = [paired |-> FALSE, owner |-> NoUser]
  /\ attempts = {} /\ handoffs = <<>> /\ work = {}
  /\ desk = SignedOut /\ sock = NoSock /\ mail = <<>>
  /\ issued = <<>> /\ overlap = FALSE /\ lost = FALSE /\ stops = 0

(* isDesktopDeviceSessionActive on the row the token's hash finds. *)
Active(token) == token # 0 /\ row.token = token /\ row.live /\ row.owner # NoUser

Claiming == \E w \in work : w.op = "claim"
OnTheWay == mail # <<>> \/ Claiming
Helloing == sock.phase \in {"found", "registered"}

----------------------------------------------------------------------------
(* Sign-in.                                                                 *)

(* handleDesktopSignIn: offered while no token is held.  The listener on    *)
(* the loopback port is up before the attempt is announced.                 *)
StartSignIn ==
  /\ desk.auth = "signed_out" /\ desk.n < MaxSignIns
  /\ desk' = [desk EXCEPT !.auth = "signing_in", !.n = desk.n + 1, !.phase = "start"]
  /\ UNCHANGED <<row, mem, attempts, handoffs, work, sock, mail, issued, overlap, lost, stops>>

(* POST /desktop/auth/start, and the browser is opened. *)
StartAttempt ==
  /\ desk.phase = "start"
  /\ attempts' = attempts \cup {desk.n}
  /\ desk' = [desk EXCEPT !.phase = "browser"]
  /\ UNCHANGED <<row, mem, handoffs, work, sock, mail, issued, overlap, lost, stops>>

(* POST /desktop/auth/complete by whoever is signed in in the browser.  The *)
(* attempt stays: the page may be loaded again, or by another user.         *)
IssueHandoff(u) ==
  /\ Len(handoffs) < MaxHandoffs
  /\ \E n \in attempts :
       handoffs' = Append(handoffs, [signIn |-> n, user |-> u, used |-> FALSE, kept |-> TRUE])
  /\ UNCHANGED <<row, mem, attempts, work, desk, sock, mail, issued, overlap, lost, stops>>

(* The page is redirected to the loopback callback: the listener takes one  *)
(* connection, with the state of its own sign-in.                           *)
Callback(h) ==
  /\ desk.phase = "browser" /\ handoffs[h].signIn = desk.n
  /\ desk' = [desk EXCEPT !.phase = "exchange", !.handoff = h]
  /\ UNCHANGED <<row, mem, attempts, handoffs, work, sock, mail, issued, overlap, lost, stops>>

(* POST /desktop/auth/exchange up to its first await: consumeHandoff.  The  *)
(* device, state and nonce match, as they come from the same sign-in.       *)
Exchange ==
  LET h == desk.handoff IN
  /\ desk.phase = "exchange" /\ Len(issued) < MaxTokens
  /\ handoffs[h].kept /\ ~handoffs[h].used
  /\ handoffs' = [handoffs EXCEPT ![h].used = TRUE]
  /\ issued' = Append(issued, handoffs[h].user)
  /\ work' = work \cup {[op |-> "claim", at |-> "write", user |-> handoffs[h].user,
                         token |-> Len(issued) + 1, via |-> "signin"]}
  /\ desk' = [desk EXCEPT !.phase = "claiming"]
  /\ overlap' = (overlap \/ OnTheWay)
  /\ UNCHANGED <<row, mem, attempts, sock, mail, lost, stops>>

----------------------------------------------------------------------------
(* Pairing.                                                                 *)

(* device.pairing.request_code on an open connection. *)
RequestCode ==
  /\ sock.phase = "open" /\ ~row.code
  /\ row' = [row EXCEPT !.code = TRUE]
  /\ UNCHANGED <<mem, attempts, handoffs, work, desk, sock, mail, issued, overlap, lost, stops>>

(* POST /devices/:deviceId/pair reads the row and checks the code, awaits,  *)
(* and only then claims: two requests can pass the check with one code.     *)
Pair(u) ==
  /\ row.code /\ sock.phase \in {"registered", "open"} /\ Len(issued) < MaxTokens
  /\ issued' = Append(issued, u)
  /\ work' = work \cup {[op |-> "claim", at |-> "write", user |-> u,
                         token |-> Len(issued) + 1, via |-> "pair"]}
  /\ overlap' = (overlap \/ OnTheWay)
  /\ UNCHANGED <<row, mem, attempts, handoffs, desk, sock, mail, lost, stops>>

----------------------------------------------------------------------------
(* devicesRepo.claimDevice, then deviceStore.claimDevice and ownership.     *)

(* Mutant: claimDevice keeps the owner of a device that has one. *)
ClaimWriteKeepsOwner(w) ==
  /\ w.op = "claim" /\ w.at = "write"
  /\ row' = [owner |-> IF row.owner = NoUser THEN w.user ELSE row.owner,
             token |-> w.token, live |-> TRUE, code |-> FALSE]
  /\ work' = (work \ {w}) \cup {[w EXCEPT !.at = "memory"]}
  /\ overlap' = (overlap \/ Helloing \/ \E v \in work \ {w} : TRUE)
  /\ UNCHANGED <<mem, attempts, handoffs, desk, sock, mail, issued, lost, stops>>

ClaimWrite(w) ==
  /\ w.op = "claim" /\ w.at = "write"
  /\ row' = [owner |-> w.user, token |-> w.token, live |-> TRUE, code |-> FALSE]
  /\ work' = (work \ {w}) \cup {[w EXCEPT !.at = "memory"]}
  /\ overlap' = (overlap \/ Helloing \/ \E v \in work \ {w} : TRUE)
  /\ UNCHANGED <<mem, attempts, handoffs, desk, sock, mail, issued, lost, stops>>

(* Mutant: the pairing route does not dispatch device.token. *)
ClaimMemoryNoMail(w) ==
  /\ w.op = "claim" /\ w.at = "memory"
  /\ mem' = [paired |-> TRUE, owner |-> w.user]
  /\ work' = (work \ {w}) \cup (IF w.via = "signin" THEN {[w EXCEPT !.at = "reply"]} ELSE {})
  /\ overlap' = (overlap \/ Helloing)
  /\ UNCHANGED <<row, attempts, handoffs, desk, sock, mail, issued, lost, stops>>

ClaimMemory(w) ==
  /\ w.op = "claim" /\ w.at = "memory"
  /\ mem' = [paired |-> TRUE, owner |-> w.user]
  /\ mail' = IF w.via = "pair" THEN Append(mail, w.token) ELSE mail
  /\ work' = (work \ {w}) \cup (IF w.via = "signin" THEN {[w EXCEPT !.at = "reply"]} ELSE {})
  /\ overlap' = (overlap \/ Helloing)
  /\ UNCHANGED <<row, attempts, handoffs, desk, sock, issued, lost, stops>>

(* The token reaches the keychain and the desktop connects again with it.   *)
SignedIn(w) ==
  /\ w.op = "claim" /\ w.at = "reply"
  /\ work' = work \ {w}
  /\ IF desk.phase = "claiming"
       THEN /\ desk' = [desk EXCEPT !.auth = "signed_in", !.phase = "none", !.token = w.token]
            /\ sock' = [NoSock EXCEPT !.phase = "check", !.token = w.token]
            /\ lost' = lost
       ELSE UNCHANGED <<desk, sock>> /\ lost' = TRUE
  /\ UNCHANGED <<row, mem, attempts, handoffs, mail, issued, overlap, stops>>

(* onDeviceToken: the connection is kept, the next hello carries the token. *)
ReceiveToken ==
  /\ mail # <<>> /\ sock.phase = "open"
  /\ mail' = Tail(mail)
  /\ desk' = [desk EXCEPT !.auth = "signed_in", !.token = Head(mail)]
  /\ lost' = (lost \/ desk.auth \in {"signing_in", "signing_out"})
  /\ UNCHANGED <<row, mem, attempts, handoffs, work, sock, issued, overlap, stops>>

(* A request fails, the browser is not opened, the callback does not come   *)
(* within DESKTOP_AUTH_CALLBACK_TIMEOUT_MS, the exchange is refused or its  *)
(* answer is lost: the listener is canceled and the state goes back.        *)
SignInFails ==
  /\ desk.auth = "signing_in" /\ desk.phase # "none"
  /\ desk' = [desk EXCEPT !.auth = IF desk.token = 0 THEN "signed_out" ELSE "signed_in",
                          !.phase = "none"]
  /\ lost' = (lost \/ desk.phase = "claiming")
  /\ UNCHANGED <<row, mem, attempts, handoffs, work, sock, mail, issued, overlap, stops>>

----------------------------------------------------------------------------
(* Sign-out and revocation.                                                 *)

StartSignOut ==
  /\ desk.auth = "signed_in"
  /\ desk' = [desk EXCEPT !.auth = "signing_out", !.phase = "logout"]
  /\ UNCHANGED <<row, mem, attempts, handoffs, work, sock, mail, issued, overlap, lost, stops>>

(* POST /desktop/auth/logout: the token must still be active; the row keeps *)
(* its hash, ended.                                                         *)
Logout ==
  /\ desk.phase = "logout"
  /\ IF Active(desk.token)
       THEN /\ row' = [row EXCEPT !.live = FALSE]
            /\ work' = work \cup {[op |-> "revoke", at |-> "memory", user |-> row.owner,
                                   token |-> desk.token, via |-> "logout"]}
            /\ desk' = [desk EXCEPT !.phase = "logout_ok"]
       ELSE /\ desk' = [desk EXCEPT !.phase = "logout_refused"]
            /\ UNCHANGED <<row, work>>
  /\ overlap' = (overlap \/ Claiming)
  /\ UNCHANGED <<mem, attempts, handoffs, sock, mail, issued, lost, stops>>

(* POST /desktop/devices/:deviceId/revoke by another desktop of user u that *)
(* has found the device its own and paired, before its update.              *)
RevokeOther(u) ==
  /\ row.owner = u /\ row.live
  /\ ~\E w \in work : w.via = "other"
  /\ work' = work \cup {[op |-> "revoke", at |-> "write", user |-> u, token |-> 0, via |-> "other"]}
  /\ overlap' = (overlap \/ Claiming)
  /\ UNCHANGED <<row, mem, attempts, handoffs, desk, sock, mail, issued, lost, stops>>

RevokeWrite(w) ==
  /\ w.op = "revoke" /\ w.at = "write"
  /\ row' = IF row.owner = w.user THEN [row EXCEPT !.live = FALSE] ELSE row
  /\ work' = (work \ {w}) \cup {[w EXCEPT !.at = "memory"]}
  /\ overlap' = (overlap \/ Claiming)
  /\ UNCHANGED <<mem, attempts, handoffs, desk, sock, mail, issued, lost, stops>>

(* deviceStore.revokeSession and ownership.setDeviceOwner, whatever the     *)
(* update matched.  The open connection is not closed.                      *)
RevokeMemory(w) ==
  /\ w.op = "revoke" /\ w.at = "memory"
  /\ mem' = [paired |-> FALSE, owner |-> w.user]
  /\ work' = work \ {w}
  /\ overlap' = (overlap \/ Claiming)
  /\ UNCHANGED <<row, attempts, handoffs, desk, sock, mail, issued, lost, stops>>

(* The answer of logout: keychain cleared, disconnected, signed out. *)
SignOutDone ==
  /\ desk.phase = "logout_ok"
  /\ desk' = [SignedOut EXCEPT !.n = desk.n]
  /\ sock' = NoSock
  /\ UNCHANGED <<row, mem, attempts, handoffs, work, mail, issued, overlap, lost, stops>>

(* The request is refused, or it or its answer is lost: an error, and       *)
(* signed in as before.                                                     *)
SignOutFails ==
  /\ desk.phase \in {"logout", "logout_ok", "logout_refused"}
  /\ desk' = [desk EXCEPT !.auth = "signed_in", !.phase = "none"]
  /\ UNCHANGED <<row, mem, attempts, handoffs, work, sock, mail, issued, overlap, lost, stops>>

(* DESKTOP_DEVICE_SESSION_TTL_MS have passed. *)
TokenExpires ==
  /\ row.live
  /\ row' = [row EXCEPT !.live = FALSE]
  /\ UNCHANGED <<mem, attempts, handoffs, work, desk, sock, mail, issued, overlap, lost, stops>>

----------------------------------------------------------------------------
(* Connections.                                                             *)

Connect ==
  /\ sock.phase = "closed"
  /\ sock' = [NoSock EXCEPT !.phase = "check", !.token = desk.token]
  /\ UNCHANGED <<row, mem, attempts, handoffs, work, desk, mail, issued, overlap, lost, stops>>

(* device.hello up to the answer of authenticateDesktopDeviceSession; a bad *)
(* token closes the connection.                                             *)
HelloCheck ==
  /\ sock.phase = "check"
  /\ sock' = IF sock.token = 0 THEN [sock EXCEPT !.phase = "found"]
             ELSE IF Active(sock.token) THEN [sock EXCEPT !.phase = "found", !.user = row.owner]
             ELSE NoSock
  /\ overlap' = (overlap \/ Claiming)
  /\ UNCHANGED <<row, mem, attempts, handoffs, work, desk, mail, issued, lost, stops>>

(* deviceStore.upsert and ownership.setDeviceOwner: null without a token.   *)
HelloRegister ==
  /\ sock.phase = "found"
  /\ mem' = [mem EXCEPT !.owner = sock.user]
  /\ sock' = [sock EXCEPT !.phase = "registered"]
  /\ overlap' = (overlap \/ Claiming)
  /\ UNCHANGED <<row, attempts, handoffs, work, desk, mail, issued, lost, stops>>

(* devicesRepo.upsertHello keeps the owner when the hello had none.         *)
HelloUpsert ==
  /\ sock.phase = "registered"
  /\ row' = IF sock.user = NoUser THEN row ELSE [row EXCEPT !.owner = sock.user]
  /\ sock' = [sock EXCEPT !.phase = "open"]
  /\ UNCHANGED <<mem, attempts, handoffs, work, desk, mail, issued, overlap, lost, stops>>

Disconnect ==
  /\ sock.phase = "open"
  /\ sock' = NoSock
  /\ UNCHANGED <<row, mem, attempts, handoffs, work, desk, mail, issued, overlap, lost, stops>>

(* Attempts live ten minutes, handoffs two. *)
HandoffExpires ==
  /\ \/ \E n \in attempts : attempts' = attempts \ {n} /\ UNCHANGED handoffs
     \/ \E h \in DOMAIN handoffs :
          /\ handoffs[h].kept /\ handoffs' = [handoffs EXCEPT ![h].kept = FALSE]
          /\ UNCHANGED attempts
  /\ UNCHANGED <<row, mem, work, desk, sock, mail, issued, overlap, lost, stops>>

(* A new API process: attempts and handoffs are gone, the memory is loaded  *)
(* from the rows, handlers under way are never finished.                    *)
ApiRestart ==
  /\ stops < MaxStops
  /\ stops' = stops + 1
  /\ attempts' = {}
  /\ handoffs' = [h \in DOMAIN handoffs |-> [handoffs[h] EXCEPT !.kept = FALSE]]
  /\ mem' = [paired |-> row.live /\ row.owner # NoUser, owner |-> row.owner]
  /\ work' = {}
  /\ lost' = (lost \/ Claiming)
  /\ sock' = NoSock
  /\ UNCHANGED <<row, desk, mail, issued, overlap>>

(* The desktop starts again: signed in if the keychain holds a token. *)
DesktopRestart ==
  /\ stops < MaxStops
  /\ stops' = stops + 1
  /\ desk' = [desk EXCEPT !.auth = IF desk.token = 0 THEN "signed_out" ELSE "signed_in",
                          !.phase = "none"]
  /\ lost' = (lost \/ desk.phase = "claiming")
  /\ sock' = NoSock
  /\ UNCHANGED <<row, mem, attempts, handoffs, work, mail, issued, overlap>>

Desktop ==
  \/ StartAttempt \/ SignInFails \/ SignOutDone \/ SignOutFails \/ ReceiveToken
  \/ \E h \in DOMAIN handoffs : Callback(h)

ApiHandlers ==
  \/ Exchange \/ Logout \/ HelloCheck \/ HelloRegister \/ HelloUpsert
  \/ \E w \in work : ClaimWrite(w) \/ ClaimMemory(w) \/ SignedIn(w) \/ RevokeWrite(w) \/ RevokeMemory(w)

AccessNext ==
  \/ Desktop \/ ApiHandlers
  \/ StartSignIn \/ StartSignOut \/ RequestCode \/ Connect \/ Disconnect
  \/ TokenExpires \/ HandoffExpires \/ ApiRestart \/ DesktopRestart
  \/ \E u \in Users : IssueHandoff(u) \/ Pair(u) \/ RevokeOther(u)

AccessSpec == AccessInit /\ [][AccessNext]_accessVars

----------------------------------------------------------------------------

Works == [op : {"claim", "revoke"}, at : {"write", "memory", "reply"},
          user : Users \cup {NoUser}, token : Tokens, via : {"signin", "pair", "logout", "other"}]

(* Types of the rows, the memory, the handlers and the desktop. *)
AccessTypeOK ==
  /\ row \in [owner : Users \cup {NoUser}, token : Tokens, live : BOOLEAN, code : BOOLEAN]
  /\ mem \in [paired : BOOLEAN, owner : Users \cup {NoUser}]
  /\ attempts \subseteq 1..MaxSignIns
  /\ handoffs \in Seq([signIn : 1..MaxSignIns, user : Users, used : BOOLEAN, kept : BOOLEAN])
  /\ work \subseteq Works
  /\ desk \in [auth : {"signed_out", "signing_in", "signed_in", "signing_out"}, n : 0..MaxSignIns,
               phase : {"none", "start", "browser", "exchange", "claiming", "logout", "logout_ok", "logout_refused"},
               handoff : 0..MaxHandoffs, token : Tokens]
  /\ sock \in [phase : {"closed", "check", "found", "registered", "open"}, token : Tokens,
               user : Users \cup {NoUser}]
  /\ mail \in Seq(Tokens) /\ issued \in Seq(Users)
  /\ overlap \in BOOLEAN /\ lost \in BOOLEAN /\ stops \in 0..MaxStops

(* A device has one owner.  The row's owner is the user its token was       *)
(* issued to: a hello, a sign-out or a revocation never leaves one user's   *)
(* token on another user's device.  With no handler under way the owner in  *)
(* memory, who is sent the device's events (eventBelongsToUser), is the     *)
(* row's or null.  Both unless a claim was overlapped.                      *)
OneOwner ==
  ~overlap => /\ row.token # 0 => row.owner = issued[row.token]
              /\ work = {} /\ ~Helloing => mem.owner \in {NoUser, row.owner}

(* A signed-in desktop at rest holds the last token issued for its device,  *)
(* so its next hello is refused only after a revocation or an expiry; a     *)
(* token that was lost on its way, or a claim that overlapped another, is   *)
(* the only exception.                                                      *)
KeychainIsCurrent ==
  desk.auth = "signed_in" /\ work = {} /\ mail = <<>> /\ ~lost /\ ~overlap => desk.token = row.token

=============================================================================
