--------------------------- MODULE RecordsProofs ---------------------------
(***************************************************************************)
(* What outlives a process.  The first part proves that a device has one   *)
(* owner and that the keychain follows its row, of DeviceAccess; the second *)
(* that no child of the local runtime is lost and that its progress is     *)
(* honest, of LocalAi; the third composes the inductive invariants of the  *)
(* four components of MCRecords.                                           *)
(***************************************************************************)
EXTENDS MCRecords, AccountProofs, FiniteSetTheorems

----------------------------------------------------------------------------
\* Sign-in, device tokens and ownership.

\* A claim that has written the row.
Holds(w) == w.op = "claim" /\ w.at # "write"

Handoff == [signIn : 1..MaxSignIns, user : Users, used : BOOLEAN, kept : BOOLEAN]

\* Sequences stay within their bounds; a phase has what it needs, and a hello
\* that is not yet checked no user.
AccessBounded ==
  /\ Len(handoffs) <= MaxHandoffs /\ Len(issued) <= MaxTokens
  /\ desk.phase = "start" => desk.n # 0
  /\ desk.phase = "exchange" => desk.handoff \in DOMAIN handoffs
  /\ sock.phase = "check" => sock.user = NoUser

\* A claim carries a token that was issued to its user.
ClaimsIssued ==
  /\ row.token <= Len(issued) /\ mail \in Seq(1..MaxTokens)
  /\ \A w \in work : w.op = "claim" =>
       w.token \in 1..Len(issued) /\ issued[w.token] = w.user /\ w.via \in {"signin", "pair"}

\* While no claim was overlapped: a hello that is under way found the row's
\* owner, a claim that has written the row is alone, a revocation is by the
\* owner, the memory is behind only while a claim is about to write it, and at
\* most one token is on its way, the row's.
Owners ==
  /\ row.token # 0 => row.owner = issued[row.token]
  /\ Helloing => sock.user \in {NoUser, row.owner}
  /\ \A w \in work : Holds(w) => work = {w} /\ ~Helloing /\ row.token = w.token /\ row.owner = w.user
  /\ \A w \in work : w.op = "revoke" => w.user = row.owner
  /\ (\A w \in work : ~(w.op = "claim" /\ w.at = "memory")) => mem.owner \in {NoUser, row.owner}
  /\ Claiming => mail = <<>>
  /\ Len(mail) <= 1 /\ (mail # <<>> => Head(mail) = row.token)

\* While no token was lost either: the keychain is empty exactly when the
\* desktop is signed out or signing in, and holds the row's token unless a newer
\* one is on its way to it.
Keys ==
  /\ (desk.auth \in {"signed_out", "signing_in"}) <=> (desk.token = 0)
  /\ desk.phase \in {"start", "browser", "exchange", "claiming"} => desk.auth = "signing_in"
  /\ desk.phase \in {"logout", "logout_ok", "logout_refused"} => desk.auth = "signing_out"
  /\ desk.token # 0 /\ mail = <<>> /\ (\A w \in work : ~Holds(w)) => desk.token = row.token

OwnerInv == ~overlap => Owners
KeyInv == ~overlap /\ ~lost => Keys

\* The parts of the type invariant.
AuthStates == {"signed_out", "signing_in", "signed_in", "signing_out"}
DeskPhases == {"none", "start", "browser", "exchange", "claiming", "logout", "logout_ok", "logout_refused"}
Desk == [auth : AuthStates, n : 0..MaxSignIns, phase : DeskPhases, handoff : 0..MaxHandoffs, token : Tokens]
Sock == [phase : {"closed", "check", "found", "registered", "open"}, token : Tokens, user : Users \cup {NoUser}]
DeviceRow == [owner : Users \cup {NoUser}, token : Tokens, live : BOOLEAN, code : BOOLEAN]
StoreTyped == row \in DeviceRow /\ mem \in [paired : BOOLEAN, owner : Users \cup {NoUser}]
GrantsTyped == attempts \subseteq 1..MaxSignIns /\ handoffs \in Seq(Handoff) /\ issued \in Seq(Users)
DeskTyped == desk \in Desk
SockTyped == sock \in Sock
MarksTyped == overlap \in BOOLEAN /\ lost \in BOOLEAN /\ stops \in 0..MaxStops

\* The inductive invariant.
AccessTyped == StoreTyped /\ GrantsTyped /\ work \subseteq Works /\ DeskTyped /\ SockTyped /\ MarksTyped

AccessInv == AccessTyped /\ AccessBounded /\ ClaimsIssued /\ OwnerInv /\ KeyInv

\* A step that leaves the memory, the handlers, the mail and the tokens.
LEMMA QuietAccess ==
  ASSUME AccessInv, row'.token = row.token, ~overlap' => row'.owner = row.owner,
         UNCHANGED <<mem, work, mail, issued>>, overlap => overlap',
         ~overlap' /\ Helloing' => sock'.user \in {NoUser, row.owner} /\ \A w \in work : ~Holds(w)
  PROVE  ClaimsIssued' /\ OwnerInv'
BY DEF AccessInv, ClaimsIssued, OwnerInv, Owners, Claiming

\* The connection of a step that leaves it.
LEMMA SameSock ==
  ASSUME AccessInv, ~overlap, Helloing
  PROVE  sock.user \in {NoUser, row.owner} /\ \A w \in work : ~Holds(w)
BY DEF AccessInv, OwnerInv, Owners

\* A step that leaves the keychain and what is on its way to it.
LEMMA QuietKeys ==
  ASSUME AccessInv, UNCHANGED <<desk, mail>>, lost => lost', overlap => overlap', row'.token = row.token,
         \A w \in work : Holds(w) => w \in work' \/ overlap' \/ lost'
  PROVE  KeyInv'
BY DEF AccessInv, KeyInv, Keys, Holds

\* A connection that is closed.
LEMMA NoSockTyped == NoSock \in Sock /\ NoSock.phase = "closed" /\ NoSock.user = NoUser /\ 0 \in Tokens
BY AccessBoundsAssumption DEF NoSock, Sock, Tokens

\* Handoffs that are marked, and one that is added.
LEMMA HandoffsMarked ==
  ASSUME handoffs \in Seq(Handoff), NEW f \in [DOMAIN handoffs -> Handoff], handoffs' = f
  PROVE  handoffs' \in Seq(Handoff) /\ Len(handoffs') = Len(handoffs) /\ DOMAIN handoffs' = DOMAIN handoffs
<1>1. DOMAIN handoffs = 1..Len(handoffs) /\ Len(handoffs) \in Nat
  BY LenProperties
<1>2. f \in Seq(Handoff) /\ Len(f) = Len(handoffs)
  BY <1>1
<1> QED BY <1>1, <1>2

\* Sign-in up to the exchange, and the bare steps of the desktop.
LEMMA DesktopKeepsAccess ==
  ASSUME AccessInv,
         \/ StartSignIn \/ StartAttempt \/ SignInFails \/ StartSignOut \/ SignOutDone \/ SignOutFails
         \/ (\E h \in DOMAIN handoffs : Callback(h)) \/ DesktopRestart
  PROVE  AccessInv'
<1> USE AccessBoundsAssumption
<1>0. desk \in Desk /\ attempts \subseteq 1..MaxSignIns
  BY DEF AccessInv, AccessTyped, DeskTyped, GrantsTyped
<1>2. UNCHANGED <<row, mem, handoffs, work, mail, issued, overlap>> /\ (sock' = sock \/ sock' = NoSock)
  BY DEF StartSignIn, StartAttempt, SignInFails, StartSignOut, SignOutDone, SignOutFails, Callback, DesktopRestart
<1>1. AccessTyped'
  <2>1. DeskTyped'
    <3>1. CASE StartSignIn
      <4>1. desk.n + 1 \in 0..MaxSignIns
        BY <1>0, <3>1 DEF StartSignIn, Desk
      <4> QED BY <1>0, <3>1, <4>1 DEF StartSignIn, DeskTyped, Desk, DeskPhases, AuthStates
    <3>2. CASE SignInFails \/ DesktopRestart
      <4>1. \E a \in AuthStates : desk' = [desk EXCEPT !.auth = a, !.phase = "none"]
        BY <3>2 DEF SignInFails, DesktopRestart, AuthStates
      <4> QED BY <1>0, <4>1 DEF DeskTyped, Desk, DeskPhases
    <3>3. CASE StartAttempt
      BY <1>0, <3>3 DEF StartAttempt, DeskTyped, Desk, DeskPhases
    <3>4. CASE StartSignOut \/ SignOutFails
      <4>1. \E a \in AuthStates, p \in DeskPhases : desk' = [desk EXCEPT !.auth = a, !.phase = p]
        BY <3>4 DEF StartSignOut, SignOutFails, AuthStates, DeskPhases
      <4> QED BY <1>0, <4>1 DEF DeskTyped, Desk
    <3>5. CASE SignOutDone
      BY <1>0, <3>5 DEF SignOutDone, SignedOut, DeskTyped, Desk, DeskPhases, AuthStates, Tokens
    <3>6. ASSUME NEW h \in DOMAIN handoffs, Callback(h) PROVE DeskTyped'
      <4>1. h \in 0..MaxHandoffs
        BY LenProperties DEF AccessInv, AccessTyped, GrantsTyped, AccessBounded
      <4> QED BY <1>0, <3>6, <4>1 DEF Callback, DeskTyped, Desk, DeskPhases
    <3> QED BY <3>1, <3>2, <3>3, <3>4, <3>5, <3>6
  <2>2. SockTyped'
    BY <1>2, NoSockTyped DEF AccessInv, AccessTyped, SockTyped
  <2>3. attempts' \subseteq 1..MaxSignIns
    <3>1. CASE StartAttempt
      <4>1. desk.n \in 1..MaxSignIns
        BY <1>0, <3>1 DEF StartAttempt, Desk, AccessInv, AccessBounded
      <4> QED BY <1>0, <3>1, <4>1 DEF StartAttempt
    <3>2. CASE ~StartAttempt
      BY <1>0, <3>2 DEF StartSignIn, SignInFails, StartSignOut, SignOutDone, SignOutFails, Callback, DesktopRestart
    <3> QED BY <3>1, <3>2
  <2>4. MarksTyped'
    <3>1. lost' \in BOOLEAN /\ overlap' = overlap
      BY DEF AccessInv, AccessTyped, MarksTyped,
             StartSignIn, StartAttempt, SignInFails, StartSignOut, SignOutDone, SignOutFails, Callback, DesktopRestart
    <3>2. stops' = stops \/ (stops < MaxStops /\ stops' = stops + 1)
      BY DEF StartSignIn, StartAttempt, SignInFails, StartSignOut, SignOutDone, SignOutFails, Callback, DesktopRestart
    <3> QED BY <3>1, <3>2 DEF AccessInv, AccessTyped, MarksTyped
  <2>5. UNCHANGED <<row, mem, handoffs, issued, work>>
    BY DEF StartSignIn, StartAttempt, SignInFails, StartSignOut, SignOutDone, SignOutFails, Callback, DesktopRestart
  <2>6. Works' = Works /\ Handoff' = Handoff
    BY DEF Works, Handoff, Tokens
  <2> QED BY <2>1, <2>2, <2>3, <2>4, <2>5, <2>6 DEF AccessInv, AccessTyped, StoreTyped, GrantsTyped, DeviceRow
<1>3. ClaimsIssued' /\ OwnerInv'
  <2>1. Helloing' => Helloing /\ sock' = sock
    BY <1>2 DEF Helloing, NoSock
  <2> QED BY <1>2, <2>1, QuietAccess, SameSock
<1>4. AccessBounded'
  <2>1. desk'.phase = "exchange" => desk'.handoff \in DOMAIN handoffs
    <3>1. CASE \E h \in DOMAIN handoffs : Callback(h)
      BY <1>0, <3>1 DEF Callback, Desk
    <3>2. CASE ~\E h \in DOMAIN handoffs : Callback(h)
      BY <1>0, <3>2 DEF Desk, StartSignIn, StartAttempt, SignInFails, StartSignOut, SignOutDone, SignOutFails,
                        DesktopRestart, SignedOut
    <3> QED BY <3>1, <3>2
  <2>2. desk'.phase = "start" => desk'.n # 0
    <3>1. CASE StartSignIn
      BY <1>0, <3>1 DEF StartSignIn, Desk
    <3>2. CASE ~StartSignIn
      BY <1>0, <3>2 DEF Desk, StartAttempt, SignInFails, StartSignOut, SignOutDone, SignOutFails, Callback,
                        DesktopRestart, SignedOut
    <3> QED BY <3>1, <3>2
  <2> QED BY <1>2, <2>1, <2>2, NoSockTyped DEF AccessInv, AccessBounded
<1>5. ASSUME ~overlap', ~lost' PROVE Keys'
  <2>1. ~overlap /\ ~lost /\ Keys
    <3>1. lost => lost'
      BY DEF StartSignIn, StartAttempt, SignInFails, StartSignOut, SignOutDone, SignOutFails, Callback, DesktopRestart
    <3> QED BY <1>2, <1>5, <3>1 DEF AccessInv, KeyInv
  <2>2. CASE SignOutDone
    BY <2>2 DEF SignOutDone, SignedOut, Keys
  <2>3. CASE ~SignOutDone
    <3>1. desk'.token = desk.token
      BY <1>0, <2>3 DEF Desk, StartSignIn, StartAttempt, SignInFails, StartSignOut, SignOutFails, Callback, DesktopRestart
    <3>2. (desk'.auth \in {"signed_out", "signing_in"}) <=> (desk.token = 0)
      BY <1>0, <2>1, <2>3 DEF Desk, Keys, StartSignIn, StartAttempt, SignInFails, StartSignOut, SignOutFails, Callback, DesktopRestart
    <3>3. /\ desk'.phase \in {"start", "browser", "exchange", "claiming"} => desk'.auth = "signing_in"
          /\ desk'.phase \in {"logout", "logout_ok", "logout_refused"} => desk'.auth = "signing_out"
      BY <1>0, <2>1, <2>3 DEF Desk, Keys, StartSignIn, StartAttempt, SignInFails, StartSignOut, SignOutFails, Callback, DesktopRestart
    <3> QED BY <1>2, <2>1, <3>1, <3>2, <3>3 DEF Keys
  <2> QED BY <2>2, <2>3
<1> QED BY <1>1, <1>3, <1>4, <1>5 DEF AccessInv, KeyInv

\* Handoffs and codes given, credentials that run out, and connections up to
\* their hello and after it.
LEMMA GrantKeepsAccess ==
  ASSUME AccessInv,
         \/ RequestCode \/ TokenExpires \/ HandoffExpires \/ Connect \/ Disconnect \/ HelloCheck \/ HelloUpsert
         \/ \E u \in Users : IssueHandoff(u)
  PROVE  AccessInv'
<1> USE AccessBoundsAssumption
<1>0. row \in DeviceRow /\ sock \in Sock /\ handoffs \in Seq(Handoff) /\ attempts \subseteq 1..MaxSignIns /\ overlap \in BOOLEAN
  BY DEF AccessInv, AccessTyped, StoreTyped, SockTyped, GrantsTyped, MarksTyped
<1>1. UNCHANGED <<mem, work, desk, mail, issued, lost, stops>>
  BY DEF RequestCode, TokenExpires, HandoffExpires, Connect, Disconnect, HelloCheck, HelloUpsert, IssueHandoff
<1>2. overlap' \in BOOLEAN /\ (overlap => overlap')
  <2>1. CASE HelloCheck
    BY <1>0, <2>1 DEF HelloCheck
  <2>2. CASE ~HelloCheck
    <3>1. overlap' = overlap
      BY <2>2 DEF RequestCode, TokenExpires, HandoffExpires, Connect, Disconnect, HelloUpsert, IssueHandoff
    <3> QED BY <1>0, <3>1
  <2> QED BY <2>1, <2>2
<1>3. row' \in DeviceRow /\ row'.token = row.token /\ (~overlap' => row'.owner = row.owner)
  <2>1. CASE RequestCode \/ TokenExpires
    BY <1>0, <2>1 DEF RequestCode, TokenExpires, DeviceRow
  <2>2. CASE HelloUpsert
    <3>1. overlap' = overlap /\ sock.phase = "registered" /\ sock.user \in Users \cup {NoUser}
          /\ row' = IF sock.user = NoUser THEN row ELSE [row EXCEPT !.owner = sock.user]
      BY <1>0, <2>2 DEF HelloUpsert, Sock
    <3>2. row' \in DeviceRow /\ row'.token = row.token /\ row'.owner \in {row.owner, sock.user}
          /\ (sock.user = NoUser => row' = row)
      BY <1>0, <3>1 DEF DeviceRow
    <3>3. ~overlap => sock.user \in {NoUser, row.owner}
      BY <3>1, SameSock DEF Helloing
    <3> QED BY <3>1, <3>2, <3>3
  <2>3. CASE ~(RequestCode \/ TokenExpires \/ HelloUpsert)
    <3>1. row' = row
      BY <2>3 DEF HandoffExpires, Connect, Disconnect, HelloCheck, IssueHandoff
    <3> QED BY <1>0, <3>1
  <2> QED BY <2>1, <2>2, <2>3
<1>4. sock' \in Sock
  <2>1. CASE Connect
    <3>1. desk.token \in Tokens
      BY DEF AccessInv, AccessTyped, DeskTyped, Desk
    <3> QED BY <2>1, <3>1, NoSockTyped DEF Connect, Sock
  <2>2. CASE HelloCheck
    BY <1>0, <2>2, NoSockTyped DEF HelloCheck, Sock, DeviceRow
  <2>3. CASE HelloUpsert
    BY <1>0, <2>3 DEF HelloUpsert, Sock
  <2>4. CASE ~(Connect \/ HelloCheck \/ HelloUpsert)
    <3>1. sock' \in {sock, NoSock}
      BY <2>4 DEF RequestCode, TokenExpires, HandoffExpires, Disconnect, IssueHandoff
    <3> QED BY <1>0, <3>1, NoSockTyped
  <2> QED BY <2>1, <2>2, <2>3, <2>4
<1>5. /\ attempts' \subseteq 1..MaxSignIns /\ handoffs' \in Seq(Handoff) /\ DOMAIN handoffs \subseteq DOMAIN handoffs'
      /\ Len(handoffs') <= MaxHandoffs
  <2>0. DOMAIN handoffs = 1..Len(handoffs) /\ Len(handoffs) \in Nat /\ Len(handoffs) <= MaxHandoffs
    BY <1>0, LenProperties DEF AccessInv, AccessBounded
  <2>1. ASSUME NEW u \in Users, IssueHandoff(u)
        PROVE  /\ attempts' \subseteq 1..MaxSignIns /\ handoffs' \in Seq(Handoff) /\ DOMAIN handoffs \subseteq DOMAIN handoffs'
               /\ Len(handoffs') <= MaxHandoffs
    <3>1. PICK n \in attempts : handoffs' = Append(handoffs, [signIn |-> n, user |-> u, used |-> FALSE, kept |-> TRUE])
      BY <2>1 DEF IssueHandoff
    <3> DEFINE g == [signIn |-> n, user |-> u, used |-> FALSE, kept |-> TRUE]
    <3>2. g \in Handoff
      BY <1>0 DEF Handoff
    <3>3. handoffs' \in Seq(Handoff) /\ Len(handoffs') = Len(handoffs) + 1
      BY <1>0, <3>1, <3>2, AppendProperties
    <3>4. DOMAIN handoffs' = 1..(Len(handoffs) + 1)
      BY <3>3, LenProperties
    <3>5. attempts' = attempts /\ Len(handoffs) < MaxHandoffs
      BY <2>1 DEF IssueHandoff
    <3> QED BY <1>0, <2>0, <3>3, <3>4, <3>5
  <2>2. CASE HandoffExpires
    <3>1. CASE UNCHANGED handoffs
      BY <1>0, <2>0, <2>2, <3>1 DEF HandoffExpires
    <3>2. ASSUME NEW h \in DOMAIN handoffs, handoffs' = [handoffs EXCEPT ![h].kept = FALSE], attempts' = attempts
          PROVE  /\ attempts' \subseteq 1..MaxSignIns /\ handoffs' \in Seq(Handoff)
                 /\ DOMAIN handoffs \subseteq DOMAIN handoffs' /\ Len(handoffs') <= MaxHandoffs
      <4>1. handoffs \in [DOMAIN handoffs -> Handoff]
        BY <1>0, <2>0
      <4>2. [handoffs[h] EXCEPT !.kept = FALSE] \in Handoff
        BY <4>1 DEF Handoff
      <4>3. handoffs' \in [DOMAIN handoffs -> Handoff]
        BY <3>2, <4>1, <4>2
      <4>4. handoffs' \in Seq(Handoff) /\ Len(handoffs') = Len(handoffs) /\ DOMAIN handoffs' = DOMAIN handoffs
        <5>1. PICK f \in [DOMAIN handoffs -> Handoff] : handoffs' = f
          BY <4>3
        <5> QED BY <1>0, <5>1, HandoffsMarked
      <4> QED BY <1>0, <2>0, <3>2, <4>4
    <3> QED BY <2>2, <3>1, <3>2 DEF HandoffExpires
  <2>3. CASE ~HandoffExpires /\ ~\E u \in Users : IssueHandoff(u)
    <3>1. attempts' = attempts /\ handoffs' = handoffs
      BY <2>3 DEF RequestCode, TokenExpires, Connect, Disconnect, HelloCheck, HelloUpsert
    <3> QED BY <1>0, <2>0, <3>1
  <2> QED BY <2>1, <2>2, <2>3
<1>6. AccessTyped'
  <2>1. Works' = Works
    BY DEF Works, Tokens
  <2> QED BY <1>1, <1>2, <1>3, <1>4, <1>5, <2>1
          DEF AccessInv, AccessTyped, StoreTyped, GrantsTyped, DeskTyped, SockTyped, MarksTyped
<1>7. AccessBounded'
  <2>1. sock'.phase = "check" => sock'.user = NoUser
    <3>1. CASE Connect
      BY <3>1, NoSockTyped DEF Connect, Sock
    <3>2. CASE HelloCheck \/ HelloUpsert
      BY <1>0, <3>2, NoSockTyped DEF HelloCheck, HelloUpsert, Sock
    <3>3. CASE ~(Connect \/ HelloCheck \/ HelloUpsert)
      <4>1. sock' \in {sock, NoSock}
        BY <3>3 DEF RequestCode, TokenExpires, HandoffExpires, Disconnect, IssueHandoff
      <4> QED BY <4>1, NoSockTyped DEF AccessInv, AccessBounded
    <3> QED BY <3>1, <3>2, <3>3
  <2> QED BY <1>1, <1>5, <2>1 DEF AccessInv, AccessBounded
<1>8. ASSUME ~overlap', Helloing' PROVE sock'.user \in {NoUser, row.owner} /\ \A w \in work : ~Holds(w)
  <2>1. CASE HelloCheck
    <3>1. ~Claiming /\ sock' # NoSock
      BY <1>8, <2>1, NoSockTyped DEF HelloCheck, Helloing
    <3>2. sock'.user \in {sock.user, row.owner}
      BY <1>0, <2>1, <3>1 DEF HelloCheck, Sock
    <3>3. sock.user = NoUser
      BY <2>1 DEF HelloCheck, AccessInv, AccessBounded
    <3> QED BY <3>1, <3>2, <3>3 DEF Claiming, Holds
  <2>2. CASE ~HelloCheck
    <3>1. sock' = sock
      BY <1>0, <1>8, <2>2, NoSockTyped
         DEF Helloing, RequestCode, TokenExpires, HandoffExpires, Connect, Disconnect, HelloUpsert, IssueHandoff, NoSock, Sock
    <3> QED BY <1>2, <1>8, <3>1, SameSock DEF Helloing
  <2> QED BY <2>1, <2>2
<1>9. ClaimsIssued' /\ OwnerInv'
  BY <1>1, <1>2, <1>3, <1>8, QuietAccess
<1>10. KeyInv'
  BY <1>1, <1>2, <1>3, QuietKeys
<1> QED BY <1>6, <1>7, <1>9, <1>10 DEF AccessInv

\* A claim that begins: a token is issued.
LEMMA ClaimBegins ==
  ASSUME AccessInv, NEW u \in Users, NEW via \in {"signin", "pair"}, Len(issued) < MaxTokens, issued' = Append(issued, u),
         work' = work \cup {[op |-> "claim", at |-> "write", user |-> u, token |-> Len(issued) + 1, via |-> via]},
         overlap' = (overlap \/ OnTheWay), UNCHANGED <<row, mem, sock, mail>>
  PROVE  /\ issued' \in Seq(Users) /\ Len(issued') <= MaxTokens /\ work' \subseteq Works /\ overlap' \in BOOLEAN
         /\ overlap => overlap'
         /\ ClaimsIssued' /\ OwnerInv' /\ \A w \in work' : Holds(w) <=> (w \in work /\ Holds(w))
<1> USE AccessBoundsAssumption
<1>0. issued \in Seq(Users) /\ work \subseteq Works /\ overlap \in BOOLEAN
  BY DEF AccessInv, AccessTyped, GrantsTyped, MarksTyped
<1>1. /\ issued' \in Seq(Users) /\ Len(issued') = Len(issued) + 1 /\ Len(issued) \in Nat
      /\ issued'[Len(issued) + 1] = u /\ \A n \in 1..Len(issued) : issued'[n] = issued[n]
  BY <1>0, AppendProperties, LenProperties
<1>n. PICK new : new = [op |-> "claim", at |-> "write", user |-> u, token |-> Len(issued) + 1, via |-> via]
  OBVIOUS
<1>2. new \in Works /\ new.op = "claim" /\ ~Holds(new) /\ new.token = Len(issued) + 1 /\ new.user = u /\ new.via = via
  BY <1>1, <1>n DEF Works, Tokens, Holds
<1>3. work' = work \cup {new}
  BY <1>n
<1>4. overlap' \in BOOLEAN /\ (overlap => overlap') /\ (~overlap' => ~OnTheWay)
  BY <1>0
<1>5. ClaimsIssued'
  <2>1. row.token \in Nat
    BY DEF AccessInv, AccessTyped, StoreTyped, DeviceRow, Tokens
  <2>2. \A w \in work' : w.op = "claim" =>
          w.token \in 1..Len(issued') /\ issued'[w.token] = w.user /\ w.via \in {"signin", "pair"}
    BY <1>1, <1>2, <1>3 DEF AccessInv, ClaimsIssued
  <2> QED BY <1>1, <2>1, <2>2 DEF AccessInv, ClaimsIssued
<1>6. ASSUME ~overlap' PROVE Owners'
  <2>1. ~overlap /\ mail = <<>> /\ (\A w \in work : w.op # "claim") /\ Owners
    BY <1>4, <1>6 DEF OnTheWay, Claiming, AccessInv, OwnerInv
  <2>2. row.token # 0 => row.owner = issued'[row.token]
    <3>1. row.token \in Nat /\ row.token <= Len(issued)
      BY DEF AccessInv, AccessTyped, StoreTyped, DeviceRow, Tokens, ClaimsIssued
    <3> QED BY <1>1, <2>1, <3>1 DEF Owners
  <2> QED BY <1>2, <1>3, <2>1, <2>2 DEF Owners, Holds, Helloing
<1>7. \A w \in work' : Holds(w) <=> (w \in work /\ Holds(w))
  BY <1>2, <1>3 DEF Holds
<1>8. work' \subseteq Works
  BY <1>0, <1>2, <1>3
<1>9. Len(issued') <= MaxTokens
  BY <1>1
<1> QED BY <1>1, <1>4, <1>5, <1>6, <1>7, <1>8, <1>9 DEF OwnerInv

\* The two ways to claim a device.
LEMMA BeginKeepsAccess ==
  ASSUME AccessInv, Exchange \/ \E u \in Users : Pair(u)
  PROVE  AccessInv'
<1> USE AccessBoundsAssumption
<1>0. Works' = Works
  BY DEF Works, Tokens
<1>1. ASSUME NEW u \in Users, Pair(u) PROVE AccessInv'
  <2>1. UNCHANGED <<row, mem, attempts, handoffs, desk, sock, mail, lost, stops>>
    BY <1>1 DEF Pair
  <2>2. /\ issued' \in Seq(Users) /\ Len(issued') <= MaxTokens /\ work' \subseteq Works /\ overlap' \in BOOLEAN
        /\ overlap => overlap'
        /\ ClaimsIssued' /\ OwnerInv'
    <3>1. "pair" \in {"signin", "pair"}
      OBVIOUS
    <3> QED BY <1>1, <3>1, ClaimBegins DEF Pair
  <2>3. \A w \in work : w \in work'
    BY <1>1 DEF Pair
  <2>4. KeyInv'
    BY <2>1, <2>2, <2>3, QuietKeys
  <2> QED BY <1>0, <2>1, <2>2, <2>4
          DEF AccessInv, AccessTyped, StoreTyped, GrantsTyped, DeskTyped, SockTyped, MarksTyped, AccessBounded
<1>2. CASE Exchange
  <2>0. handoffs \in Seq(Handoff) /\ DOMAIN handoffs = 1..Len(handoffs) /\ Len(handoffs) \in Nat /\ desk \in Desk
    BY LenProperties DEF AccessInv, AccessTyped, GrantsTyped, DeskTyped
  <2>h. PICK h : h = desk.handoff
    OBVIOUS
  <2>1. /\ UNCHANGED <<row, mem, attempts, sock, mail, lost, stops>> /\ desk' = [desk EXCEPT !.phase = "claiming"]
        /\ desk.phase = "exchange" /\ handoffs' = [handoffs EXCEPT ![h].used = TRUE] /\ h \in DOMAIN handoffs
    BY <1>2, <2>h DEF Exchange, AccessInv, AccessBounded
  <2>2. handoffs' \in Seq(Handoff) /\ Len(handoffs') = Len(handoffs) /\ DOMAIN handoffs' = DOMAIN handoffs
    <3>1. handoffs \in [DOMAIN handoffs -> Handoff]
      BY <2>0
    <3>2. [handoffs[h] EXCEPT !.used = TRUE] \in Handoff
      BY <2>1, <3>1 DEF Handoff
    <3>3. PICK f \in [DOMAIN handoffs -> Handoff] : handoffs' = f
      BY <2>1, <3>1, <3>2
    <3> QED BY <2>0, <3>3, HandoffsMarked
  <2>3. PICK u \in Users : u = handoffs[h].user
    <3>1. handoffs[h] \in Handoff
      BY <2>0, <2>1
    <3> QED BY <3>1 DEF Handoff
  <2>4. /\ issued' \in Seq(Users) /\ Len(issued') <= MaxTokens /\ work' \subseteq Works /\ overlap' \in BOOLEAN
        /\ overlap => overlap'
        /\ ClaimsIssued' /\ OwnerInv' /\ \A w \in work' : Holds(w) <=> (w \in work /\ Holds(w))
    <3>1. "signin" \in {"signin", "pair"}
      OBVIOUS
    <3>2. /\ Len(issued) < MaxTokens /\ issued' = Append(issued, u) /\ overlap' = (overlap \/ OnTheWay)
          /\ work' = work \cup {[op |-> "claim", at |-> "write", user |-> u, token |-> Len(issued) + 1, via |-> "signin"]}
      BY <1>2, <2>h, <2>3 DEF Exchange
    <3> QED BY <2>1, <3>1, <3>2, ClaimBegins
  <2>5. desk' \in Desk /\ desk'.phase = "claiming" /\ desk'.token = desk.token /\ desk'.auth = desk.auth
    BY <2>0, <2>1 DEF Desk, DeskPhases
  <2>6. KeyInv'
    <3> SUFFICES ASSUME ~overlap', ~lost' PROVE Keys'
      BY DEF KeyInv
    <3>1. Keys
      BY <2>1, <2>4 DEF AccessInv, KeyInv
    <3>2. (\A w \in work' : ~Holds(w)) => \A w \in work : ~Holds(w)
      <4>1. work \subseteq work'
        BY <1>2 DEF Exchange
      <4> QED BY <4>1
    <3> QED BY <2>1, <2>5, <3>1, <3>2 DEF Keys
  <2> QED BY <1>0, <2>0, <2>1, <2>2, <2>4, <2>5, <2>6
          DEF AccessInv, AccessTyped, StoreTyped, GrantsTyped, DeskTyped, SockTyped, MarksTyped, AccessBounded
<1> QED BY <1>1, <1>2

\* The steps of a claim, while it is alone.
LEMMA ClaimKeepsAccess ==
  ASSUME AccessInv, NEW w \in work, ClaimWrite(w) \/ ClaimMemory(w) \/ SignedIn(w)
  PROVE  AccessInv'
<1> USE AccessBoundsAssumption
<1>0. /\ row \in DeviceRow /\ mem \in [paired : BOOLEAN, owner : Users \cup {NoUser}] /\ work \subseteq Works /\ w \in Works
      /\ desk \in Desk /\ sock \in Sock /\ overlap \in BOOLEAN /\ lost \in BOOLEAN /\ Works' = Works
      /\ mail \in Seq(1..MaxTokens)
  BY DEF AccessInv, AccessTyped, StoreTyped, DeskTyped, SockTyped, MarksTyped, Works, Tokens, ClaimsIssued
<1>1. /\ w.op = "claim" /\ w.token \in 1..Len(issued) /\ issued[w.token] = w.user /\ w.via \in {"signin", "pair"}
      /\ Len(issued) \in Nat /\ Len(issued) <= MaxTokens
  BY LenProperties DEF ClaimWrite, ClaimMemory, SignedIn, AccessInv, AccessTyped, GrantsTyped, ClaimsIssued, AccessBounded
<1>2. UNCHANGED <<attempts, handoffs, issued, stops>>
  BY DEF ClaimWrite, ClaimMemory, SignedIn
<1>3. ASSUME ~overlap PROVE Owners /\ Claiming /\ mail = <<>>
  BY <1>1, <1>3 DEF AccessInv, OwnerInv, Owners, Claiming
<1>4. CASE ClaimWrite(w)
  <2>1. PICK v : v = [w EXCEPT !.at = "memory"]
    OBVIOUS
  <2>2. v \in Works /\ v.op = "claim" /\ v.at = "memory" /\ v.token = w.token /\ v.user = w.user /\ v.via = w.via /\ Holds(v)
    BY <1>0, <1>1, <2>1 DEF Works, Holds
  <2>3. /\ row' = [owner |-> w.user, token |-> w.token, live |-> TRUE, code |-> FALSE]
        /\ work' = (work \ {w}) \cup {v} /\ UNCHANGED <<mem, desk, sock, mail, lost>>
    BY <1>4, <2>1 DEF ClaimWrite
  <2>4. overlap' \in BOOLEAN /\ (overlap => overlap')
    BY <1>0, <1>4 DEF ClaimWrite
  <2>5. ~overlap' => ~overlap /\ ~Helloing /\ work' = {v}
    <3>1. ~overlap' => ~overlap /\ ~Helloing /\ ~\E x \in work \ {w} : TRUE
      BY <1>4 DEF ClaimWrite
    <3> QED BY <2>3, <3>1
  <2>6. row' \in DeviceRow /\ row'.token = w.token /\ row'.owner = w.user
    BY <1>0, <1>1, <2>3 DEF DeviceRow, Works, Tokens
  <2>7. ClaimsIssued'
    BY <1>1, <1>2, <2>2, <2>3, <2>6 DEF AccessInv, ClaimsIssued
  <2>8. ASSUME ~overlap' PROVE Owners'
    BY <1>1, <1>2, <1>3, <2>2, <2>3, <2>5, <2>6, <2>8 DEF Owners, Claiming, Helloing
  <2>9. ASSUME ~overlap', ~lost' PROVE Keys'
    BY <2>2, <2>3, <2>5, <2>9 DEF AccessInv, KeyInv, Keys
  <2> QED BY <1>0, <1>2, <2>2, <2>3, <2>4, <2>6, <2>7, <2>8, <2>9
          DEF AccessInv, AccessTyped, StoreTyped, GrantsTyped, DeskTyped, SockTyped, MarksTyped, AccessBounded, OwnerInv, KeyInv
<1>5. CASE ClaimMemory(w)
  <2>1. PICK v : v = [w EXCEPT !.at = "reply"]
    OBVIOUS
  <2>2. v \in Works /\ v.op = "claim" /\ v.at = "reply" /\ v.token = w.token /\ v.user = w.user /\ v.via = w.via /\ Holds(v)
    BY <1>0, <1>1, <2>1 DEF Works, Holds
  <2>3. /\ mem' = [paired |-> TRUE, owner |-> w.user] /\ UNCHANGED <<row, desk, sock, lost>> /\ w.at = "memory"
        /\ \/ w.via = "signin" /\ mail' = mail /\ work' = (work \ {w}) \cup {v}
           \/ w.via = "pair" /\ mail' = Append(mail, w.token) /\ work' = work \ {w}
    BY <1>1, <1>5, <2>1 DEF ClaimMemory
  <2>4. overlap' \in BOOLEAN /\ (overlap => overlap')
    BY <1>0, <1>5 DEF ClaimMemory
  <2>5. ~overlap => Owners /\ work = {w} /\ row.token = w.token /\ row.owner = w.user /\ mail = <<>> /\ ~Helloing
    BY <1>1, <1>3, <2>3 DEF Owners, Holds
  <2>6. mail' \in Seq(1..MaxTokens)
    <3>1. w.token \in 1..MaxTokens
      BY <1>1
    <3>2. Append(mail, w.token) \in Seq(1..MaxTokens)
      BY <1>0, <3>1, AppendProperties
    <3> QED BY <1>0, <2>3, <3>2
  <2>7. mem' \in [paired : BOOLEAN, owner : Users \cup {NoUser}] /\ mem'.owner = w.user
    BY <1>0, <2>3 DEF Works
  <2>8. ClaimsIssued'
    BY <1>2, <2>2, <2>3, <2>6, <1>1 DEF AccessInv, ClaimsIssued
  <2>9. w.via = "pair" /\ ~overlap => Len(mail') = 1 /\ mail' # <<>> /\ Head(mail') = w.token
    <3> SUFFICES ASSUME w.via = "pair", ~overlap PROVE Len(mail') = 1 /\ mail' # <<>> /\ Head(mail') = w.token
      OBVIOUS
    <3>1. mail = <<>> /\ mail' = Append(mail, w.token) /\ w.token \in 1..MaxTokens
      BY <1>1, <2>3, <2>5
    <3>2. Len(mail') = 1 /\ mail'[1] = w.token
      BY <1>0, <3>1, AppendProperties, EmptySeq
    <3>3. mail' # <<>>
      <4>1. \A q \in Seq(1..MaxTokens) : q = <<>> => Len(q) = 0
        BY EmptySeq
      <4>2. mail' = <<>> => Len(mail') = 0
        BY <2>6, <4>1, Zenon
      <4> QED BY <3>2, <4>2
    <3>4. \A q \in Seq(1..MaxTokens) : Head(q) = q[1]
      OBVIOUS
    <3> QED BY <2>6, <3>2, <3>3, <3>4
  <2>10. ASSUME ~overlap' PROVE Owners'
    <3>1. ~overlap
      BY <2>4, <2>10
    <3>2. CASE w.via = "signin"
      <4>1. work' = {v} /\ mail' = <<>> /\ Len(mail') <= 1
        BY <2>3, <2>5, <3>1, <3>2 DEF Owners
      <4> QED BY <1>2, <2>2, <2>3, <2>5, <2>7, <3>1, <4>1 DEF Owners, Claiming, Helloing
    <3>3. CASE w.via = "pair"
      <4>1. work' = {}
        BY <2>3, <2>5, <3>1, <3>3
      <4>2. Len(mail') <= 1 /\ (mail' # <<>> => Head(mail') = row'.token)
        BY <2>3, <2>5, <2>9, <3>1, <3>3
      <4>3. (row'.token # 0 => row'.owner = issued'[row'.token]) /\ mem'.owner = row'.owner
        BY <1>2, <2>3, <2>5, <2>7, <3>1 DEF Owners
      <4>4. ~Helloing' /\ ~Claiming'
        BY <2>3, <2>5, <3>1, <4>1 DEF Helloing, Claiming
      <4> QED BY <4>1, <4>2, <4>3, <4>4 DEF Owners
    <3> QED BY <1>1, <3>2, <3>3
  <2>11. ASSUME ~overlap', ~lost' PROVE Keys'
    <3>1. ~overlap /\ ~lost /\ Keys
      BY <2>3, <2>4, <2>11 DEF AccessInv, KeyInv
    <3>2. mail' # <<>> \/ v \in work'
      BY <2>3, <2>9, <3>1
    <3> QED BY <2>2, <2>3, <3>1, <3>2 DEF Keys
  <2>12. work' \subseteq Works
    BY <1>0, <2>2, <2>3
  <2> QED BY <1>0, <1>2, <2>3, <2>4, <2>7, <2>8, <2>10, <2>11, <2>12
          DEF AccessInv, AccessTyped, StoreTyped, GrantsTyped, DeskTyped, SockTyped, MarksTyped, AccessBounded, OwnerInv, KeyInv
<1>6. CASE SignedIn(w)
  <2>1. /\ work' = work \ {w} /\ UNCHANGED <<row, mem, mail, overlap>> /\ w.at = "reply"
        /\ \/ /\ desk.phase = "claiming" /\ desk' = [desk EXCEPT !.auth = "signed_in", !.phase = "none", !.token = w.token]
              /\ sock' = [NoSock EXCEPT !.phase = "check", !.token = w.token] /\ lost' = lost
           \/ UNCHANGED <<desk, sock>> /\ lost' = TRUE
    BY <1>6 DEF SignedIn
  <2>2. ~overlap => Owners /\ work = {w} /\ row.token = w.token /\ row.owner = w.user /\ mail = <<>> /\ ~Helloing
    BY <1>1, <1>3, <2>1 DEF Owners, Holds
  <2>3. desk' \in Desk /\ sock' \in Sock /\ w.token \in Tokens
    <3>1. w.token \in Tokens
      BY <1>1 DEF Tokens
    <3>2. [desk EXCEPT !.auth = "signed_in", !.phase = "none", !.token = w.token] \in Desk
      BY <1>0, <3>1 DEF Desk, DeskPhases, AuthStates
    <3>3. [NoSock EXCEPT !.phase = "check", !.token = w.token] \in Sock
      BY <3>1, NoSockTyped DEF Sock
    <3> QED BY <1>0, <2>1, <3>1, <3>2, <3>3
  <2>4. \/ /\ desk'.auth = "signed_in" /\ desk'.phase = "none" /\ desk'.token = w.token
           /\ sock'.phase = "check" /\ sock'.user = NoUser /\ lost' = lost
        \/ UNCHANGED <<desk, sock>> /\ lost' = TRUE
    BY <1>0, <2>1, NoSockTyped DEF Desk, Sock
  <2>5. ClaimsIssued'
    BY <1>2, <2>1 DEF AccessInv, ClaimsIssued
  <2>6. AccessBounded'
    BY <1>2, <2>4 DEF AccessInv, AccessBounded
  <2>7. ASSUME ~overlap' PROVE Owners'
    <3>1. ~overlap /\ work' = {} /\ ~Helloing'
      BY <2>1, <2>2, <2>4, <2>7 DEF Helloing
    <3> QED BY <1>2, <2>1, <2>2, <3>1 DEF Owners, Claiming
  <2>8. ASSUME ~overlap', ~lost' PROVE Keys'
    BY <1>1, <2>1, <2>2, <2>4, <2>8 DEF Keys
  <2>9. lost' \in BOOLEAN /\ work' \subseteq Works
    BY <1>0, <2>1
  <2> QED BY <1>0, <1>2, <2>1, <2>3, <2>5, <2>6, <2>7, <2>8, <2>9
          DEF AccessInv, AccessTyped, StoreTyped, GrantsTyped, DeskTyped, SockTyped, MarksTyped, OwnerInv, KeyInv
<1> QED BY <1>4, <1>5, <1>6

\* The token that pairing sends reaches the keychain.
LEMMA TokenKeepsAccess ==
  ASSUME AccessInv, ReceiveToken
  PROVE  AccessInv'
<1> USE AccessBoundsAssumption
<1>0. desk \in Desk /\ mail \in Seq(1..MaxTokens) /\ mail # <<>> /\ lost \in BOOLEAN /\ Works' = Works
  BY DEF ReceiveToken, AccessInv, AccessTyped, DeskTyped, ClaimsIssued, MarksTyped, Works, Tokens
<1>1. /\ mail' = Tail(mail) /\ desk' = [desk EXCEPT !.auth = "signed_in", !.token = Head(mail)]
      /\ UNCHANGED <<row, mem, attempts, handoffs, work, sock, issued, overlap, stops>>
  BY DEF ReceiveToken
<1>2. Head(mail) \in 1..MaxTokens /\ mail' \in Seq(1..MaxTokens) /\ Len(mail') = Len(mail) - 1 /\ Len(mail) \in Nat
  BY <1>0, <1>1, HeadTailProperties, LenProperties
<1>3. desk' \in Desk /\ desk'.auth = "signed_in" /\ desk'.token = Head(mail) /\ desk'.phase = desk.phase
      /\ desk'.n = desk.n /\ desk'.handoff = desk.handoff
  <2>1. Head(mail) \in Tokens
    BY <1>2 DEF Tokens
  <2> QED BY <1>0, <1>1, <2>1 DEF Desk, AuthStates
<1>4. lost' \in BOOLEAN /\ (lost => lost') /\ (~lost' => desk.auth \notin {"signing_in", "signing_out"})
  BY <1>0 DEF ReceiveToken
<1>5. ~overlap => Owners /\ Head(mail) = row.token /\ mail' = <<>> /\ Len(mail') = 0
  <2> SUFFICES ASSUME ~overlap PROVE Owners /\ Head(mail) = row.token /\ mail' = <<>> /\ Len(mail') = 0
    OBVIOUS
  <2>1. Owners /\ Head(mail) = row.token /\ Len(mail) <= 1
    BY <1>0 DEF AccessInv, OwnerInv, Owners
  <2>2. Len(mail') = 0
    <3>1. Len(mail') \in Nat
      BY <1>2, LenProperties
    <3> QED BY <1>2, <2>1, <3>1
  <2>3. \A q \in Seq(1..MaxTokens) : Len(q) = 0 => q = <<>>
    BY EmptySeq
  <2>4. mail' = <<>>
    BY <1>2, <2>2, <2>3, Zenon
  <2> QED BY <2>1, <2>2, <2>4
<1>6. ASSUME ~overlap' PROVE Owners'
  <2>0. mail' = <<>> /\ Len(mail') = 0 /\ Owners
    BY <1>1, <1>5, <1>6, Zenon
  <2>1. mail' = <<>> /\ Len(mail') <= 1 /\ Owners
    BY <2>0
  <2>2. UNCHANGED <<row, mem, work, sock, issued>>
    BY <1>1
  <2>3. Helloing' = Helloing
    BY <2>2 DEF Helloing
  <2> QED BY <2>1, <2>2, <2>3 DEF Owners
<1>7. ASSUME ~overlap', ~lost' PROVE Keys'
  <2>1. ~overlap /\ ~lost /\ Keys /\ desk.auth \notin {"signing_in", "signing_out"} /\ Head(mail) = row.token
    BY <1>1, <1>4, <1>5, <1>7 DEF AccessInv, KeyInv
  <2> QED BY <1>1, <1>2, <1>3, <2>1 DEF Keys
<1>8. ClaimsIssued'
  BY <1>1, <1>2 DEF AccessInv, ClaimsIssued
<1>9. AccessBounded'
  BY <1>1, <1>3 DEF AccessInv, AccessBounded
<1> QED BY <1>0, <1>1, <1>3, <1>4, <1>6, <1>7, <1>8, <1>9
        DEF AccessInv, AccessTyped, StoreTyped, GrantsTyped, DeskTyped, SockTyped, MarksTyped, OwnerInv, KeyInv

\* Sign-out, revocation, the hello that writes the memory.
LEMMA RevokeKeepsAccess ==
  ASSUME AccessInv,
         \/ Logout \/ HelloRegister \/ \E u \in Users : RevokeOther(u)
         \/ \E w \in work : RevokeWrite(w) \/ RevokeMemory(w)
  PROVE  AccessInv'
<1> USE AccessBoundsAssumption
<1>0. /\ row \in DeviceRow /\ mem \in [paired : BOOLEAN, owner : Users \cup {NoUser}] /\ work \subseteq Works
      /\ desk \in Desk /\ sock \in Sock /\ overlap \in BOOLEAN /\ Works' = Works
  BY DEF AccessInv, AccessTyped, StoreTyped, DeskTyped, SockTyped, MarksTyped, Works, Tokens
<1>1. UNCHANGED <<attempts, handoffs, mail, issued, lost, stops>>
  BY DEF Logout, HelloRegister, RevokeOther, RevokeWrite, RevokeMemory
<1>2. overlap' \in BOOLEAN /\ (overlap => overlap') /\ (~overlap' => ~Claiming)
  BY <1>0 DEF Logout, HelloRegister, RevokeOther, RevokeWrite, RevokeMemory
<1>3. row' \in DeviceRow /\ row'.token = row.token /\ row'.owner = row.owner
  <2>1. row' = row \/ row' = [row EXCEPT !.live = FALSE]
    <3>1. CASE Logout
      BY <3>1 DEF Logout
    <3>2. CASE \E w \in work : RevokeWrite(w)
      BY <3>2 DEF RevokeWrite
    <3>3. CASE ~Logout /\ ~\E w \in work : RevokeWrite(w)
      BY <3>3 DEF HelloRegister, RevokeOther, RevokeMemory
    <3> QED BY <3>1, <3>2, <3>3
  <2> QED BY <1>0, <2>1 DEF DeviceRow
<1>4. /\ work' \subseteq Works /\ \A v \in work : Holds(v) => v \in work'
      /\ \A v \in work' : v \in work \/ (v.op = "revoke" /\ (~overlap => v.user = row.owner))
  <2>w. \A v \in work : ~overlap /\ v.op = "revoke" => v.user = row.owner
    BY DEF AccessInv, OwnerInv, Owners
  <2>1. CASE Logout
    <3>1. PICK v : v = [op |-> "revoke", at |-> "memory", user |-> row.owner, token |-> desk.token, via |-> "logout"]
      OBVIOUS
    <3>2. v \in Works /\ v.op = "revoke" /\ v.user = row.owner
      BY <1>0, <3>1 DEF Works, DeviceRow, Desk
    <3>3. work' = work \/ work' = work \cup {v}
      BY <2>1, <3>1 DEF Logout
    <3> QED BY <1>0, <3>2, <3>3
  <2>2. ASSUME NEW u \in Users, RevokeOther(u)
        PROVE  /\ work' \subseteq Works /\ \A v \in work : Holds(v) => v \in work'
               /\ \A v \in work' : v \in work \/ (v.op = "revoke" /\ (~overlap => v.user = row.owner))
    <3>1. PICK v : v = [op |-> "revoke", at |-> "write", user |-> u, token |-> 0, via |-> "other"]
      OBVIOUS
    <3>2. v \in Works /\ v.op = "revoke" /\ v.user = u /\ row.owner = u
      BY <2>2, <3>1 DEF Works, Tokens, RevokeOther
    <3>3. work' = work \cup {v}
      BY <2>2, <3>1 DEF RevokeOther
    <3> QED BY <1>0, <3>2, <3>3
  <2>3. ASSUME NEW w \in work, RevokeWrite(w)
        PROVE  /\ work' \subseteq Works /\ \A v \in work : Holds(v) => v \in work'
               /\ \A v \in work' : v \in work \/ (v.op = "revoke" /\ (~overlap => v.user = row.owner))
    <3>1. PICK v : v = [w EXCEPT !.at = "memory"]
      OBVIOUS
    <3>2. v \in Works /\ v.op = "revoke" /\ v.user = w.user /\ w.op = "revoke" /\ ~Holds(w)
      BY <1>0, <2>3, <3>1 DEF Works, RevokeWrite, Holds
    <3>3. work' = (work \ {w}) \cup {v}
      BY <2>3, <3>1 DEF RevokeWrite
    <3> QED BY <1>0, <2>w, <3>2, <3>3
  <2>4. ASSUME NEW w \in work, RevokeMemory(w)
        PROVE  /\ work' \subseteq Works /\ \A v \in work : Holds(v) => v \in work'
               /\ \A v \in work' : v \in work \/ (v.op = "revoke" /\ (~overlap => v.user = row.owner))
    BY <1>0, <2>4 DEF RevokeMemory, Holds
  <2>5. CASE HelloRegister
    BY <1>0, <2>5 DEF HelloRegister
  <2> QED BY <2>1, <2>2, <2>3, <2>4, <2>5
<1>5. /\ mem' \in [paired : BOOLEAN, owner : Users \cup {NoUser}]
      /\ ~overlap' => mem'.owner \in {mem.owner, NoUser, row.owner}
  <2>1. ASSUME NEW w \in work, RevokeMemory(w)
        PROVE  /\ mem' \in [paired : BOOLEAN, owner : Users \cup {NoUser}]
               /\ ~overlap' => mem'.owner \in {mem.owner, NoUser, row.owner}
    <3>1. w.user \in Users \cup {NoUser} /\ mem' = [paired |-> FALSE, owner |-> w.user] /\ w.op = "revoke"
      BY <1>0, <2>1 DEF RevokeMemory, Works
    <3>2. ~overlap' => w.user = row.owner
      BY <1>2, <3>1 DEF AccessInv, OwnerInv, Owners
    <3> QED BY <3>1, <3>2
  <2>2. CASE HelloRegister
    <3>1. sock.user \in Users \cup {NoUser} /\ mem' = [mem EXCEPT !.owner = sock.user] /\ Helloing
      BY <1>0, <2>2 DEF HelloRegister, Sock, Helloing
    <3>2. ~overlap' => sock.user \in {NoUser, row.owner}
      BY <1>2, <3>1, SameSock
    <3> QED BY <1>0, <3>1, <3>2
  <2>3. CASE ~HelloRegister /\ ~\E w \in work : RevokeMemory(w)
    <3>1. mem' = mem
      BY <2>3 DEF Logout, RevokeOther, RevokeWrite
    <3> QED BY <1>0, <3>1
  <2> QED BY <2>1, <2>2, <2>3
<1>6. sock' \in Sock /\ sock'.user = sock.user /\ (Helloing' <=> Helloing) /\ (sock'.phase = "check" => sock.phase = "check")
  <2>1. sock' = sock \/ (sock.phase = "found" /\ sock' = [sock EXCEPT !.phase = "registered"])
    BY DEF Logout, HelloRegister, RevokeOther, RevokeWrite, RevokeMemory
  <2> QED BY <1>0, <2>1 DEF Sock, Helloing
<1>7. /\ desk' \in Desk /\ desk'.token = desk.token /\ desk'.auth = desk.auth /\ desk'.n = desk.n
      /\ \/ desk' = desk
         \/ desk.phase = "logout" /\ desk'.phase \in {"logout_ok", "logout_refused"}
  <2>1. desk' = desk \/ (desk.phase = "logout" /\ \E p \in {"logout_ok", "logout_refused"} : desk' = [desk EXCEPT !.phase = p])
    BY DEF Logout, HelloRegister, RevokeOther, RevokeWrite, RevokeMemory
  <2> QED BY <1>0, <2>1 DEF Desk, DeskPhases
<1>8. ClaimsIssued'
  BY <1>1, <1>3, <1>4 DEF AccessInv, ClaimsIssued
<1>9. AccessBounded'
  BY <1>1, <1>6, <1>7 DEF AccessInv, AccessBounded
<1>10. ASSUME ~overlap' PROVE Owners'
  <2>1. ~overlap /\ Owners /\ \A v \in work : v.op # "claim"
    BY <1>2, <1>10 DEF AccessInv, OwnerInv, Claiming
  <2>2. \A v \in work' : v.op # "claim"
    BY <1>4, <2>1
  <2>3. mem.owner \in {NoUser, row.owner}
    BY <2>1 DEF Owners
  <2>4. mem'.owner \in {NoUser, row'.owner}
    BY <1>3, <1>5, <1>10, <2>3
  <2>5. \A v \in work' : v.op = "revoke" => v.user = row'.owner
    BY <1>3, <1>4, <2>1 DEF Owners
  <2>6. Helloing' => sock'.user \in {NoUser, row'.owner}
    BY <1>3, <1>6, <2>1 DEF Owners
  <2>7. (row'.token # 0 => row'.owner = issued'[row'.token]) /\ Len(mail') <= 1 /\ (mail' # <<>> => Head(mail') = row'.token)
    BY <1>1, <1>3, <2>1 DEF Owners
  <2> QED BY <2>2, <2>4, <2>5, <2>6, <2>7 DEF Owners, Holds, Claiming
<1>11. ASSUME ~overlap', ~lost' PROVE Keys'
  <2>1. Keys /\ mail' = mail
    BY <1>1, <1>2, <1>11 DEF AccessInv, KeyInv
  <2>2. (\A v \in work' : ~Holds(v)) => \A v \in work : ~Holds(v)
    BY <1>4
  <2> QED BY <1>3, <1>7, <2>1, <2>2 DEF Keys
<1> QED BY <1>0, <1>1, <1>2, <1>3, <1>4, <1>5, <1>6, <1>7, <1>8, <1>9, <1>10, <1>11
        DEF AccessInv, AccessTyped, StoreTyped, GrantsTyped, DeskTyped, SockTyped, MarksTyped, OwnerInv, KeyInv

\* A new API process.
LEMMA RestartKeepsAccess ==
  ASSUME AccessInv, ApiRestart
  PROVE  AccessInv'
<1> USE AccessBoundsAssumption
<1>0. /\ row \in DeviceRow /\ handoffs \in Seq(Handoff) /\ lost \in BOOLEAN /\ stops \in 0..MaxStops /\ Works' = Works
      /\ mail \in Seq(1..MaxTokens)
  BY DEF AccessInv, AccessTyped, StoreTyped, GrantsTyped, MarksTyped, ClaimsIssued, Works, Tokens
<1>1. /\ attempts' = {} /\ work' = {} /\ sock' = NoSock /\ UNCHANGED <<row, desk, mail, issued, overlap>>
      /\ mem' = [paired |-> row.live /\ row.owner # NoUser, owner |-> row.owner]
      /\ stops < MaxStops /\ stops' = stops + 1
  BY DEF ApiRestart
<1>2. handoffs' \in Seq(Handoff) /\ Len(handoffs') = Len(handoffs) /\ DOMAIN handoffs' = DOMAIN handoffs
  <2> DEFINE f == [h \in DOMAIN handoffs |-> [handoffs[h] EXCEPT !.kept = FALSE]]
  <2>1. \A h \in DOMAIN handoffs : handoffs[h] \in Handoff
    BY <1>0
  <2>2. f \in [DOMAIN handoffs -> Handoff]
    BY <2>1 DEF Handoff
  <2>3. handoffs' = f
    BY DEF ApiRestart
  <2> HIDE DEF f
  <2> QED BY <1>0, <2>2, <2>3, HandoffsMarked
<1>3. mem' \in [paired : BOOLEAN, owner : Users \cup {NoUser}] /\ mem'.owner = row.owner
  <2>1. (row.live /\ row.owner # NoUser) \in BOOLEAN /\ row.owner \in Users \cup {NoUser}
    BY <1>0 DEF DeviceRow
  <2> QED BY <1>1, <2>1
<1>4. lost' \in BOOLEAN /\ (lost => lost') /\ (~lost' => ~Claiming)
  BY <1>0 DEF ApiRestart
<1>5. ASSUME ~overlap' PROVE Owners'
  <2>1. Owners /\ ~Helloing'
    BY <1>1, <1>5, NoSockTyped DEF AccessInv, OwnerInv, Helloing
  <2> QED BY <1>1, <1>3, <2>1 DEF Owners, Claiming
<1>6. ASSUME ~overlap', ~lost' PROVE Keys'
  <2>1. Keys /\ \A w \in work : ~Holds(w)
    BY <1>1, <1>4, <1>6 DEF AccessInv, KeyInv, Claiming, Holds
  <2> QED BY <1>1, <2>1 DEF Keys
<1>7. ClaimsIssued'
  BY <1>1 DEF AccessInv, ClaimsIssued
<1>8. AccessBounded'
  BY <1>1, <1>2, NoSockTyped DEF AccessInv, AccessBounded
<1>9. stops' \in 0..MaxStops
  BY <1>0, <1>1
<1> QED BY <1>0, <1>1, <1>2, <1>3, <1>4, <1>5, <1>6, <1>7, <1>8, <1>9, NoSockTyped
        DEF AccessInv, AccessTyped, StoreTyped, GrantsTyped, DeskTyped, SockTyped, MarksTyped, OwnerInv, KeyInv

\* Every step keeps the invariant.
LEMMA NextAccessInv == AccessInv /\ [AccessNext]_accessVars => AccessInv'
<1> SUFFICES ASSUME AccessInv, [AccessNext]_accessVars PROVE AccessInv'
  OBVIOUS
<1>1. CASE UNCHANGED accessVars
  <2>1. UNCHANGED <<row, mem, attempts, handoffs, work, desk, sock, mail, issued, overlap, lost, stops>>
    BY <1>1 DEF accessVars
  <2>2. Works' = Works
    BY DEF Works, Tokens
  <2>3. AccessTyped' /\ AccessBounded'
    BY <2>1, <2>2 DEF AccessInv, AccessTyped, StoreTyped, GrantsTyped, DeskTyped, SockTyped, MarksTyped, AccessBounded
  <2>4. ClaimsIssued' /\ OwnerInv' /\ KeyInv'
    BY <2>1 DEF AccessInv, ClaimsIssued, OwnerInv, Owners, KeyInv, Keys, Helloing, Claiming
  <2> QED BY <2>3, <2>4 DEF AccessInv
<1>2. CASE AccessNext
  BY <1>2, DesktopKeepsAccess, GrantKeepsAccess, BeginKeepsAccess, ClaimKeepsAccess, TokenKeepsAccess,
     RevokeKeepsAccess, RestartKeepsAccess
     DEF AccessNext, Desktop, ApiHandlers
<1> QED BY <1>1, <1>2

\* Nobody signed in, nothing issued.
LEMMA InitAccessInv == AccessInit => AccessInv
<1> SUFFICES ASSUME AccessInit PROVE AccessInv
  OBVIOUS
<1> USE AccessBoundsAssumption DEF AccessInit
<1>1. \A S : <<>> \in Seq(S) /\ Len(<<>>) = 0
  BY EmptySeq
<1>2. 0 \in Tokens /\ 0 \in 0..MaxSignIns /\ 0 \in 0..MaxHandoffs /\ 0 \in 0..MaxStops
  BY DEF Tokens
<1>3. AccessTyped
  BY <1>1, <1>2, NoSockTyped
     DEF AccessTyped, StoreTyped, DeviceRow, GrantsTyped, DeskTyped, SignedOut, Desk, AuthStates, DeskPhases,
         SockTyped, MarksTyped
<1>4. AccessBounded
  BY <1>1, NoSockTyped DEF AccessBounded, SignedOut
<1>5. ClaimsIssued
  BY <1>1 DEF ClaimsIssued
<1>6. Owners
  BY <1>1, NoSockTyped DEF Owners, Helloing, Claiming
<1>7. Keys
  BY DEF Keys, SignedOut
<1> QED BY <1>3, <1>4, <1>5, <1>6, <1>7 DEF AccessInv, OwnerInv, KeyInv

\* The row of a device, the API's memory of it and the desktop's keychain follow
\* each other as AccessInv says, for any number of users, tokens and restarts.
THEOREM AccessInvariance == AccessSpec => []AccessInv
BY InitAccessInv, NextAccessInv, PTL DEF AccessSpec

\* The invariant gives the three properties.
LEMMA AccessFacts == AccessInv => AccessTypeOK /\ OneOwner /\ KeychainIsCurrent
<1> SUFFICES ASSUME AccessInv PROVE AccessTypeOK /\ OneOwner /\ KeychainIsCurrent
  OBVIOUS
<1>1. AccessTypeOK
  <2>1. mail \in Seq(Tokens)
    <3>1. 1..MaxTokens \subseteq Tokens
      BY AccessBoundsAssumption DEF Tokens
    <3> QED BY <3>1, SeqMonotonic DEF AccessInv, ClaimsIssued
  <2> QED BY <2>1 DEF AccessInv, AccessTyped, StoreTyped, GrantsTyped, DeskTyped, SockTyped, MarksTyped, AccessTypeOK,
                      DeviceRow, Desk, Sock, AuthStates, DeskPhases, Handoff
<1>2. OneOwner
  BY DEF AccessInv, OwnerInv, Owners, OneOwner
<1>3. KeychainIsCurrent
  BY DEF AccessInv, KeyInv, Keys, KeychainIsCurrent
<1> QED BY <1>1, <1>2, <1>3

\* A device has one owner, the user its token was issued to by the exchange or
\* by pairing; hellos, sign-outs and revocations leave it so.
THEOREM DeviceHasOneOwner == AccessSpec => []OneOwner
BY AccessInvariance, AccessFacts, PTL

\* The keychain of a signed-in desktop at rest holds the token in its row.
THEOREM KeychainFollowsRow == AccessSpec => []KeychainIsCurrent
BY AccessInvariance, AccessFacts, PTL

----------------------------------------------------------------------------
\* The local model runtime.

FetchPlaces == {"download", "verify", "extract", "unpack", "adopt", "copy"}
Places == {"free", "plan", "stop", "resolve", "ensure", "spawn", "wait", "pull", "write"} \cup FetchPlaces
Models == Tiers \cup {"vision"}
Meta == [tier : {"none"} \cup Tiers, models : SUBSET Models, compat : BOOLEAN, source : {"none", "ours", "existing"}]
JobRecord == [kind : {"none", "install", "vision", "compat"}, tier : {"none"} \cup Tiers, at : Places, snap : Meta,
              started : BOOLEAN]

\* The parts of the type invariant.
JobTyped == job \in [Jobs -> JobRecord] /\ jobs \in 0..MaxJobs
DiskTyped ==
  /\ metadata \in Meta /\ binary \in {"none", "partial", "whole"} /\ archive \in {"none", "wrong", "whole"}
  /\ pulled \subseteq Models
ServiceTyped == alive \subseteq 1..MaxJobs /\ slot \in 0..MaxJobs /\ port \in alive \cup {0, External}
StageTyped ==
  /\ stage \in {"not_started", "planned", "installing", "installed", "starting", "ready", "error"}
  /\ twoAtOnce \in BOOLEAN /\ startFailed \in BOOLEAN /\ appRestarts \in {0, 1}

Fetching(c) == job[c].at \in FetchPlaces

\* Where a call of each kind can be. Vision Boost and the restart in
\* compatibility mode begin with metadata, which is never removed.
JobShapes ==
  \A c \in Jobs :
    /\ (job[c].kind = "none") <=> (job[c].at = "free")
    /\ job[c].kind = "install" => job[c].tier \in Tiers
    /\ job[c].kind = "compat" => job[c].at \notin {"plan", "pull", "write"}
    /\ job[c].kind \in {"install", "vision"} => job[c].at # "stop"
    /\ job[c].kind \in {"vision", "compat"} => metadata # NoMetadata

\* While two workers never ran at once: a worker that fetches the binary is the
\* first one, and there is a whole binary by the time metadata is written.
Disk ==
  /\ \A c, d \in Jobs : IsWorker(c) /\ IsWorker(d) => c = d
  /\ metadata # NoMetadata => binary = "whole"
  /\ \A c \in Jobs : /\ Fetching(c) => metadata = NoMetadata
                     /\ job[c].at = "write" => binary = "whole"
DiskInv == ~twoAtOnce => Disk

\* The slot holds the only child, and a call that is about to spawn has found
\* none.
Service == alive \subseteq {slot} /\ ((\E c \in Jobs : job[c].at = "spawn") => alive = {})
ServiceInv == ~twoAtOnce /\ appRestarts = 0 => Service

\* Children and the calls that may spawn one are no more than the calls made.
MaySpawn == {c \in Jobs : job[c].at \notin {"free", "wait", "pull", "write"}}
CountInv == Cardinality(alive) + Cardinality(MaySpawn) <= jobs

\* The inductive invariant.
LocalTyped == JobTyped /\ DiskTyped /\ ServiceTyped /\ StageTyped
LocalInv == LocalTyped /\ JobShapes /\ DiskInv /\ ServiceInv /\ CountInv /\ StageIsHonest

\* A call that takes a step of its own: it goes on, or it ends and says so.
GoesTo(c, r) ==
  /\ r.kind = job[c].kind /\ r.tier = job[c].tier /\ r.at \notin {"free", "plan", "stop"}
  /\ job[c].kind = "compat" => r.at \notin {"pull", "write"}
  /\ job[c].at \in {"wait", "pull", "write"} => r.at \in {"pull", "write"}
  /\ r.at = "spawn" => slot \notin alive
JobStep(c) ==
  \E r \in JobRecord :
    /\ job' = [job EXCEPT ![c] = r]
    /\ (r = NoJob /\ (stage' \notin Busy \/ startFailed')) \/ GoesTo(c, r)

\* The children are numbered up to the bound.
LEMMA ChildNumbers == IsFiniteSet(1..MaxJobs) /\ Cardinality(1..MaxJobs) = MaxJobs
<1>1. 1 \in Int /\ MaxJobs \in Int /\ MaxJobs \in Nat
  BY LocalBoundsAssumption
<1>2. IsFiniteSet(1..MaxJobs) /\ Cardinality(1..MaxJobs) = IF 1 > MaxJobs THEN 0 ELSE MaxJobs - 1 + 1
  BY <1>1, FS_Interval
<1> QED BY <1>1, <1>2

\* No call.
LEMMA NoJobTyped ==
  /\ NoMetadata \in Meta /\ NoJob \in JobRecord /\ NoJob.kind = "none" /\ NoJob.at = "free" /\ NoJob.tier = "none"
  /\ NoJob.snap = NoMetadata /\ NoJob.started = FALSE /\ NoMetadata.models = {} /\ NoMetadata.compat = FALSE
BY DEF NoMetadata, Meta, NoJob, JobRecord, Places, Models, Tiers

\* A call that goes on.
LEMMA CallGoesOn ==
  ASSUME LocalInv, NEW c \in Jobs, NEW at \in Places \ {"free", "plan", "stop"}, To(c, at),
         job[c].kind = "compat" => at \notin {"pull", "write"},
         job[c].at \in {"wait", "pull", "write"} => at \in {"pull", "write"},
         at = "spawn" => slot \notin alive
  PROVE  JobStep(c) /\ job'[c].at = at
<1>1. job[c] \in JobRecord /\ job \in [Jobs -> JobRecord]
  BY DEF LocalInv, LocalTyped, JobTyped
<1> DEFINE r == [job[c] EXCEPT !.at = at]
<1>2. r \in JobRecord /\ r.kind = job[c].kind /\ r.tier = job[c].tier /\ r.at = at
  BY <1>1 DEF JobRecord
<1>3. job' = [job EXCEPT ![c] = r] /\ job'[c] = r
  BY <1>1 DEF To
<1> HIDE DEF r
<1> QED BY <1>2, <1>3 DEF JobStep, GoesTo

\* A call that fails.
LEMMA CallFails ==
  ASSUME LocalInv, NEW c \in Jobs, Fail(c)
  PROVE  /\ JobStep(c) /\ job'[c].at = "free" /\ startFailed' \in BOOLEAN
         /\ stage' \in {stage, "error"}
<1>1. job \in [Jobs -> JobRecord] /\ startFailed \in BOOLEAN
  BY DEF LocalInv, LocalTyped, JobTyped, StageTyped
<1>2. job' = [job EXCEPT ![c] = NoJob] /\ job'[c] = NoJob
  BY <1>1 DEF Fail
<1>3. stage' \notin Busy \/ startFailed'
  BY DEF Fail, Busy
<1> QED BY <1>1, <1>2, <1>3, NoJobTyped DEF JobStep, Fail

\* The service runs: a restart is over, a worker goes on to its model.
LEMMA CallStarts ==
  ASSUME LocalInv, NEW c \in Jobs, NEW here \in BOOLEAN, Started(c, here), job[c].at \in {"ensure", "wait"}
  PROVE  JobStep(c) /\ job'[c].at \in {"free", "pull"} /\ stage' \in {"ready", "installing"}
<1>1. job[c] \in JobRecord /\ job \in [Jobs -> JobRecord]
  BY DEF LocalInv, LocalTyped, JobTyped
<1>2. CASE job[c].kind = "compat"
  <2>1. job' = [job EXCEPT ![c] = NoJob] /\ job'[c] = NoJob /\ stage' = "ready"
    BY <1>1, <1>2 DEF Started
  <2>2. stage' \notin Busy
    BY <2>1 DEF Busy
  <2> QED BY <2>1, <2>2, NoJobTyped DEF JobStep
<1>3. CASE job[c].kind # "compat"
  <2> DEFINE r == [job[c] EXCEPT !.at = "pull", !.started = here]
  <2>1. r \in JobRecord /\ r.kind = job[c].kind /\ r.tier = job[c].tier /\ r.at = "pull"
    BY <1>1 DEF JobRecord, Places
  <2>2. job' = [job EXCEPT ![c] = r] /\ job'[c] = r /\ stage' = "installing"
    BY <1>1, <1>3 DEF Started
  <2> HIDE DEF r
  <2> QED BY <1>3, <2>1, <2>2 DEF JobStep, GoesTo
<1> QED BY <1>2, <1>3

\* What a step of a call does to the others, the shapes, the stage and the count.
LEMMA StepKeepsJobs ==
  ASSUME LocalInv, NEW c \in Jobs, JobStep(c), job[c].at # "free", jobs' = jobs,
         metadata # NoMetadata => metadata' # NoMetadata
  PROVE  /\ JobTyped' /\ JobShapes' /\ StageIsHonest' /\ MaySpawn' \subseteq MaySpawn
         /\ \A d \in Jobs \ {c} : job'[d] = job[d]
         /\ \A d \in Jobs : job'[d].at # "free" => job'[d].kind = job[d].kind
         /\ job'[c].at = "spawn" => slot \notin alive
         /\ job'[c].at # "plan"
<1> USE DEF LocalInv
<1>1. PICK r \in JobRecord : /\ job' = [job EXCEPT ![c] = r]
                             /\ (r = NoJob /\ (stage' \notin Busy \/ startFailed')) \/ GoesTo(c, r)
  BY DEF JobStep
<1>2. job \in [Jobs -> JobRecord]
  BY DEF LocalTyped, JobTyped
<1>3. job'[c] = r /\ \A d \in Jobs \ {c} : job'[d] = job[d]
  BY <1>1, <1>2
<1>4. JobTyped'
  BY <1>1, <1>2 DEF LocalTyped, JobTyped
<1>5. /\ (r.kind = "none") <=> (r.at = "free")
      /\ r.kind = "install" => r.tier \in Tiers
      /\ r.kind = "compat" => r.at \notin {"plan", "pull", "write"}
      /\ r.kind \in {"install", "vision"} => r.at # "stop"
      /\ r.kind \in {"vision", "compat"} => metadata' # NoMetadata
  <2>1. CASE r = NoJob
    BY <2>1, NoJobTyped
  <2>2. CASE GoesTo(c, r)
    BY <2>2 DEF GoesTo, JobShapes
  <2> QED BY <1>1, <2>1, <2>2
<1>6. JobShapes'
  BY <1>3, <1>5 DEF JobShapes
<1>7. StageIsHonest'
  <2>1. CASE r = NoJob
    <3>1. stage' \notin Busy \/ startFailed'
      BY <1>1, <2>1, NoJobTyped DEF GoesTo
    <3> QED BY <3>1 DEF StageIsHonest, Busy
  <2>2. CASE GoesTo(c, r)
    BY <1>3, <2>2 DEF StageIsHonest, GoesTo
  <2> QED BY <1>1, <2>1, <2>2
<1>8. MaySpawn' \subseteq MaySpawn
  <2>1. job[c].at \in {"wait", "pull", "write"} => r.at \in {"free", "pull", "write"}
    BY <1>1, NoJobTyped DEF GoesTo
  <2> QED BY <1>3, <2>1 DEF MaySpawn
<1>9. r.at # "free" => r.kind = job[c].kind
  BY <1>1, NoJobTyped DEF GoesTo
<1>10. (r.at = "spawn" => slot \notin alive) /\ r.at # "plan"
  BY <1>1, NoJobTyped DEF GoesTo
<1> QED BY <1>3, <1>4, <1>6, <1>7, <1>8, <1>9, <1>10

\* What it does to the files.
LEMMA StepKeepsDisk ==
  ASSUME LocalInv, NEW c \in Jobs, JobStep(c), job[c].at \notin {"free", "plan"}, UNCHANGED <<jobs, metadata>>,
         twoAtOnce => twoAtOnce',
         binary = "whole" => binary' = "whole" \/ Fetching(c),
         job'[c].at \in FetchPlaces => Fetching(c) \/ binary = "none",
         ~twoAtOnce /\ job'[c].at = "write" => binary' = "whole"
  PROVE  DiskInv'
<1> SUFFICES ASSUME ~twoAtOnce' PROVE Disk'
  BY DEF DiskInv
<1> USE DEF LocalInv
<1>0. ~twoAtOnce /\ Disk
  BY DEF DiskInv
<1>1. /\ \A d \in Jobs \ {c} : job'[d] = job[d]
      /\ \A d \in Jobs : job'[d].at # "free" => job'[d].kind = job[d].kind
  BY StepKeepsJobs
<1>2. \A d \in Jobs : IsWorker(d)' => IsWorker(d)
  BY <1>1 DEF IsWorker
<1>3. Fetching(c) => metadata = NoMetadata /\ IsWorker(c)
  BY <1>0 DEF Disk, JobShapes, IsWorker, Fetching, FetchPlaces, LocalTyped, JobTyped, JobRecord
<1>4. metadata # NoMetadata => binary' = "whole"
  BY <1>0, <1>3 DEF Disk
<1>5. ASSUME NEW d \in Jobs, Fetching(d)' PROVE metadata = NoMetadata
  <2>1. CASE d = c
    BY <1>0, <1>3, <1>5, <2>1 DEF Fetching, Disk
  <2>2. CASE d # c
    BY <1>0, <1>1, <1>5, <2>2 DEF Fetching, Disk
  <2> QED BY <2>1, <2>2
<1>6. ASSUME NEW d \in Jobs, job'[d].at = "write" PROVE binary' = "whole"
  <2>1. CASE d = c
    BY <1>0, <1>6, <2>1
  <2>2. CASE d # c
    <3>1. job[d].at = "write" /\ binary = "whole"
      BY <1>0, <1>1, <1>6, <2>2 DEF Disk
    <3>2. IsWorker(d)
      BY <3>1 DEF IsWorker, JobShapes, LocalTyped, JobTyped, JobRecord
    <3>3. ~Fetching(c)
      BY <1>0, <1>3, <2>2, <3>2 DEF Disk
    <3> QED BY <3>1, <3>3
  <2> QED BY <2>1, <2>2
<1>7. \A d, e \in Jobs : IsWorker(d)' /\ IsWorker(e)' => d = e
  BY <1>0, <1>2 DEF Disk
<1> QED BY <1>4, <1>5, <1>6, <1>7 DEF Disk

\* What it does to the service: nothing, it clears the slot of a child that has
\* exited, or it kills the child in the slot.
LEMMA StepKeepsService ==
  ASSUME LocalInv, NEW c \in Jobs, JobStep(c), job[c].at # "free", jobs' = jobs,
         metadata # NoMetadata => metadata' # NoMetadata,
         twoAtOnce => twoAtOnce', appRestarts' = appRestarts,
         \/ alive' = alive /\ slot' = slot
         \/ alive' = alive /\ slot' = 0 /\ slot \notin alive
         \/ alive' = alive \ {slot} /\ slot' = 0
  PROVE  ServiceInv' /\ CountInv'
<1> USE DEF LocalInv
<1>0. /\ \A d \in Jobs \ {c} : job'[d] = job[d]
      /\ job'[c].at = "spawn" => slot \notin alive
      /\ MaySpawn' \subseteq MaySpawn /\ alive' \subseteq alive
  BY StepKeepsJobs
<1>1. ServiceInv'
  <2> SUFFICES ASSUME ~twoAtOnce', appRestarts' = 0 PROVE Service'
    BY DEF ServiceInv
  <2>1. Service
    BY DEF ServiceInv
  <2>2. ASSUME NEW d \in Jobs, job'[d].at = "spawn" PROVE alive' = {}
    <3>1. CASE d = c
      BY <1>0, <2>1, <2>2, <3>1 DEF Service
    <3>2. CASE d # c
      BY <1>0, <2>1, <2>2, <3>2 DEF Service
    <3> QED BY <3>1, <3>2
  <2>3. alive' \subseteq {slot'}
    BY <2>1 DEF Service
  <2> QED BY <2>2, <2>3 DEF Service
<1>2. CountInv'
  <2>1. IsFiniteSet(alive) /\ IsFiniteSet(MaySpawn)
    <3>1. IsFiniteSet(1..MaxJobs)
      BY ChildNumbers
    <3>2. alive \subseteq 1..MaxJobs /\ MaySpawn \subseteq Jobs
      BY DEF LocalTyped, ServiceTyped, MaySpawn
    <3> QED BY <3>1, <3>2, FS_Subset, LocalBoundsAssumption
  <2>2. Cardinality(alive') <= Cardinality(alive) /\ IsFiniteSet(alive')
    BY <1>0, <2>1, FS_Subset
  <2>3. Cardinality(MaySpawn') <= Cardinality(MaySpawn) /\ IsFiniteSet(MaySpawn')
    BY <1>0, <2>1, FS_Subset
  <2>4. /\ Cardinality(alive) \in Nat /\ Cardinality(alive') \in Nat
        /\ Cardinality(MaySpawn) \in Nat /\ Cardinality(MaySpawn') \in Nat /\ jobs \in Nat
    BY <2>1, <2>2, <2>3, FS_CardinalityType DEF LocalTyped, JobTyped
  <2> QED BY <2>2, <2>3, <2>4 DEF CountInv
<1> QED BY <1>1, <1>2

\* The steps that fetch the binary.
LEMMA FetchKeeps ==
  ASSUME LocalInv, NEW c \in Jobs,
         Resolve(c) \/ Download(c) \/ Verify(c) \/ Extract(c) \/ Unpack(c) \/ Adopt(c) \/ Copy(c)
  PROVE  LocalInv'
<1> USE DEF elsewhere, serviceVars
<1>0. /\ UNCHANGED <<jobs, metadata, pulled, alive, slot, port, twoAtOnce, appRestarts>>
      /\ job[c].at \notin {"free", "plan", "wait", "pull", "write", "spawn"}
  BY DEF Resolve, Download, Verify, Extract, Unpack, Adopt, Copy
<1>t. /\ binary \in {"none", "partial", "whole"} /\ archive \in {"none", "wrong", "whole"} /\ startFailed \in BOOLEAN
      /\ stage \in {"not_started", "planned", "installing", "installed", "starting", "ready", "error"}
  BY DEF LocalInv, LocalTyped, DiskTyped, StageTyped
<1> DEFINE Good == /\ JobStep(c) /\ startFailed' \in BOOLEAN
                   /\ stage' \in {"not_started", "planned", "installing", "installed", "starting", "ready", "error"}
<1>g. ASSUME NEW at \in FetchPlaces, Goes(c, at) PROVE Good /\ job'[c].at = at
  BY <1>0, <1>t, <1>g, CallGoesOn DEF Goes, Places, FetchPlaces
<1>f. ASSUME Fail(c) PROVE Good /\ job'[c].at = "free"
  BY <1>t, <1>f, CallFails
<1>h. ASSUME HasBinary(c) PROVE Good /\ job'[c].at = "ensure"
  <2>1. To(c, "ensure") /\ stage' \in {"installing", "starting"} /\ startFailed' = startFailed
    BY <1>h DEF HasBinary
  <2>2. "ensure" \in Places \ {"free", "plan", "stop"}
    BY DEF Places
  <2>3. JobStep(c) /\ job'[c].at = "ensure"
    BY <1>0, <2>1, <2>2, CallGoesOn
  <2> QED BY <1>t, <2>1, <2>3
<1> HIDE DEF Good
<1>1. /\ Good /\ binary' \in {"none", "partial", "whole"} /\ archive' \in {"none", "wrong", "whole"}
      /\ binary = "whole" => binary' = "whole" \/ Fetching(c)
      /\ job'[c].at \in FetchPlaces => Fetching(c) \/ binary = "none"
      /\ job'[c].at # "write"
  <2>1. CASE Resolve(c)
    <3>1. CASE binary # "none"
      BY <1>h, <1>t, <2>1, <3>1 DEF Resolve, FetchPlaces
    <3>2. CASE binary = "none"
      <4>1. /\ To(c, "download") /\ stage' = "installing" /\ archive' = "wrong" /\ UNCHANGED <<startFailed, binary>>
        BY <2>1, <3>2 DEF Resolve
      <4>2. "download" \in Places \ {"free", "plan", "stop"}
        BY DEF Places, FetchPlaces
      <4>3. JobStep(c) /\ job'[c].at = "download"
        BY <1>0, <4>1, <4>2, CallGoesOn
      <4> QED BY <1>t, <3>2, <4>1, <4>3 DEF Good
    <3> QED BY <3>1, <3>2
  <2>2. CASE ~Resolve(c)
    <3>1. Fetching(c)
      BY <2>2 DEF Download, Verify, Extract, Unpack, Adopt, Copy, Fetching, FetchPlaces
    <3>2. \/ \E at \in FetchPlaces : Goes(c, at)
          \/ Fail(c) \/ HasBinary(c)
      BY <2>2 DEF Download, Verify, Extract, Unpack, Adopt, Copy, FetchPlaces
    <3>3. binary' \in {"none", "partial", "whole"} /\ archive' \in {"none", "wrong", "whole"}
      BY <1>t, <2>2 DEF Download, Verify, Extract, Unpack, Adopt, Copy
    <3>4. Good /\ job'[c].at \in FetchPlaces \cup {"free", "ensure"}
      BY <1>g, <1>f, <1>h, <3>2
    <3> QED BY <3>1, <3>3, <3>4 DEF FetchPlaces
  <2> QED BY <2>1, <2>2
<1>2. DiskInv'
  BY <1>0, <1>1, StepKeepsDisk DEF Good
<1>3. ServiceInv' /\ CountInv'
  BY <1>0, <1>1, StepKeepsService DEF Good
<1>4. JobTyped' /\ JobShapes' /\ StageIsHonest'
  BY <1>0, <1>1, StepKeepsJobs DEF Good
<1> QED BY <1>0, <1>1, <1>2, <1>3, <1>4
        DEF Good, LocalInv, LocalTyped, DiskTyped, ServiceTyped, StageTyped

\* The steps that start, stop and wait for the service, but for the spawn.
LEMMA ServeKeepsLocal ==
  ASSUME LocalInv, NEW c \in Jobs, CompatStop(c) \/ Ensure(c) \/ SpawnFails(c) \/ Wait(c)
  PROVE  LocalInv'
<1> USE DEF diskVars, serviceVars
<1>0. /\ UNCHANGED <<jobs, metadata, binary, archive, pulled, twoAtOnce, appRestarts>>
      /\ job[c].at \in {"stop", "ensure", "spawn", "wait"}
  BY DEF CompatStop, Ensure, SpawnFails, Wait
<1>t. /\ startFailed \in BOOLEAN /\ alive \subseteq 1..MaxJobs /\ slot \in 0..MaxJobs /\ port \in alive \cup {0, External}
      /\ stage \in {"not_started", "planned", "installing", "installed", "starting", "ready", "error"}
  BY DEF LocalInv, LocalTyped, ServiceTyped, StageTyped
<1>k. MaxJobs \in Nat /\ 0 \in 0..MaxJobs
  BY LocalBoundsAssumption
<1>x. ASSUME NEW child \in alive, Killed(child)
      PROVE  /\ alive' = alive \ {child} /\ slot' = 0 /\ alive' \subseteq 1..MaxJobs /\ slot' \in 0..MaxJobs
             /\ port' \in alive' \cup {0, External}
  BY <1>t, <1>k, <1>x DEF Killed
<1>1. /\ JobStep(c) /\ startFailed' \in BOOLEAN
      /\ stage' \in {"not_started", "planned", "installing", "installed", "starting", "ready", "error"}
      /\ job'[c].at \notin FetchPlaces \cup {"write"}
      /\ alive' \subseteq 1..MaxJobs /\ slot' \in 0..MaxJobs /\ port' \in alive' \cup {0, External}
      /\ \/ alive' = alive /\ slot' = slot
         \/ alive' = alive /\ slot' = 0 /\ slot \notin alive
         \/ alive' = alive \ {slot} /\ slot' = 0
  <2>1. CASE CompatStop(c)
    <3>1. /\ JobStep(c) /\ startFailed' \in BOOLEAN /\ job'[c].at \in {"free", "resolve"} /\ stage' = "starting"
      <4>1. stage' = "starting"
        BY <2>1 DEF CompatStop
      <4>2. CASE port' # 0
        <5>1. job' = [job EXCEPT ![c] = NoJob] /\ startFailed' = TRUE
          BY <2>1, <4>2 DEF CompatStop, StartRuntime
        <5>2. job'[c] = NoJob
          BY <5>1 DEF LocalInv, LocalTyped, JobTyped
        <5> QED BY <4>1, <5>1, <5>2, NoJobTyped DEF JobStep
      <4>3. CASE port' = 0
        <5>1. To(c, "resolve") /\ startFailed' = startFailed
          BY <2>1, <4>3 DEF CompatStop, StartRuntime
        <5>2. "resolve" \in Places \ {"free", "plan", "stop"} /\ job[c].at = "stop"
          BY <2>1 DEF Places, CompatStop
        <5>3. JobStep(c) /\ job'[c].at = "resolve"
          BY <5>1, <5>2, CallGoesOn
        <5> QED BY <1>t, <4>1, <5>1, <5>3
      <4> QED BY <4>2, <4>3
    <3>2. (slot \in alive /\ Killed(slot)) \/ UNCHANGED <<alive, slot, port>>
      BY <2>1 DEF CompatStop
    <3>3. (slot \in alive /\ Killed(slot)) => alive' = alive \ {slot} /\ slot' = 0 /\ alive' \subseteq 1..MaxJobs
                                              /\ slot' \in 0..MaxJobs /\ port' \in alive' \cup {0, External}
      BY <1>x
    <3> QED BY <1>t, <3>1, <3>2, <3>3 DEF FetchPlaces
  <2>2. CASE Ensure(c)
    <3>1. /\ UNCHANGED <<alive, port, startFailed>> /\ slot' = IF slot \in alive THEN slot ELSE 0
          /\ job[c].at = "ensure"
      BY <2>2 DEF Ensure
    <3>2. CASE slot \in alive \/ port # 0
      <4>1. Started(c, FALSE) /\ FALSE \in BOOLEAN
        BY <2>2, <3>2 DEF Ensure
      <4>2. JobStep(c) /\ job'[c].at \in {"free", "pull"} /\ stage' \in {"ready", "installing"}
        BY <3>1, <4>1, CallStarts
      <4> QED BY <1>t, <1>k, <3>1, <4>2 DEF FetchPlaces
    <3>3. CASE ~(slot \in alive \/ port # 0)
      <4>1. To(c, "spawn") /\ stage' = stage
        BY <2>2, <3>3 DEF Ensure
      <4>2. "spawn" \in Places \ {"free", "plan", "stop"}
        BY DEF Places
      <4>3. JobStep(c) /\ job'[c].at = "spawn"
        BY <3>1, <3>3, <4>1, <4>2, CallGoesOn
      <4> QED BY <1>t, <1>k, <3>1, <4>1, <4>3 DEF FetchPlaces
    <3> QED BY <3>2, <3>3
  <2>3. CASE SpawnFails(c)
    <3>1. Fail(c) /\ UNCHANGED <<alive, slot, port>>
      BY <2>3 DEF SpawnFails
    <3> QED BY <1>t, <3>1, CallFails DEF FetchPlaces
  <2>4. CASE Wait(c)
    <3>0. job[c].at = "wait"
      BY <2>4 DEF Wait
    <3>1. CASE port # 0 /\ Started(c, TRUE) /\ UNCHANGED <<serviceVars, startFailed, workerActive>>
      <4>1. JobStep(c) /\ job'[c].at \in {"free", "pull"} /\ stage' \in {"ready", "installing"}
        BY <3>0, <3>1, CallStarts
      <4> QED BY <1>t, <3>1, <4>1 DEF FetchPlaces
    <3>2. CASE port = 0 /\ Killed(slot) /\ Fail(c)
      <4>1. alive' = alive \ {slot} /\ slot' = 0 /\ port' = 0
        BY <3>2 DEF Killed
      <4> QED BY <1>t, <1>k, <3>2, <4>1, CallFails DEF FetchPlaces
    <3> QED BY <2>4, <3>1, <3>2 DEF Wait
  <2> QED BY <2>1, <2>2, <2>3, <2>4
<1>2. DiskInv'
  BY <1>0, <1>1, StepKeepsDisk DEF FetchPlaces
<1>3. ServiceInv' /\ CountInv'
  BY <1>0, <1>1, StepKeepsService
<1>4. JobTyped' /\ JobShapes' /\ StageIsHonest'
  BY <1>0, <1>1, StepKeepsJobs
<1> QED BY <1>0, <1>1, <1>2, <1>3, <1>4
        DEF LocalInv, LocalTyped, DiskTyped, ServiceTyped, StageTyped

\* There is a number for a new child.
LEMMA ChildIsNew ==
  ASSUME LocalInv, NEW c \in Jobs, job[c].at = "spawn"
  PROVE  /\ \E n \in 1..MaxJobs : n \notin alive
         /\ IsFiniteSet(alive) /\ IsFiniteSet(MaySpawn) /\ c \in MaySpawn
<1>1. IsFiniteSet(alive) /\ IsFiniteSet(MaySpawn) /\ c \in MaySpawn /\ Cardinality(1..MaxJobs) = MaxJobs
      /\ alive \subseteq 1..MaxJobs
  <2>1. IsFiniteSet(1..MaxJobs) /\ Cardinality(1..MaxJobs) = MaxJobs
    BY ChildNumbers
  <2>2. alive \subseteq 1..MaxJobs /\ MaySpawn \subseteq Jobs
    BY DEF LocalInv, LocalTyped, ServiceTyped, MaySpawn
  <2> QED BY <2>1, <2>2, FS_Subset, LocalBoundsAssumption DEF MaySpawn
<1>2. Cardinality(MaySpawn) \in Nat /\ Cardinality(MaySpawn) # 0 /\ Cardinality(alive) \in Nat
  BY <1>1, FS_CardinalityType, FS_EmptySet
<1>3. Cardinality(alive) < MaxJobs
  BY <1>2, LocalBoundsAssumption DEF LocalInv, LocalTyped, JobTyped, CountInv
<1>4. alive # 1..MaxJobs
  BY <1>1, <1>2, <1>3, LocalBoundsAssumption
<1> QED BY <1>1, <1>4

\* A child takes the slot.
LEMMA SpawnKeeps ==
  ASSUME LocalInv, NEW c \in Jobs, Spawn(c)
  PROVE  LocalInv'
<1> USE DEF diskVars
<1>0. /\ UNCHANGED <<jobs, metadata, binary, archive, pulled, port, workerActive, stage, startFailed, appRestarts>>
      /\ job[c].at = "spawn" /\ To(c, "wait")
  BY DEF Spawn
<1>1. PICK n \in 1..MaxJobs : n \notin alive /\ alive' = alive \cup {n} /\ slot' = n
  <2>1. \E n \in 1..MaxJobs : n \notin alive
    BY <1>0, ChildIsNew
  <2> DEFINE n == CHOOSE m \in 1..MaxJobs : m \notin alive
  <2>2. n \in 1..MaxJobs /\ n \notin alive
    BY <2>1
  <2>3. alive' = alive \cup {n} /\ slot' = n
    BY DEF Spawn
  <2> QED BY <2>2, <2>3
<1>2. JobStep(c) /\ job'[c].at = "wait"
  <2>1. "wait" \in Places \ {"free", "plan", "stop"}
    BY DEF Places
  <2> QED BY <1>0, <2>1, CallGoesOn
<1>3. /\ JobTyped' /\ JobShapes' /\ StageIsHonest' /\ MaySpawn' \subseteq MaySpawn
      /\ \A d \in Jobs \ {c} : job'[d] = job[d]
  BY <1>0, <1>2, StepKeepsJobs
<1>4. twoAtOnce' \in BOOLEAN /\ (twoAtOnce => twoAtOnce') /\ (~twoAtOnce' => \A d \in Jobs \ {c} : ~Starting(d))
  <2>1. twoAtOnce \in BOOLEAN
    BY DEF LocalInv, LocalTyped, StageTyped
  <2> QED BY <2>1 DEF Spawn
<1>5. DiskInv'
  BY <1>0, <1>2, <1>4, StepKeepsDisk DEF FetchPlaces
<1>6. ServiceInv'
  <2> SUFFICES ASSUME ~twoAtOnce', appRestarts' = 0 PROVE Service'
    BY DEF ServiceInv
  <2>1. alive = {} /\ \A d \in Jobs \ {c} : job[d].at # "spawn"
    BY <1>0, <1>4 DEF LocalInv, ServiceInv, Service, Starting
  <2> QED BY <1>1, <1>2, <1>3, <2>1 DEF Service
<1>7. CountInv'
  <2>1. IsFiniteSet(alive) /\ IsFiniteSet(MaySpawn) /\ c \in MaySpawn
    BY <1>0, ChildIsNew
  <2>2. MaySpawn' \subseteq MaySpawn \ {c}
    BY <1>2, <1>3 DEF MaySpawn
  <2>3. Cardinality(alive') = Cardinality(alive) + 1
    BY <1>1, <2>1, FS_AddElement
  <2>4. Cardinality(MaySpawn \ {c}) = Cardinality(MaySpawn) - 1 /\ IsFiniteSet(MaySpawn \ {c})
    BY <2>1, FS_RemoveElement
  <2>5. Cardinality(MaySpawn') <= Cardinality(MaySpawn \ {c}) /\ IsFiniteSet(MaySpawn')
    BY <2>2, <2>4, FS_Subset
  <2>6. Cardinality(alive) \in Nat /\ Cardinality(MaySpawn) \in Nat /\ Cardinality(MaySpawn') \in Nat /\ jobs \in Nat
    BY <2>1, <2>5, FS_CardinalityType DEF LocalInv, LocalTyped, JobTyped
  <2> QED BY <1>0, <2>3, <2>4, <2>5, <2>6 DEF LocalInv, CountInv
<1>8. ServiceTyped'
  <2>1. n \in 0..MaxJobs
    BY LocalBoundsAssumption
  <2> QED BY <1>0, <1>1, <2>1 DEF LocalInv, LocalTyped, ServiceTyped
<1> QED BY <1>0, <1>3, <1>4, <1>5, <1>6, <1>7, <1>8 DEF LocalInv, LocalTyped, DiskTyped, StageTyped

\* The model is pulled, the metadata written.
LEMMA EndKeeps ==
  ASSUME LocalInv, NEW c \in Jobs, (\E ok \in BOOLEAN : Pull(c, ok)) \/ Write(c)
  PROVE  LocalInv'
<1> USE DEF serviceVars
<1>t. /\ binary \in {"none", "partial", "whole"} /\ archive \in {"none", "wrong", "whole"} /\ pulled \subseteq Models
      /\ startFailed \in BOOLEAN /\ metadata \in Meta /\ job[c] \in JobRecord /\ job \in [Jobs -> JobRecord]
      /\ stage \in {"not_started", "planned", "installing", "installed", "starting", "ready", "error"}
  BY DEF LocalInv, LocalTyped, JobTyped, DiskTyped, StageTyped
<1>1. ASSUME NEW ok \in BOOLEAN, Pull(c, ok) PROVE LocalInv'
  <2> DEFINE model == IF job[c].kind = "vision" THEN "vision" ELSE job[c].tier
             listed == model \in (IF job[c].kind = "vision" THEN job[c].snap ELSE metadata).models
  <2>0. /\ job[c].at = "pull" /\ (ok => (port # 0 /\ binary = "whole") \/ listed)
        /\ pulled' = (IF ok /\ ~listed THEN pulled \cup {model} ELSE pulled)
        /\ (ok /\ To(c, "write") /\ UNCHANGED <<startFailed, stage>>) \/ (~ok /\ Fail(c))
        /\ UNCHANGED <<jobs, metadata, binary, archive, alive, slot, port, twoAtOnce, appRestarts>>
    BY <1>1 DEF Pull
  <2>1. job[c].kind \in {"install", "vision"} /\ (job[c].kind = "install" => job[c].tier \in Tiers)
        /\ (job[c].kind = "vision" => metadata # NoMetadata)
    BY <1>t, <2>0 DEF LocalInv, JobShapes, JobRecord
  <2>2. model \in Models
    BY <2>1 DEF Models
  <2>3. listed => metadata # NoMetadata
    BY <2>1, NoJobTyped
  <2>4. ~twoAtOnce /\ ok => binary = "whole"
    BY <2>0, <2>3 DEF LocalInv, DiskInv, Disk
  <2> HIDE DEF listed, model
  <2>5. pulled' \subseteq Models
    BY <1>t, <2>0, <2>2
  <2>6. /\ JobStep(c) /\ job'[c].at \in {"write", "free"} /\ (job'[c].at = "write" => ok) /\ startFailed' \in BOOLEAN
        /\ stage' \in {"not_started", "planned", "installing", "installed", "starting", "ready", "error"}
    <3>1. CASE ok /\ To(c, "write") /\ UNCHANGED <<startFailed, stage>>
      <4>1. "write" \in Places \ {"free", "plan", "stop"} /\ job[c].kind # "compat"
        BY <2>1 DEF Places
      <4>2. JobStep(c) /\ job'[c].at = "write"
        BY <2>0, <3>1, <4>1, CallGoesOn
      <4> QED BY <1>t, <3>1, <4>2
    <3>2. CASE ~ok /\ Fail(c)
      BY <1>t, <3>2, CallFails
    <3> QED BY <2>0, <3>1, <3>2
  <2>7. DiskInv'
    BY <2>0, <2>4, <2>6, StepKeepsDisk DEF FetchPlaces
  <2>8. ServiceInv' /\ CountInv' /\ JobTyped' /\ JobShapes' /\ StageIsHonest'
    BY <2>0, <2>6, StepKeepsService, StepKeepsJobs
  <2> QED BY <2>0, <2>5, <2>6, <2>7, <2>8 DEF LocalInv, LocalTyped, DiskTyped, ServiceTyped, StageTyped
<1>2. CASE Write(c)
  <2>0. /\ job[c].at = "write" /\ job' = [job EXCEPT ![c] = NoJob] /\ stage' = "ready"
        /\ UNCHANGED <<jobs, binary, archive, pulled, alive, slot, port, twoAtOnce, startFailed, appRestarts>>
    BY <1>2 DEF Write
  <2>1. job[c].kind \in {"install", "vision"} /\ (job[c].kind = "install" => job[c].tier \in Tiers)
    BY <1>t, <2>0 DEF LocalInv, JobShapes, JobRecord
  <2>2. JobStep(c) /\ job'[c].at = "free" /\ job'[c] = NoJob
    <3>1. stage' \notin Busy
      BY <2>0 DEF Busy
    <3> QED BY <1>t, <2>0, <3>1, NoJobTyped DEF JobStep
  <2>3. metadata' \in Meta /\ metadata'.models # {}
    <3>1. CASE job[c].kind = "vision"
      <4>1. metadata' = [job[c].snap EXCEPT !.models = @ \cup {"vision"}, !.tier = job[c].tier]
        BY <1>2, <3>1 DEF Write
      <4>2. job[c].snap \in Meta /\ job[c].tier \in {"none"} \cup Tiers
        BY <1>t DEF JobRecord
      <4> QED BY <4>1, <4>2 DEF Meta, Models
    <3>2. CASE job[c].kind # "vision"
      <4>1. metadata' = [tier |-> job[c].tier, models |-> {job[c].tier}, compat |-> FALSE,
                         source |-> IF job[c].started THEN "ours" ELSE "existing"]
        BY <1>2, <3>2 DEF Write
      <4>2. job[c].tier \in Tiers
        BY <2>1, <3>2
      <4>3. {job[c].tier} \in SUBSET Models /\ (IF job[c].started THEN "ours" ELSE "existing") \in {"none", "ours", "existing"}
        BY <4>2 DEF Models
      <4> QED BY <4>1, <4>2, <4>3 DEF Meta
    <3> QED BY <3>1, <3>2
  <2>4. metadata' # NoMetadata
    BY <2>3, NoJobTyped
  <2>5. JobTyped' /\ JobShapes' /\ StageIsHonest' /\ \A d \in Jobs \ {c} : job'[d] = job[d]
    BY <2>0, <2>2, <2>4, StepKeepsJobs
  <2>6. ServiceInv' /\ CountInv'
    BY <2>0, <2>2, <2>4, StepKeepsService
  <2>7. DiskInv'
    <3> SUFFICES ASSUME ~twoAtOnce PROVE Disk'
      BY <2>0 DEF DiskInv
    <3>1. Disk /\ binary' = "whole"
      BY <2>0 DEF LocalInv, DiskInv, Disk
    <3>2. IsWorker(c)
      BY <2>0, <2>1 DEF IsWorker
    <3>3. \A d \in Jobs : job'[d] = job[d] \/ (d = c /\ job'[d].at = "free")
      BY <2>2, <2>5
    <3>4. \A d, e \in Jobs : IsWorker(d)' /\ IsWorker(e)' => d = e
      BY <3>1, <3>3 DEF Disk, IsWorker
    <3>5. ASSUME NEW d \in Jobs, Fetching(d)' PROVE FALSE
      <4>1. d # c /\ Fetching(d) /\ job'[d] = job[d]
        BY <2>2, <2>5, <3>5 DEF Fetching, FetchPlaces
      <4>2. metadata = NoMetadata
        BY <3>1, <4>1 DEF Disk
      <4>3. IsWorker(d)
        BY <4>1, <4>2 DEF IsWorker, LocalInv, JobShapes, Fetching, FetchPlaces, LocalTyped, JobTyped, JobRecord
      <4> QED BY <3>1, <3>2, <4>1, <4>3 DEF Disk
    <3> QED BY <3>1, <3>4, <3>5 DEF Disk
  <2> QED BY <1>t, <2>0, <2>3, <2>5, <2>6, <2>7 DEF LocalInv, LocalTyped, DiskTyped, ServiceTyped, StageTyped
<1> QED BY <1>1, <1>2

\* Fewer children, or fewer calls that may spawn one: the count is kept.
LEMMA CountKept ==
  ASSUME LocalInv, alive' \subseteq alive, MaySpawn' \subseteq MaySpawn, jobs' \in {jobs, jobs + 1}
  PROVE  CountInv'
<1>1. IsFiniteSet(alive) /\ IsFiniteSet(MaySpawn)
  <2>1. IsFiniteSet(1..MaxJobs)
    BY ChildNumbers
  <2>2. alive \subseteq 1..MaxJobs /\ MaySpawn \subseteq Jobs
    BY DEF LocalInv, LocalTyped, ServiceTyped, MaySpawn
  <2> QED BY <2>1, <2>2, FS_Subset, LocalBoundsAssumption
<1>2. Cardinality(alive') <= Cardinality(alive) /\ IsFiniteSet(alive')
  BY <1>1, FS_Subset
<1>3. Cardinality(MaySpawn') <= Cardinality(MaySpawn) /\ IsFiniteSet(MaySpawn')
  BY <1>1, FS_Subset
<1>4. /\ Cardinality(alive) \in Nat /\ Cardinality(alive') \in Nat
      /\ Cardinality(MaySpawn) \in Nat /\ Cardinality(MaySpawn') \in Nat /\ jobs \in Nat
  BY <1>1, <1>2, <1>3, FS_CardinalityType DEF LocalInv, LocalTyped, JobTyped
<1> QED BY <1>2, <1>3, <1>4 DEF LocalInv, CountInv

\* A call that begins: it is not yet a worker, it may spawn a child, and it is
\* one call more.
LEMMA CallBegins ==
  ASSUME LocalInv, NEW c \in Jobs, NEW r \in JobRecord, job[c] = NoJob, job' = [job EXCEPT ![c] = r],
         jobs < MaxJobs, jobs' = jobs + 1,
         \/ r.kind = "install" /\ r.tier \in Tiers /\ r.at = "plan"
         \/ r.kind = "vision" /\ metadata # NoMetadata /\ r.at = "plan"
         \/ r.kind = "compat" /\ metadata # NoMetadata /\ r.at = "stop",
         metadata' \in Meta, metadata' = NoMetadata <=> metadata = NoMetadata,
         UNCHANGED <<binary, archive, pulled, alive, slot, port, stage, twoAtOnce, startFailed, appRestarts>>
  PROVE  LocalInv'
<1>0. job \in [Jobs -> JobRecord] /\ jobs \in 0..MaxJobs /\ job[c].at = "free"
  BY NoJobTyped DEF LocalInv, LocalTyped, JobTyped
<1>1. job'[c] = r /\ \A d \in Jobs \ {c} : job'[d] = job[d]
  BY <1>0
<1>2. LocalTyped'
  <2>1. jobs' \in 0..MaxJobs
    BY <1>0, LocalBoundsAssumption
  <2>2. job' \in [Jobs -> JobRecord]
    BY <1>0
  <2> QED BY <2>1, <2>2 DEF LocalInv, LocalTyped, JobTyped, DiskTyped, ServiceTyped, StageTyped
<1>3. JobShapes'
  <2>1. /\ (r.kind = "none") <=> (r.at = "free")
        /\ r.kind = "install" => r.tier \in Tiers
        /\ r.kind = "compat" => r.at \notin {"plan", "pull", "write"}
        /\ r.kind \in {"install", "vision"} => r.at # "stop"
        /\ r.kind \in {"vision", "compat"} => metadata' # NoMetadata
    OBVIOUS
  <2> QED BY <1>1, <2>1 DEF LocalInv, JobShapes
<1>4. DiskInv'
  <2> SUFFICES ASSUME ~twoAtOnce PROVE Disk'
    BY DEF DiskInv
  <2>1. Disk
    BY DEF LocalInv, DiskInv
  <2>2. r.at \notin FetchPlaces \cup {"write"} /\ ~IsWorker(c)'
    BY <1>1 DEF FetchPlaces, IsWorker
  <2>3. \A d \in Jobs : (IsWorker(d)' => IsWorker(d)) /\ (Fetching(d)' => Fetching(d))
                        /\ (job'[d].at = "write" => job[d].at = "write")
    BY <1>1, <2>2 DEF IsWorker, Fetching
  <2> QED BY <2>1, <2>3 DEF Disk
<1>5. ServiceInv'
  BY <1>1 DEF LocalInv, ServiceInv, Service
<1>6. CountInv'
  <2>1. IsFiniteSet(alive) /\ IsFiniteSet(MaySpawn)
    <3>1. IsFiniteSet(1..MaxJobs)
      BY ChildNumbers
    <3>2. alive \subseteq 1..MaxJobs /\ MaySpawn \subseteq Jobs
      BY DEF LocalInv, LocalTyped, ServiceTyped, MaySpawn
    <3> QED BY <3>1, <3>2, FS_Subset, LocalBoundsAssumption
  <2>2. MaySpawn' = MaySpawn \cup {c} /\ c \notin MaySpawn
    BY <1>0, <1>1 DEF MaySpawn
  <2>3. Cardinality(MaySpawn') = Cardinality(MaySpawn) + 1
    BY <2>1, <2>2, FS_AddElement
  <2>4. Cardinality(alive) \in Nat /\ Cardinality(MaySpawn) \in Nat
    BY <2>1, FS_CardinalityType
  <2> QED BY <1>0, <2>3, <2>4 DEF LocalInv, CountInv
<1>7. StageIsHonest'
  BY <1>1 DEF StageIsHonest
<1> QED BY <1>2, <1>3, <1>4, <1>5, <1>6, <1>7 DEF LocalInv

\* An install, Vision Boost, or a restart in compatibility mode is asked for.
LEMMA BeginKeeps ==
  ASSUME LocalInv, NEW c \in Jobs,
         (\E tier \in Tiers : InstallStart(c, tier)) \/ EnableVisionBoost(c) \/ Compat(c)
  PROVE  LocalInv'
<1> USE DEF diskVars, serviceVars
<1>t. metadata \in Meta /\ jobs \in 0..MaxJobs
  BY DEF LocalInv, LocalTyped, JobTyped, DiskTyped, StageTyped
<1>1. ASSUME NEW kind \in {"install", "vision"}, NEW tier \in {"none"} \cup Tiers, Begin(c, kind, tier),
             kind = "install" => tier \in Tiers, kind = "vision" => metadata # NoMetadata
      PROVE  LocalInv'
  <2>0. /\ job[c] = NoJob /\ jobs < MaxJobs /\ jobs' = jobs + 1
        /\ UNCHANGED <<metadata, binary, archive, pulled, alive, slot, port, twoAtOnce, startFailed, appRestarts>>
    BY <1>1 DEF Begin
  <2> DEFINE r == [NoJob EXCEPT !.kind = kind, !.tier = tier, !.at = "plan"]
  <2>1. \/ job' = [job EXCEPT ![c] = r] /\ stage' = stage
        \/ job' = job /\ stage' \in {"ready", "installed"}
    BY <1>1 DEF Begin
  <2>2. r \in JobRecord /\ r.kind = kind /\ r.tier = tier /\ r.at = "plan"
    BY NoJobTyped DEF JobRecord, Places
  <2> HIDE DEF r
  <2>3. CASE job' = [job EXCEPT ![c] = r] /\ stage' = stage
    BY <1>t, <1>1, <2>0, <2>2, <2>3, CallBegins
  <2>4. CASE job' = job /\ stage' \in {"ready", "installed"}
    <3>1. CountInv'
      <4>1. MaySpawn' = MaySpawn
        BY <2>4 DEF MaySpawn
      <4> QED BY <2>0, <4>1, CountKept
    <3>2. JobTyped'
      BY <1>t, <2>0, <2>4, LocalBoundsAssumption DEF LocalInv, LocalTyped, JobTyped
    <3>3. JobShapes' /\ DiskInv' /\ ServiceInv'
      BY <2>0, <2>4 DEF LocalInv, JobShapes, DiskInv, Disk, Fetching, IsWorker, ServiceInv, Service
    <3>4. StageIsHonest'
      BY <2>4 DEF StageIsHonest, Busy
    <3>5. DiskTyped' /\ ServiceTyped' /\ StageTyped'
      BY <2>0, <2>4 DEF LocalInv, LocalTyped, DiskTyped, ServiceTyped, StageTyped
    <3> QED BY <3>1, <3>2, <3>3, <3>4, <3>5 DEF LocalInv, LocalTyped
  <2> QED BY <2>1, <2>3, <2>4
<1>2. CASE \E tier \in Tiers : InstallStart(c, tier)
  BY <1>1, <1>2 DEF InstallStart
<1>3. CASE EnableVisionBoost(c)
  <2>1. metadata.tier \in {"none"} \cup Tiers
    BY <1>t DEF Meta
  <2> QED BY <1>1, <1>3, <2>1 DEF EnableVisionBoost
<1>4. CASE Compat(c)
  <2>0. /\ job[c] = NoJob /\ jobs < MaxJobs /\ jobs' = jobs + 1 /\ metadata # NoMetadata
        /\ UNCHANGED <<binary, archive, pulled, alive, slot, port, stage, twoAtOnce, startFailed, appRestarts>>
        /\ metadata' = [metadata EXCEPT !.compat = TRUE]
        /\ job' = [job EXCEPT ![c] = [NoJob EXCEPT !.kind = "compat", !.tier = metadata.tier, !.at = "stop"]]
    BY <1>4 DEF Compat, MayRetry
  <2>1. metadata' \in Meta /\ metadata'.compat = TRUE
    BY <1>t, <2>0 DEF Meta
  <2>2. metadata' # NoMetadata
    BY <2>1, NoJobTyped
  <2>3. PICK r : r = [NoJob EXCEPT !.kind = "compat", !.tier = metadata.tier, !.at = "stop"]
    OBVIOUS
  <2>4. metadata.tier \in {"none"} \cup Tiers
    BY <1>t DEF Meta
  <2>5. r \in JobRecord /\ r.kind = "compat" /\ r.at = "stop"
    BY <2>3, <2>4, NoJobTyped DEF JobRecord, Places
  <2>6. job' = [job EXCEPT ![c] = r] /\ (metadata' = NoMetadata <=> metadata = NoMetadata)
    BY <2>0, <2>2, <2>3
  <2>7. r.kind = "compat" /\ metadata # NoMetadata /\ r.at = "stop"
    BY <2>0, <2>5
  <2>8. r \in JobRecord
    BY <2>5
  <2> QED BY <2>0, <2>1, <2>6, <2>7, <2>8, CallBegins
<1> QED BY <1>2, <1>3, <1>4

\* The worker thread starts.
LEMMA PlanKeeps ==
  ASSUME LocalInv, NEW c \in Jobs, Plan(c)
  PROVE  LocalInv'
<1> USE DEF diskVars, serviceVars
<1>0. /\ job[c].at = "plan" /\ stage' = "planned"
      /\ UNCHANGED <<jobs, metadata, binary, archive, pulled, alive, slot, port, startFailed, appRestarts>>
      /\ job' = [job EXCEPT ![c].at = "resolve", ![c].snap = metadata]
  BY DEF Plan
<1>t. job \in [Jobs -> JobRecord] /\ job[c] \in JobRecord /\ metadata \in Meta /\ twoAtOnce \in BOOLEAN
  BY DEF LocalInv, LocalTyped, JobTyped, DiskTyped, StageTyped
<1>w. twoAtOnce' \in BOOLEAN /\ (~twoAtOnce' => ~twoAtOnce /\ \A d \in Jobs \ {c} : ~IsWorker(d))
  BY <1>t DEF Plan
<1> DEFINE r == [job[c] EXCEPT !.at = "resolve", !.snap = metadata]
<1>1. r \in JobRecord /\ r.kind = job[c].kind /\ r.tier = job[c].tier /\ r.at = "resolve"
  BY <1>t DEF JobRecord, Places
<1>2. job' = [job EXCEPT ![c] = r] /\ job'[c] = r /\ \A d \in Jobs \ {c} : job'[d] = job[d]
  BY <1>0, <1>t
<1>3. GoesTo(c, r)
  BY <1>0, <1>1 DEF GoesTo
<1> HIDE DEF r
<1>4. JobStep(c)
  BY <1>1, <1>2, <1>3 DEF JobStep
<1>5. JobTyped' /\ JobShapes' /\ StageIsHonest' /\ MaySpawn' \subseteq MaySpawn
  BY <1>0, <1>4, StepKeepsJobs
<1>6. CountInv'
  BY <1>0, <1>5, CountKept
<1>7. DiskInv'
  <2> SUFFICES ASSUME ~twoAtOnce' PROVE Disk'
    BY DEF DiskInv
  <2>1. Disk /\ \A d \in Jobs \ {c} : ~IsWorker(d)
    BY <1>w DEF LocalInv, DiskInv
  <2>2. \A d \in Jobs \ {c} : ~IsWorker(d)'
    BY <1>2, <2>1 DEF IsWorker
  <2>3. \A d \in Jobs : (Fetching(d)' => Fetching(d)) /\ (job'[d].at = "write" => job[d].at = "write")
    BY <1>1, <1>2 DEF Fetching, FetchPlaces
  <2> QED BY <1>0, <2>1, <2>2, <2>3 DEF Disk
<1>8. ServiceInv'
  BY <1>0, <1>1, <1>2, <1>w DEF LocalInv, ServiceInv, Service
<1>9. DiskTyped' /\ ServiceTyped' /\ StageTyped'
  BY <1>0, <1>w DEF LocalInv, LocalTyped, DiskTyped, ServiceTyped, StageTyped
<1> QED BY <1>5, <1>6, <1>7, <1>8, <1>9 DEF LocalInv, LocalTyped

\* A child listens or exits, the window asks for the status, the runtime is
\* stopped, the application restarted.
LEMMA ChildKeeps ==
  ASSUME LocalInv,
         (\E child \in 1..MaxJobs : ChildServes(child) \/ ChildExits(child)) \/ RuntimeStatus \/ StopRuntime
  PROVE  LocalInv'
<1> USE DEF diskVars
<1>0. UNCHANGED <<job, jobs, metadata, binary, archive, pulled, workerActive, twoAtOnce, startFailed, appRestarts>>
  BY DEF ChildServes, ChildExits, RuntimeStatus, StopRuntime
<1>1. ServiceTyped
  BY DEF LocalInv, LocalTyped
<1>2. ServiceTyped' /\ alive' \subseteq alive /\ (alive \subseteq {slot} => alive' \subseteq {slot'})
  <2>1. CASE \E child \in 1..MaxJobs : ChildServes(child)
    BY <1>1, <2>1 DEF ServiceTyped, ChildServes
  <2>2. CASE \E child \in 1..MaxJobs : ChildExits(child)
    BY <1>1, <2>2 DEF ServiceTyped, ChildExits
  <2>3. CASE RuntimeStatus
    BY <1>1, <2>3, LocalBoundsAssumption DEF ServiceTyped, RuntimeStatus
  <2>4. CASE StopRuntime
    BY <1>1, <2>4, LocalBoundsAssumption DEF ServiceTyped, StopRuntime, Killed
  <2> QED BY <2>1, <2>2, <2>3, <2>4
<1>3. stage' \in {stage, "not_started", "installed"}
  BY DEF ChildServes, ChildExits, RuntimeStatus, StopRuntime
<1>4. JobTyped' /\ DiskTyped' /\ StageTyped'
  BY <1>0, <1>3 DEF LocalInv, LocalTyped, JobTyped, DiskTyped, StageTyped
<1>5. JobShapes' /\ DiskInv'
  BY <1>0 DEF LocalInv, JobShapes, DiskInv, Disk, Fetching, IsWorker
<1>6. ServiceInv'
  BY <1>0, <1>2 DEF LocalInv, ServiceInv, Service
<1>7. CountInv'
  <2>1. MaySpawn' = MaySpawn
    BY <1>0 DEF MaySpawn
  <2> QED BY <1>0, <1>2, <2>1, CountKept
<1>8. StageIsHonest'
  BY <1>0, <1>3 DEF LocalInv, StageIsHonest, Busy
<1> QED BY <1>2, <1>4, <1>5, <1>6, <1>7, <1>8 DEF LocalInv, LocalTyped

LEMMA AppRestartKeeps ==
  ASSUME LocalInv, AppRestart
  PROVE  LocalInv'
<1> USE DEF diskVars
<1>0. /\ job' = [c \in Jobs |-> NoJob] /\ slot' = 0 /\ stage' = "not_started" /\ appRestarts' = 1
      /\ UNCHANGED <<jobs, metadata, binary, archive, pulled, alive, port, twoAtOnce, startFailed>>
  BY DEF AppRestart
<1>1. \A c \in Jobs : job'[c] = NoJob /\ job'[c].at = "free" /\ job'[c].kind = "none"
  BY <1>0, NoJobTyped
<1>2. JobTyped' /\ JobShapes'
  <2>1. job' \in [Jobs -> JobRecord]
    BY <1>0, NoJobTyped
  <2> QED BY <1>0, <1>1, <2>1 DEF LocalInv, LocalTyped, JobTyped, JobShapes
<1>3. DiskInv'
  BY <1>0, <1>1 DEF LocalInv, DiskInv, Disk, Fetching, FetchPlaces, IsWorker
<1>4. ServiceInv'
  BY <1>0 DEF ServiceInv
<1>5. CountInv'
  <2>1. MaySpawn' \subseteq MaySpawn
    BY <1>1 DEF MaySpawn
  <2> QED BY <1>0, <2>1, CountKept
<1>6. StageIsHonest'
  BY <1>0 DEF StageIsHonest, Busy
<1>7. DiskTyped' /\ ServiceTyped' /\ StageTyped'
  BY <1>0, LocalBoundsAssumption DEF LocalInv, LocalTyped, DiskTyped, ServiceTyped, StageTyped
<1> QED BY <1>2, <1>3, <1>4, <1>5, <1>6, <1>7 DEF LocalInv, LocalTyped

\* Every step keeps the invariant.
LEMMA NextLocalInv ==
  ASSUME LocalInv, [LocalNext]_localVars
  PROVE  LocalInv'
<1>1. ASSUME NEW c \in Jobs, Work(c) PROVE LocalInv'
  <2>1. CASE Resolve(c) \/ Download(c) \/ Verify(c) \/ Extract(c) \/ Unpack(c) \/ Adopt(c) \/ Copy(c)
    BY <2>1, FetchKeeps
  <2>2. CASE CompatStop(c) \/ Ensure(c) \/ SpawnFails(c) \/ Wait(c)
    BY <2>2, ServeKeepsLocal
  <2>3. CASE Plan(c)
    BY <2>3, PlanKeeps
  <2>4. CASE Spawn(c)
    BY <2>4, SpawnKeeps
  <2>5. CASE (\E ok \in BOOLEAN : Pull(c, ok)) \/ Write(c)
    BY <2>5, EndKeeps
  <2> QED BY <1>1, <2>1, <2>2, <2>3, <2>4, <2>5 DEF Work
<1>2. CASE UNCHANGED localVars
  <2>1. MaySpawn' = MaySpawn
    BY <1>2 DEF localVars, MaySpawn
  <2>2. CountInv'
    BY <1>2, <2>1 DEF localVars, CountInv, LocalInv
  <2>3. LocalTyped' /\ JobShapes' /\ DiskInv' /\ ServiceInv' /\ StageIsHonest'
    BY <1>2 DEF LocalInv, localVars, LocalTyped, JobTyped, DiskTyped, ServiceTyped, StageTyped, JobShapes, DiskInv, Disk,
                Fetching, IsWorker, ServiceInv, Service, StageIsHonest
  <2> QED BY <2>2, <2>3 DEF LocalInv
<1> QED BY <1>1, <1>2, BeginKeeps, ChildKeeps, AppRestartKeeps DEF LocalNext

LEMMA InitLocalInv == LocalInit => LocalInv
<1> SUFFICES ASSUME LocalInit PROVE LocalInv
  OBVIOUS
<1>1. \A c \in Jobs : job[c] = NoJob /\ job[c].at = "free" /\ job[c].kind = "none"
  BY NoJobTyped DEF LocalInit
<1>2. JobTyped /\ JobShapes
  <2>1. job \in [Jobs -> JobRecord]
    BY NoJobTyped DEF LocalInit
  <2> QED BY <1>1, <2>1, LocalBoundsAssumption DEF LocalInit, JobTyped, JobShapes
<1>3. DiskTyped /\ ServiceTyped /\ StageTyped
  <2>1. DiskTyped
    BY NoJobTyped DEF LocalInit, DiskTyped
  <2>2. 0 \in 0..MaxJobs
    BY LocalBoundsAssumption
  <2>3. ServiceTyped
    BY <2>2 DEF LocalInit, ServiceTyped
  <2>4. StageTyped
    BY DEF LocalInit, StageTyped
  <2> QED BY <2>1, <2>3, <2>4
<1>4. DiskInv
  BY <1>1 DEF LocalInit, DiskInv, Disk, Fetching, FetchPlaces, IsWorker
<1>5. ServiceInv
  BY <1>1 DEF LocalInit, ServiceInv, Service
<1>6. CountInv
  <2>1. MaySpawn = {} /\ alive = {} /\ jobs = 0
    BY <1>1 DEF MaySpawn, LocalInit
  <2> QED BY <2>1, FS_EmptySet DEF CountInv
<1>7. StageIsHonest
  BY DEF LocalInit, StageIsHonest, Busy
<1> QED BY <1>2, <1>3, <1>4, <1>5, <1>6, <1>7 DEF LocalInv, LocalTyped

\* What the invariant says of the types.
LEMMA LocalTypes == LocalInv => LocalTypeOK
<1> SUFFICES ASSUME LocalInv PROVE LocalTypeOK
  OBVIOUS
<1>1. /\ \A c \in Jobs : job[c] \in JobRecord
      /\ metadata \in Meta /\ (metadata # NoMetadata /\ ~twoAtOnce => binary = "whole")
  BY DEF LocalInv, LocalTyped, JobTyped, DiskTyped, DiskInv, Disk
<1>2. metadata.models \subseteq Models
  BY <1>1 DEF Meta
<1>3. \A c \in Jobs : job[c].kind \in {"none", "install", "vision", "compat"} /\ job[c].at \in Places
  BY <1>1 DEF JobRecord
<1> QED BY <1>1, <1>2, <1>3 DEF LocalTypeOK, LocalInv, LocalTyped, DiskTyped, ServiceTyped, StageTyped, Places,
                                FetchPlaces, Models

\* The inductive invariant of the local runtime.
THEOREM LocalInvariance == LocalSpec => []LocalInv
<1> QED BY InitLocalInv, NextLocalInv, PTL DEF LocalSpec

\* A start that failed leaves no process behind that stop_runtime cannot reach
\* (ensure_service_running and its caller in local_ai.rs).
THEOREM NoChildIsLost == LocalSpec => []NoOrphan
<1>1. LocalInv => NoOrphan
  BY DEF LocalInv, ServiceInv, Service, NoOrphan
<1> QED BY <1>1, LocalInvariance, PTL

\* The progress the window polls says that somebody works only while somebody
\* does (install_progress in local_ai.rs).
THEOREM ProgressIsHonest == LocalSpec => []StageIsHonest
<1>1. LocalInv => StageIsHonest
  BY DEF LocalInv
<1> QED BY <1>1, LocalInvariance, PTL

----------------------------------------------------------------------------
\* The four side by side.

\* The inductive invariant of the four components.
RecordsInv == SessionInv /\ AccessInv /\ BillingInv /\ LocalInv

\* Every store starts within its own module, and a step of one leaves the
\* variables of the others.
LEMMA RecordsMove ==
  /\ RecordsInit => SessionInit /\ AccessInit /\ BillingInit /\ LocalInit
  /\ [RecordsNext]_recordsVars =>
       [SessionNext]_sessionVars /\ [AccessNext]_accessVars /\ [BillingNext]_billingVars /\ [LocalNext]_localVars
BY DEF RecordsInit, RecordsNext, recordsVars

LEMMA NextRecordsInv == RecordsInv /\ [RecordsNext]_recordsVars => RecordsInv'
BY RecordsMove, NextSessionInv, NextAccessInv, NextBillingInv, NextLocalInv DEF RecordsInv

\* What outlives a process keeps its types: a user row names a Stripe customer
\* made for that user, a refresh holds a session row that is there, only a
\* process that runs serves the port (the four stores of the records run).
THEOREM RecordsTypes == RecordsSpec => []RecordsTypeOK
<1>1. RecordsInit => RecordsInv
  BY RecordsMove, InitSessionInv, InitAccessInv, InitBillingInv, InitLocalInv DEF RecordsInv
<1>2. RecordsInv => RecordsTypeOK
  <2>1. SessionInv => SessionTypeOK
    BY DEF SessionInv, RowsTyped, JarTyped, FetchTyped, HistoryTyped, SessionTypeOK, Row, Fetch
  <2>2. BillingInv => BillingTypeOK
    BY DEF BillingInv
  <2> QED BY <2>1, <2>2, AccessFacts, LocalTypes DEF RecordsInv, RecordsTypeOK
<1> QED BY <1>1, <1>2, NextRecordsInv, PTL DEF RecordsSpec

\* What the four stores do side by side are behaviours of each, so that every
\* theorem about sessions, devices, billing or the local runtime holds there.
THEOREM RecordsAreEachStores == RecordsSpec => SessionSpec /\ AccessSpec /\ BillingSpec /\ LocalSpec
BY RecordsMove, PTL DEF RecordsSpec, SessionSpec, AccessSpec, BillingSpec, LocalSpec
============================================================================
