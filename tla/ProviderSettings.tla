-------------------------- MODULE ProviderSettings --------------------------
(***************************************************************************)
(* The choice of the model provider: the settings App.tsx keeps in local   *)
(* storage, whether it takes the provider as configured, the panel that    *)
(* edits them (components/SettingsPanel.tsx), and the native commands they *)
(* ask.  The commands on keys are synchronous: they are executed one after *)
(* the other, in the order of the calls, and so are they answered.  The    *)
(* others, on the local runtime, may be answered in any order.             *)
(* An event runs to its end, with the effects of the rendering it causes.  *)
(***************************************************************************)
EXTENDS Naturals, Sequences, SequencesExt

CONSTANTS Cloud,        \* providers that require an API key
          MaxChanges,   \* bound: starts, openings of the panel, changes of provider or runtime
          MaxAsked      \* bound: calls under way

ASSUME ProviderAssumption == "free" \notin Cloud /\ MaxChanges \in Nat /\ MaxAsked \in Nat

VARIABLES app,          \* "closed" or "running"
          stored,       \* the provider in local storage
          provider, url,  \* llmSettings: the provider, and whose base URL it has
          configured,   \* providerConfigured
          seen,         \* localAiStatus: the runtime was running when it was last read
          signed,       \* isSignedIn
          panel,        \* the panel: open, hasKey, isLoading
          keychain,     \* providers whose key is in the keychain of the system
          service,      \* the local runtime is running
          keys,         \* calls on keys, in order, with their result
          slow,         \* the other calls
          chosen,       \* history: the provider that was chosen last
          cleared,      \* history: providers whose key the panel said it cleared
          changes

llmSettings == <<stored, provider, url, chosen>>
native == <<keychain, service>>
settingsVars == <<app, llmSettings, configured, seen, signed, panel, native, keys, slow, cleared, changes>>

Default == "free"
Providers == Cloud \cup {Default}

Call(cmd, p, by, then) == [cmd |-> cmd, p |-> p, by |-> by, then |-> then, res |-> "none"]

\* checkApiKey and hasLlMProviderConfigured: what a check of provider p asks.
HasCall(p, by, then) == IF p \in Cloud THEN <<Call("has", p, by, then)>> ELSE <<>>
StatusCall(p, then) == IF p \in Cloud THEN <<>> ELSE <<Call("status", p, "app", then)>>
Refresh(p, then) == IF signed THEN <<Call("refresh", p, "app", then)>> ELSE <<>>

\* The base URL: that of a provider's definition, one typed for it, or that of
\* the managed runtime once its status is known.
Url(p, kind) == [of |-> p, kind |-> kind]
Binding(known) == Url(Default, IF known THEN "service" ELSE "default")

DefaultUrl(p) == IF p \in Cloud THEN Url(p, "default") ELSE Binding(seen)

ClosedPanel == [open |-> FALSE, hasKey |-> FALSE, isLoading |-> FALSE]

SettingsInit ==
  /\ app = "closed"
  /\ stored \in Providers /\ chosen = stored
  /\ provider = Default /\ url = Url(Default, "default")
  /\ configured = FALSE /\ seen = FALSE
  /\ signed \in BOOLEAN
  /\ panel = ClosedPanel
  /\ keychain = {} /\ service = FALSE
  /\ keys = <<>> /\ slow = <<>>
  /\ cleared = {} /\ changes = 0

Change == changes < MaxChanges /\ changes' = changes + 1
CanAsk == Len(keys) + Len(slow) < MaxAsked

(* The effects of the first rendering, in their order: the settings are     *)
(* persisted, the provider is checked, then the stored settings are loaded. *)
Start ==
  /\ app = "closed" /\ Change
  /\ app' = "running"
  /\ LET persisted == Default     \* useState starts with the default
         loaded == persisted
     IN stored' = persisted /\ provider' = loaded /\ url' = Url(loaded, "default")
  /\ configured' = FALSE /\ seen' = FALSE
  /\ keys' = <<>>
  /\ slow' = StatusCall(Default, FALSE) \o Refresh(Default, FALSE)
  /\ UNCHANGED <<signed, panel, native, chosen, cleared>>

Quit ==
  /\ app = "running"
  /\ app' = "closed" /\ panel' = ClosedPanel
  /\ keys' = <<>> /\ slow' = <<>>
  /\ UNCHANGED <<llmSettings, configured, seen, signed, native, cleared, changes>>

(* setLlmSettings with another provider, and the effects that follow: the   *)
(* panel checks the key ("asked": the panel's own calls), the settings are  *)
(* persisted, App checks the provider and, signed in, reads the runtime.    *)
(* Without a key to ask for the panel answers at once.                      *)
SetProvider(p, asked, ks, sl) ==
  /\ provider' = p /\ stored' = p /\ chosen' = p /\ url' = DefaultUrl(p)
  /\ panel' = [panel EXCEPT !.hasKey = p \in Cloud /\ @]
  /\ keys' = ks \o (IF panel.open THEN asked ELSE <<>>) \o HasCall(p, "app", FALSE)
  /\ slow' = sl \o StatusCall(p, FALSE) \o Refresh(p, FALSE)

(* The list of providers: onChange checks the key, and so does the effect.  *)
ChooseProvider(p) ==
  /\ panel.open /\ p # provider /\ Change /\ CanAsk
  /\ SetProvider(p, HasCall(p, "panel", FALSE) \o HasCall(p, "panel", FALSE), keys, slow)
  /\ UNCHANGED <<app, configured, seen, signed, native, cleared>>

EditUrl ==
  /\ panel.open /\ provider \in Cloud
  /\ url' = Url(provider, "typed")
  /\ UNCHANGED <<app, stored, provider, chosen, configured, seen, signed, panel, native, keys, slow,
                 cleared, changes>>

OpenPanel ==
  /\ app = "running" /\ ~panel.open /\ Change /\ CanAsk
  /\ panel' = [ClosedPanel EXCEPT !.open = TRUE]
  /\ keys' = keys \o HasCall(provider, "panel", FALSE)
  /\ UNCHANGED <<app, llmSettings, configured, seen, signed, native, slow, cleared>>

\* The answers to a panel that was closed are dropped.
Orphan(calls) == [i \in DOMAIN calls |-> IF calls[i].by = "app" THEN calls[i] ELSE [calls[i] EXCEPT !.by = "gone"]]

ClosePanel ==
  /\ panel.open
  /\ panel' = ClosedPanel
  /\ keys' = Orphan(keys) /\ slow' = Orphan(slow)
  /\ UNCHANGED <<app, llmSettings, configured, seen, signed, native, cleared, changes>>

(* The buttons Save, Clear and Test. *)
Button(cmd) ==
  /\ panel.open /\ ~panel.isLoading /\ CanAsk
  /\ panel' = [panel EXCEPT !.isLoading = TRUE]
  /\ keys' = Append(keys, Call(cmd, provider, "panel", FALSE))
  /\ UNCHANGED <<app, llmSettings, configured, seen, signed, native, slow, cleared, changes>>

HandleSaveKey == provider \in Cloud /\ Button("set")

HandleClearKey == provider \in Cloud /\ panel.hasKey /\ Button("clear")
TestKey == provider \in Cloud /\ panel.hasKey /\ Button("test")

TestFree ==
  /\ panel.open /\ ~panel.isLoading /\ provider = Default /\ CanAsk
  /\ panel' = [panel EXCEPT !.isLoading = TRUE]
  /\ slow' = Append(slow, Call("propose", provider, "panel", FALSE))
  /\ UNCHANGED <<app, llmSettings, configured, seen, signed, native, keys, cleared, changes>>

(* startFreeAiSetup, from the chat: the install, then refreshLocalAiState,  *)
(* then the default provider ("then" marks the calls it waits for).         *)
StartFreeAiSetup ==
  /\ app = "running" /\ signed /\ Change /\ CanAsk
  /\ \A i \in DOMAIN keys : ~keys[i].then
  /\ \A i \in DOMAIN slow : ~slow[i].then     \* localAiActionBusy
  /\ slow' = Append(slow, Call("refresh", provider, "app", TRUE))
  /\ UNCHANGED <<app, llmSettings, configured, seen, signed, panel, native, keys, cleared>>

-----------------------------------------------------------------------------
(* The native side. *)

Executed(c) == c.res # "none"
FirstWaiting(i) == ~Executed(keys[i]) /\ \A j \in 1..(i - 1) : Executed(keys[j])

(* set_llm_api_key, clear_llm_api_key and has_llm_api_key: the keychain may *)
(* refuse to write.                                                         *)
ExecuteKey(i) ==
  /\ FirstWaiting(i)
  /\ \E ok \in BOOLEAN :
       /\ keys[i].cmd \in {"has", "test"} => (ok <=> keys[i].p \in keychain)
       /\ keys' = [keys EXCEPT ![i].res = IF ok THEN "yes" ELSE "no"]
       /\ keychain' = CASE ok /\ keys[i].cmd = "set" -> keychain \cup {keys[i].p}
                        [] ok /\ keys[i].cmd = "clear" -> keychain \ {keys[i].p}
                        [] OTHER -> keychain
  /\ UNCHANGED <<app, llmSettings, configured, seen, signed, panel, service, slow, cleared, changes>>

ReadStatus(i) ==
  /\ slow[i].cmd \in {"status", "refresh"} /\ ~Executed(slow[i])
  /\ slow' = [slow EXCEPT ![i].res = IF service THEN "yes" ELSE "no"]
  /\ UNCHANGED <<app, llmSettings, configured, seen, signed, panel, native, keys, cleared, changes>>

ServiceChanges ==
  /\ Change
  /\ service' = ~service
  /\ UNCHANGED <<app, llmSettings, configured, seen, signed, panel, keychain, keys, slow, cleared>>

-----------------------------------------------------------------------------
(* The answers. *)

KeyAnswer(c) == keys # <<>> /\ keys[1] = c /\ Executed(c)

(* checkApiKey does not ask which provider is chosen now. *)
CheckAnswered(c) ==
  /\ KeyAnswer(c) /\ c.cmd = "has" /\ c.by = "panel"
  /\ panel' = [panel EXCEPT !.hasKey = c.res = "yes"]
  /\ keys' = Tail(keys)
  /\ UNCHANGED <<app, llmSettings, configured, seen, signed, native, slow, cleared, changes>>

(* Mutant: the key is taken as saved whatever the keychain answered. *)
SaveAnsweredAnyhow(c) ==
  /\ KeyAnswer(c) /\ c.cmd = "set" /\ c.by = "panel"
  /\ panel' = [panel EXCEPT !.hasKey = TRUE, !.isLoading = FALSE]
  /\ keys' = Tail(keys)
  /\ UNCHANGED <<app, llmSettings, configured, seen, signed, native, slow, cleared, changes>>

SaveAnswered(c) ==
  /\ KeyAnswer(c) /\ c.cmd = "set" /\ c.by = "panel"
  /\ panel' = [panel EXCEPT !.hasKey = @ \/ c.res = "yes", !.isLoading = FALSE]
  /\ keys' = Tail(keys)
  /\ cleared' = IF c.res = "yes" THEN cleared \ {c.p} ELSE cleared
  /\ UNCHANGED <<app, llmSettings, configured, seen, signed, native, slow, changes>>

(* handleClearKey does not look at the result. *)
ClearAnswered(c) ==
  /\ KeyAnswer(c) /\ c.cmd = "clear" /\ c.by = "panel"
  /\ panel' = [panel EXCEPT !.hasKey = FALSE, !.isLoading = FALSE]
  /\ keys' = Tail(keys)
  /\ cleared' = cleared \cup {c.p}
  /\ UNCHANGED <<app, llmSettings, configured, seen, signed, native, slow, changes>>

(* handleTest goes on with a request to the provider if there is a key. *)
TestAnswered(c) ==
  /\ KeyAnswer(c) /\ c.cmd = "test" /\ c.by = "panel"
  /\ keys' = Tail(keys)
  /\ IF c.res = "yes"
     THEN slow' = Append(slow, Call("propose", c.p, "panel", FALSE)) /\ UNCHANGED panel
     ELSE panel' = [panel EXCEPT !.isLoading = FALSE] /\ UNCHANGED slow
  /\ UNCHANGED <<app, llmSettings, configured, seen, signed, native, cleared, changes>>

GoneAnswered(c) ==
  /\ KeyAnswer(c) /\ c.by = "gone"
  /\ keys' = Tail(keys)
  /\ UNCHANGED <<app, llmSettings, configured, seen, signed, panel, native, slow, cleared, changes>>

(* The last await of a check: setProviderConfigured with the answer, for    *)
(* whichever provider it was asked; a set-up then selects the default one.  *)
Checked(c, ks, sl) ==
  /\ configured' = (c.res = "yes")
  /\ IF c.then /\ provider # Default
     THEN SetProvider(Default, <<>>, ks, sl)
     ELSE keys' = ks /\ slow' = sl /\ UNCHANGED <<llmSettings, panel>>
  /\ UNCHANGED <<app, seen, signed, native, cleared, changes>>

HasAnswered(c) == KeyAnswer(c) /\ c.by = "app" /\ Checked(c, Tail(keys), slow)

StatusAnswered(i) ==
  /\ slow[i].cmd = "status" /\ Executed(slow[i])
  /\ Checked(slow[i], keys, RemoveAt(slow, i))

(* refreshLocalAiState has the runtime's status: the URL of Free AI follows *)
(* it, a change of runtimeRunning checks the provider again, and the        *)
(* refresh goes on with a check of the provider it was started for.         *)
RefreshAnswered(i) ==
  /\ slow[i].cmd = "refresh" /\ Executed(slow[i])
  /\ LET now == slow[i].res = "yes"
         p == slow[i].p
         again == now # seen
     IN /\ seen' = now
        /\ url' = IF provider = Default THEN Binding(now) ELSE url
        /\ keys' = keys \o HasCall(p, "app", slow[i].then)
                        \o (IF again THEN HasCall(provider, "app", FALSE) ELSE <<>>)
        /\ slow' = RemoveAt(slow, i) \o StatusCall(p, slow[i].then)
                        \o (IF again THEN StatusCall(provider, FALSE) ELSE <<>>)
  /\ UNCHANGED <<app, stored, provider, chosen, configured, signed, panel, native, cleared, changes>>

ProposeAnswered(i) ==
  /\ slow[i].cmd = "propose"
  /\ slow' = RemoveAt(slow, i)
  /\ panel' = IF slow[i].by = "panel" THEN [panel EXCEPT !.isLoading = FALSE] ELSE panel
  /\ UNCHANGED <<app, llmSettings, configured, seen, signed, native, keys, cleared, changes>>

SettingsNext ==
  \/ Start \/ Quit \/ OpenPanel \/ ClosePanel \/ EditUrl
  \/ \E p \in Providers : ChooseProvider(p)
  \/ HandleSaveKey \/ HandleClearKey \/ TestKey \/ TestFree \/ StartFreeAiSetup \/ ServiceChanges
  \/ \E i \in DOMAIN keys :
       \/ ExecuteKey(i)
       \/ i = 1 /\ \/ CheckAnswered(keys[i]) \/ SaveAnswered(keys[i]) \/ ClearAnswered(keys[i])
                   \/ TestAnswered(keys[i]) \/ GoneAnswered(keys[i]) \/ HasAnswered(keys[i])
  \/ \E i \in DOMAIN slow :
       ReadStatus(i) \/ StatusAnswered(i) \/ RefreshAnswered(i) \/ ProposeAnswered(i)

SettingsSpec == SettingsInit /\ [][SettingsNext]_settingsVars

-----------------------------------------------------------------------------
CallType(cmds) == [cmd : cmds, p : Providers, by : {"app", "panel", "gone"}, then : BOOLEAN,
                   res : {"none", "yes", "no"}]

\* Types of the settings, the panel and the calls.
SettingsTypeOK ==
  /\ app \in {"closed", "running"} /\ {stored, provider, chosen} \subseteq Providers
  /\ url \in [of : Providers, kind : {"default", "typed", "service"}]
  /\ {configured, seen, signed, service} \subseteq BOOLEAN
  /\ panel \in [open : BOOLEAN, hasKey : BOOLEAN, isLoading : BOOLEAN]
  /\ keychain \subseteq Cloud /\ cleared \subseteq Cloud
  /\ keys \in Seq(CallType({"has", "set", "clear", "test"}))
  /\ slow \in Seq(CallType({"status", "refresh", "propose"}))

OfPanel(calls) == {i \in DOMAIN calls : calls[i].by = "panel"}

(* However the provider is changed while keys are checked, saved, cleared   *)
(* and tested, once the panel has all its answers the mark "Saved" beside   *)
(* the field of a provider means that its key is in the keychain.           *)
SavedIsSaved ==
  panel.open /\ provider \in Cloud /\ OfPanel(keys) = {} /\ panel.hasKey => provider \in keychain

(* The base URL is always one of the chosen provider: a request with the    *)
(* key of a provider never goes to the URL of another, nor to that of the   *)
(* local runtime.                                                           *)
UrlIsProviders == app = "running" => url.of = provider /\ (provider = Default => url = Binding(seen))

(* The panel has one button under way at most, and its buttons are disabled *)
(* exactly as long.                                                         *)
OneButton ==
  LET buttons == {<<"k", i>> : i \in {j \in OfPanel(keys) : keys[j].cmd # "has"}}
                   \cup {<<"s", i>> : i \in OfPanel(slow)}
  IN /\ \A b, c \in buttons : b = c
     /\ panel.isLoading <=> buttons # {}

(* App.tsx, on start: "// Load LLM settings".  The provider that was chosen *)
(* last is the one in use.                                                  *)
ChoiceIsKept == app = "running" => provider = chosen

(* taskReadiness.ts: "Provider not configured" when providerConfigured is   *)
(* false.  With every call answered it says whether there is a key.         *)
ConfiguredIsCurrent ==
  app = "running" /\ provider \in Cloud /\ keys = <<>> /\ slow = <<>>
    => (configured <=> provider \in keychain)

(* SettingsPanel.tsx: "API key cleared".  With nothing under way such a key *)
(* is not in the keychain.                                                  *)
ClearedIsGone == keys = <<>> => cleared \cap keychain = {}
=============================================================================
