------------------------------- MODULE Secrets ------------------------------
(***************************************************************************)
(* The secrets of one step: how its owner sets them -- by logging in at an *)
(* OAuth service, in windows that server/views/oauth.py opens and to which *)
(* the service returns, or by typing a text (server/handlers/step.py) --   *)
(* and what a fetch() gets of them (fetcher/secrets.py).  OAuth services   *)
(* are external.  Meanwhile module versions change what a parameter is, and*)
(* deployments which services there are.                                   *)
(***************************************************************************)
EXTENDS Naturals, Sequences

CONSTANTS Params,
          Kinds,      \* what Params may be in a module version: a set of functions
          MaxLogins,  \* bound: windows
          MaxChanges  \* bound: what users, modules and deployments change otherwise

Oauth1a == "twitter"
Oauth2  == "google"     \* gives refresh tokens; access tokens expire
Services == {Oauth1a, Oauth2}
Text == "string"

None == [of |-> "none"]

VARIABLES
  spec,       \* spec[p]: what p is in the latest version: of Services, Text or "none"
  configured, \* settings.OAUTH_SERVICES
  live,       \* the step is not deleted
  secrets,    \* step.secrets[p]: None or [of, login], what it is and whence
  windows,    \* at the service: the parameter each login is for, and where: [param, service]
  session,    \* request.session["oauth-flow"]: its login, 0 if there is none
  finishing,  \* finish_authorize() with a token: [scope, of, login], or None
  fetching,   \* a fetch: idle; loaded [spec, secrets]; prepared [spec, given]; raised [by]
  upgraded, crossed, misplaced, \* did a module version change, a login begin before another of
              \* the session ended, a text become the secret of another parameter? (auxiliary)
  changes

vars == <<spec, configured, live, secrets, windows, session, finishing, fetching, upgraded,
          crossed, misplaced, changes>>

Idle == [at |-> "idle"]

Init ==
  /\ spec \in Kinds /\ configured = Services /\ live = TRUE
  /\ secrets = [p \in Params |-> None] /\ windows = <<>> /\ session = 0
  /\ finishing = None /\ fetching = Idle /\ changes = 0
  /\ upgraded = FALSE /\ crossed = FALSE /\ misplaced = FALSE

Changing == changes < MaxChanges /\ changes' = changes + 1

-----------------------------------------------------------------------------
(* _load_step_and_service(); _lookup_service() is the same.                *)
IsOauth(p) == live /\ spec[p] \in configured

Open(p) == [param |-> p, service |-> spec[p], open |-> TRUE]

(* Mutant: the flow that is in the session stays there.                    *)
StartAuthorizeOnce(p) ==
  /\ Len(windows) < MaxLogins /\ IsOauth(p)
  /\ windows' = Append(windows, Open(p))
  /\ session' = IF session = 0 THEN Len(windows') ELSE session
  /\ crossed' = (crossed \/ \E i \in DOMAIN windows : windows[i].open)
  /\ UNCHANGED <<spec, configured, live, secrets, finishing, fetching, upgraded, misplaced,
                 changes>>

(* start_authorize(): the session has one flow, that of the last window.   *)
StartAuthorize(p) ==
  /\ Len(windows) < MaxLogins /\ IsOauth(p)
  /\ windows' = Append(windows, Open(p)) /\ session' = Len(windows')
  /\ crossed' = (crossed \/ \E i \in DOMAIN windows : windows[i].open)
  /\ UNCHANGED <<spec, configured, live, secrets, finishing, fetching, upgraded, misplaced,
                 changes>>

(* finish_authorize(), until there is a token: it is got from the service  *)
(* that the session names, which gives none for what another service -- or,*)
(* in OAuth 1.0a, another request token -- authorized.                     *)
AcquireToken(n) ==
  LET flow == windows[session] IN
  /\ windows[n].open /\ windows' = [windows EXCEPT ![n].open = FALSE]
  /\ finishing = None
  /\ finishing' = IF /\ flow.service \in configured /\ flow.service = windows[n].service
                     /\ flow.service = Oauth1a => n = session
                  THEN [param |-> flow.param, of |-> flow.service, login |-> n]
                  ELSE None
  /\ UNCHANGED <<spec, configured, live, secrets, session, fetching, upgraded, crossed,
                 misplaced, changes>>

Token == [of |-> finishing.of, login |-> finishing.login]

(* The rest of finish_authorize(), under the workflow's lock: the step must*)
(* be there and the parameter some OAuth service's, if not the same's.     *)
SaveToken ==
  /\ finishing # None /\ finishing' = None
  /\ secrets' = IF IsOauth(finishing.param)
                THEN [secrets EXCEPT ![finishing.param] = Token] ELSE secrets
  /\ UNCHANGED <<spec, configured, live, windows, session, fetching, upgraded, crossed,
                 misplaced, changes>>

-----------------------------------------------------------------------------
(* set_secret(), of a step that was there when it was looked up: that some *)
(* parameter is a text's will do.                                          *)
SetSecret(p) ==
  /\ \E q \in Params : spec[q] = Text
  /\ Changing /\ secrets' = [secrets EXCEPT ![p] = [of |-> Text, login |-> 0]]
  /\ misplaced' = (misplaced \/ spec[p] # Text)
  /\ UNCHANGED <<spec, configured, live, windows, session, finishing, fetching, upgraded,
                 crossed>>

DeleteSecret(p) ==
  /\ secrets[p] # None /\ Changing /\ secrets' = [secrets EXCEPT ![p] = None]
  /\ UNCHANGED <<spec, configured, live, windows, session, finishing, fetching, upgraded,
                 crossed, misplaced>>

(* A new module version; a deployment, which replaces all processes; and   *)
(* DeleteStep or its undo.                                                 *)
Upgrade ==
  /\ Changing /\ spec' \in Kinds \ {spec} /\ upgraded' = TRUE
  /\ UNCHANGED <<configured, live, secrets, windows, session, finishing, fetching, crossed,
                 misplaced>>

Deploy ==
  /\ Changing /\ configured' \in {Services, {Oauth1a}, {Oauth2}} \ {configured}
  /\ finishing' = None /\ fetching' = Idle
  /\ UNCHANGED <<spec, live, secrets, windows, session, upgraded, crossed, misplaced>>

DeleteOrUndo ==
  /\ Changing /\ live' = ~live
  /\ UNCHANGED <<spec, configured, secrets, windows, session, finishing, fetching, upgraded,
                 crossed, misplaced>>

-----------------------------------------------------------------------------
(* fetch(): the step and its module are loaded; prepare_secrets() asks     *)
(* services for access tokens, one parameter after the other.              *)

BeginFetch ==
  /\ fetching = Idle /\ live /\ fetching' = [at |-> "loaded", spec |-> spec, secrets |-> secrets]
  /\ UNCHANGED <<spec, configured, live, secrets, windows, session, finishing, upgraded,
                 crossed, misplaced, changes>>

(* A text has no get(), for either protocol, but AttributeError.           *)
PrepareString(value) == {IF value.of = Text THEN "text" ELSE "odd"}

PrepareOauth1a(value) ==
  {IF value.of = Text THEN "raise" ELSE IF value.of = Oauth1a THEN "keys" ELSE "odd"}

(* The service may refuse, be down or not answer, which are errors.  What  *)
(* it sends as JSON may be no JSON, or no object: nobody catches what that *)
(* raises.  Or an object without a token, which is passed on as it is.     *)
RefreshOauth2Token == {"token", "error", "tokenless", "garbled"}

PrepareOauth2(value) ==
  CASE value.of = Text   -> {"raise"}
    [] value.of = Oauth2 -> RefreshOauth2Token
    [] OTHER             -> {"odd"} \* without refresh_token, and without any token

(* prepare_secret(): the results that are possible.                        *)
PrepareSecret(kind, value) ==
  IF value = None THEN {"nothing"}
  ELSE IF kind = Text THEN PrepareString(value)
  ELSE IF kind \notin configured THEN {"error"}
  ELSE IF kind = Oauth1a THEN PrepareOauth1a(value) ELSE PrepareOauth2(value)

SecretParams(fields) == {p \in Params : fields[p] # "none"}

(* What prepare_secrets() lets out: AttributeError, and ValueError and the *)
(* like of a garbled answer.                                               *)
Uncaught == {"raise", "garbled"}

(* Whether one refresh fails says nothing of another; what one raises ends *)
(* the preparation, and with it fetch(): nothing is given for any.         *)
PrepareSecrets ==
  LET results == [p \in SecretParams(fetching.spec) |->
                    PrepareSecret(fetching.spec[p], fetching.secrets[p])]
  IN  /\ fetching.at = "loaded"
      /\ \E given \in [DOMAIN results -> UNION {results[p] : p \in DOMAIN results}] :
           /\ \A p \in DOMAIN given : given[p] \in results[p]
           /\ \/ /\ \A p \in DOMAIN given : given[p] \notin Uncaught
                 /\ fetching' = [at |-> "prepared", spec |-> fetching.spec, given |-> given]
              \/ \E p \in DOMAIN given :
                   given[p] \in Uncaught /\ fetching' = [at |-> "raised", by |-> given[p]]
      /\ UNCHANGED <<spec, configured, live, secrets, windows, session, finishing, upgraded,
                     crossed, misplaced, changes>>

(* The fetch goes on with what it was given; or nobody catches what was    *)
(* raised.                                                                 *)
EndFetch ==
  /\ fetching.at \in {"prepared", "raised"} /\ fetching' = Idle
  /\ UNCHANGED <<spec, configured, live, secrets, windows, session, finishing, upgraded,
                 crossed, misplaced, changes>>

Next ==
  \/ \E p \in Params : StartAuthorize(p) \/ SetSecret(p) \/ DeleteSecret(p)
  \/ \E n \in DOMAIN windows : AcquireToken(n)
  \/ SaveToken \/ Upgrade \/ Deploy \/ DeleteOrUndo
  \/ BeginFetch \/ PrepareSecrets \/ EndFetch

Spec == Init /\ [][Next]_vars

-----------------------------------------------------------------------------
(* What the author of a fetch is told to expect; and {token_type: None,    *)
(* access_token: None}, of a service that answered 200 without a token.    *)
Expected(kind) ==
  {"nothing"} \cup CASE kind = Text    -> {"text"}
                     [] kind = Oauth1a -> {"keys", "error"}
                     [] OTHER          -> {"token", "error", "tokenless"}

(* A login's token is the secret of the parameter that the login was for,  *)
(* unless the user began it in OAuth 2 while another window was open (the  *)
(* session has forgotten which was which); it is of the service that the   *)
(* parameter names, and a fetch gets for each parameter what its kind of   *)
(* secret may give, unless a module version has changed what the parameter *)
(* is since the login began.                                               *)
(* The preparation does not always end well, though prepare_secrets()      *)
(* "should recover from all errors": it raises if set_secret() has made a  *)
(* text the secret of an OAuth parameter, since the module has a text      *)
(* somewhere, or if a service sends as JSON what is none or no object --   *)
(* "an error parsing the server's refresh-token response", of which it is  *)
(* said to make an "error".  It raises for nothing else.                   *)
SecretsFitTheirParams ==
  /\ \A p \in Params :
       secrets[p].of \in Services =>
         /\ windows[secrets[p].login].param # p => crossed /\ secrets[p].of = Oauth2
         /\ ~upgraded => spec[p] = secrets[p].of
  /\ fetching.at = "prepared" /\ ~upgraded =>
       \A p \in DOMAIN fetching.given : fetching.given[p] \in Expected(fetching.spec[p])
  /\ fetching.at = "raised" /\ ~upgraded => misplaced \/ fetching.by = "garbled"
=============================================================================
