--------------------------------- MODULE Passkeys ---------------------------------
(***************************************************************************)
(* Passkeys in the browser (webauthn.js) and the ceremonies' handlers       *)
(* (internal/auth). A ceremony is begin, a prompt of the browser, finish:   *)
(* the server keeps one challenge per session, the browser one prompt. The  *)
(* sign-in page prompts by itself as well; no button is disabled while its  *)
(* ceremony runs. What an authenticator signs, and the browser that refuses *)
(* a second prompt, are external.                                           *)
(***************************************************************************)
EXTENDS Naturals, FiniteSets

CONSTANTS MaxCeremonies, MaxVisits      \* bounds: of both over all visits

ASSUME PasskeyAssumption == MaxCeremonies \in Nat /\ MaxVisits \in Nat

VARIABLES
    webauthn, conditional, platform,    \* what the browser and device can do
    page,           \* "none", "signin", "signup", "account"
    autoTried,      \* this visit's automatic prompt was started
    conditionalAbort,   \* the ceremony that can be aborted, 0 is null
    emphasis,       \* how the sign-up form was adapted; "collapsed" is without password
    visits,
    kind, at,       \* of each ceremony: what it is for (the server knows better), how far
    from,           \* the first ceremony of this visit
    stash,          \* the session's ceremony: wa_data, 0 without
    newName,        \* wa_new_username: a name waits for its account
    signedIn, fresh,    \* the session's login and its reauthentication
    redirected, submitted,  \* history: a page moved on, a form was submitted
    clean, lost     \* history: pressed with nothing else going on; and yet failed

deviceVars == <<webauthn, conditional, platform>>
pageVars == <<page, autoTried, visits, from, emphasis>>
sessionVars == <<stash, newName, signedIn, fresh>>
historyVars == <<redirected, submitted, clean, lost>>
vars == <<deviceVars, pageVars, conditionalAbort, kind, at, sessionVars, historyVars>>

Ceremonies == 1..MaxCeremonies
Kinds == {"conditional", "optional", "login", "signup", "add", "reauth"}
Discoverable == {"conditional", "optional"}
Registering == {"signup", "add"}

Init ==
    /\ webauthn \in BOOLEAN /\ conditional \in BOOLEAN /\ platform \in BOOLEAN
    /\ page = "none" /\ autoTried = FALSE /\ visits = 0 /\ from = 1
    /\ emphasis = "rendered" /\ conditionalAbort = 0
    /\ kind = [c \in Ceremonies |-> "none"] /\ at = [c \in Ceremonies |-> "unused"]
    /\ stash = 0 /\ newName = FALSE /\ signedIn \in BOOLEAN /\ fresh = FALSE
    /\ redirected = FALSE /\ submitted = FALSE
    /\ clean = {} /\ lost = {}

\* password.disabled
PasswordOff == emphasis = "collapsed"

Over(c) == at[c] \in {"unused", "ended"}
Asking == {c \in Ceremonies : at[c] = "ask"}

\* Leaving a page ends what runs in it; a request on its way arrives all the
\* same. The state of each ceremony afterwards, and after the server's answer.
Abandoned ==
    [c \in Ceremonies |-> IF at[c] \in {"unused", "begin", "finish"} THEN at[c] ELSE "ended"]

Answered(c, answer) == [at EXCEPT ![c] = IF c < from THEN "ended" ELSE answer]

-----------------------------------------------------------------------------
(* Starting a ceremony. A press is clean when nothing but an automatic      *)
(* prompt that is showing stands in its way.                                *)
Start(c, k, others) ==
    /\ \A d \in Ceremonies : (at[d] = "unused") <=> (d >= c)
    /\ kind' = [kind EXCEPT ![c] = k]
    /\ at' = [others EXCEPT ![c] = "begin"]

ClearToPress ==
    /\ page = "signin" /\ webauthn /\ conditional => autoTried
    /\ \A d \in Ceremonies : Over(d) \/ (at[d] = "ask" /\ kind[d] = "conditional")

Press(c, k, others) ==
    /\ Start(c, k, others)
    /\ clean' = IF ClearToPress THEN {c} ELSE {}
    /\ UNCHANGED <<deviceVars, pageVars, sessionVars, redirected, submitted, lost>>

\* initSigninPasskey: the automatic prompt, once conditional mediation is known.
AutoPrompt(c) ==
    /\ page = "signin" /\ webauthn /\ conditional /\ ~autoTried
    /\ autoTried' = TRUE
    /\ Start(c, "conditional", at)
    /\ UNCHANGED <<deviceVars, page, visits, from, emphasis, conditionalAbort, sessionVars,
                   historyVars>>

\* Slip: the automatic prompt is not aborted.
PasskeyButtonAlone(c, k) ==
    /\ page = "signin" /\ webauthn /\ k \in {"optional", "login"}
    /\ Press(c, k, at)
    /\ UNCHANGED conditionalAbort

\* "Sign in with a passkey": k is "login" when a username is typed.
PasskeyButton(c, k) ==
    /\ page = "signin" /\ webauthn /\ k \in {"optional", "login"}
    /\ Press(c, k, [d \in Ceremonies |->
                        IF d = conditionalAbort /\ at[d] = "ask" THEN "ended" ELSE at[d]])
    /\ conditionalAbort' = 0

\* passkeyRegister, addPasskey and reauthPasskey.
PageButton(c, k) ==
    /\ \/ page = "signup" /\ webauthn /\ k = "signup"
       \/ page = "account" /\ k \in {"add", "reauth"}
    /\ Press(c, k, at)
    /\ UNCHANGED conditionalAbort

-----------------------------------------------------------------------------
(* The server begins a ceremony: its challenge replaces the session's. A    *)
(* bad or taken username, no passkey or an error of the store refuses it:   *)
(* the last two steps of a sign-up's begin may fail with its name kept.     *)
NewAccount(c) == kind[c] = "signup" /\ ~signedIn

ServerRefusesBegin(c) ==
    /\ at[c] = "begin" /\ at' = Answered(c, "refused")
    /\ newName' \in {newName, newName \/ NewAccount(c)}
    /\ clean' = clean \ {c}
    /\ UNCHANGED <<deviceVars, pageVars, conditionalAbort, kind, stash, signedIn, fresh,
                   redirected, submitted, lost>>

\* In a session that has signed in meanwhile, a sign-up is one passkey more for
\* the account.
ServerBegins(c) ==
    /\ at[c] = "begin" /\ at' = Answered(c, "options")
    /\ kind[c] \in {"add", "reauth"} => signedIn
    /\ stash' = c /\ newName' = (newName \/ NewAccount(c))
    /\ kind' = [kind EXCEPT ![c] = IF @ = "signup" /\ signedIn THEN "add" ELSE @]
    /\ UNCHANGED <<deviceVars, pageVars, conditionalAbort, signedIn, fresh, historyVars>>

\* The options arrive and the browser is asked for a credential: it refuses
\* while another prompt is open.
Prompt(c) ==
    /\ at[c] = "options"
    /\ at' = [at EXCEPT ![c] = IF Asking = {} THEN "ask" ELSE "refused"]
    /\ lost' = IF Asking = {} THEN lost ELSE lost \union {c}
    /\ conditionalAbort' = IF kind[c] = "conditional" THEN c ELSE conditionalAbort
    /\ UNCHANGED <<deviceVars, pageVars, kind, sessionVars, redirected, submitted, clean>>

\* The user picks a credential, or dismisses the prompt or lets it time out.
Pick(c) ==
    /\ at[c] = "ask" /\ at' = [at EXCEPT ![c] = "finish"]
    /\ UNCHANGED <<deviceVars, pageVars, conditionalAbort, kind, sessionVars, historyVars>>

Dismiss(c) ==
    /\ at[c] = "ask" /\ at' = [at EXCEPT ![c] = "refused"]
    /\ UNCHANGED <<deviceVars, pageVars, conditionalAbort, kind, sessionVars, historyVars>>

-----------------------------------------------------------------------------
(* The server finishes a ceremony: it takes the session's challenge, and     *)
(* only a credential signed for that one can verify. A discoverable begin    *)
(* has removed the user id the other finishes ask for.                       *)
Popped(c) ==
    IF stash # 0 /\ (kind[c] \in Discoverable \/ kind[stash] \notin Discoverable)
    THEN stash ELSE 0

Registered(c) ==
    Popped(c) = c /\ (kind[c] = "signup" <=> newName)

Verifies(c) == IF kind[c] \in Registering THEN Registered(c) ELSE Popped(c) = c

TakeCeremony(c) ==
    /\ stash' = IF Popped(c) = 0 THEN stash ELSE 0
    /\ newName' = (newName /\ ~(kind[c] \in Registering /\ Popped(c) # 0))

ServerFinishes(c) ==
    /\ at[c] = "finish" /\ Verifies(c)
    /\ at' = Answered(c, "accepted")
    /\ TakeCeremony(c)
    /\ signedIn' = (signedIn \/ kind[c] # "reauth")
    /\ fresh' = (fresh \/ kind[c] = "reauth")
    /\ UNCHANGED <<deviceVars, pageVars, conditionalAbort, kind, historyVars>>

\* It does not verify, or something else fails: the credential, the store.
ServerRefusesFinish(c) ==
    /\ at[c] = "finish"
    /\ at' = Answered(c, "refused")
    /\ TakeCeremony(c)
    /\ lost' = IF Popped(c) # c THEN lost \union {c} ELSE lost
    /\ UNCHANGED <<deviceVars, pageVars, conditionalAbort, kind, signedIn, fresh,
                   redirected, submitted, clean>>

-----------------------------------------------------------------------------
\* A page is left: nothing of it runs on.
Leave(p) ==
    /\ from' = Cardinality({c \in Ceremonies : at[c] # "unused"}) + 1
    /\ page' = p /\ autoTried' = FALSE /\ conditionalAbort' = 0
    /\ emphasis' = "rendered"
    /\ clean' = {}

\* The page hears that it was accepted: it moves on, or submits the form that
\* asked for the verification, unless its confirmation is declined.
Accepted(c) ==
    /\ at[c] = "accepted"
    /\ IF kind[c] = "reauth"
       THEN submitted' = TRUE /\ UNCHANGED redirected
       ELSE redirected' = TRUE /\ UNCHANGED submitted
    /\ at' = Abandoned
    /\ Leave("none")
    /\ UNCHANGED <<deviceVars, visits, kind, sessionVars, lost>>

DeclineForm(c) ==
    /\ at[c] = "accepted" /\ kind[c] = "reauth"
    /\ at' = [at EXCEPT ![c] = "ended"]
    /\ UNCHANGED <<deviceVars, pageVars, conditionalAbort, kind, sessionVars, historyVars>>

\* Slip: the answer's status is not looked at.
RefusedMovesOn(c) ==
    /\ at[c] = "refused" /\ at' = Abandoned
    /\ IF kind[c] = "reauth"
       THEN submitted' = TRUE /\ UNCHANGED redirected
       ELSE redirected' = TRUE /\ UNCHANGED submitted
    /\ Leave("none")
    /\ UNCHANGED <<deviceVars, visits, kind, sessionVars, lost>>

\* Slip: only the automatic prompt's failure is caught.
RefusedQuietly(c) ==
    /\ at[c] = "refused" /\ kind[c] = "conditional"
    /\ at' = [at EXCEPT ![c] = "ended"]
    /\ UNCHANGED <<deviceVars, pageVars, conditionalAbort, kind, sessionVars, historyVars>>

\* It was refused: the status line says so, except of the automatic prompt.
Refused(c) ==
    /\ at[c] = "refused" /\ at' = [at EXCEPT ![c] = "ended"]
    /\ UNCHANGED <<deviceVars, pageVars, conditionalAbort, kind, sessionVars, historyVars>>

-----------------------------------------------------------------------------
(* The pages.                                                               *)
Visit(p) ==
    /\ visits < MaxVisits /\ visits' = visits + 1
    /\ IF signedIn THEN p = "account" ELSE p \in {"signin", "signup"}
    /\ at' = Abandoned /\ Leave(p)
    /\ UNCHANGED <<deviceVars, kind, sessionVars, redirected, submitted, lost>>

\* Slip: without WebAuthn the form is adapted all the same.
DecideEmphasisAnyway ==
    /\ page = "signup" /\ emphasis = "rendered"
    /\ emphasis' = IF platform THEN "collapsed" ELSE "unchanged"
    /\ UNCHANGED <<deviceVars, page, autoTried, visits, from, conditionalAbort, kind, at,
                   sessionVars, historyVars>>

\* initSignupEmphasis, when the browser has answered what the device can do.
DecideEmphasis ==
    /\ page = "signup" /\ emphasis = "rendered"
    /\ emphasis' = CASE ~webauthn -> "unsupported"
                     [] webauthn /\ platform -> "collapsed"
                     [] OTHER -> "unchanged"
    /\ UNCHANGED <<deviceVars, page, autoTried, visits, from, conditionalAbort, kind, at,
                   sessionVars, historyVars>>

UsePassword ==
    /\ PasswordOff /\ emphasis' = "expanded"
    /\ UNCHANGED <<deviceVars, page, autoTried, visits, from, conditionalAbort, kind, at,
                   sessionVars, historyVars>>

\* Enter in the collapsed form presses the passkey button.
SubmitCollapsed(c) == page = "signup" /\ PasswordOff /\ PageButton(c, "signup")

\* The form's password signs in: the session's other values stay.
PasswordSignIn ==
    /\ page \in {"signin", "signup"} /\ ~PasswordOff
    /\ signedIn' = TRUE
    /\ at' = Abandoned /\ Leave("none")
    /\ UNCHANGED <<deviceVars, visits, kind, stash, newName, fresh, redirected, submitted,
                   lost>>

-----------------------------------------------------------------------------
ServerStep(c) ==
    \/ ServerRefusesBegin(c) \/ ServerBegins(c)
    \/ ServerFinishes(c) \/ ServerRefusesFinish(c)

PageStep(c) ==
    \/ Prompt(c) \/ Accepted(c) \/ DeclineForm(c) \/ Refused(c)

UserStep(c) == Pick(c) \/ Dismiss(c)

Next ==
    \/ \E c \in Ceremonies :
          \/ AutoPrompt(c) \/ SubmitCollapsed(c)
          \/ \E k \in Kinds : PasskeyButton(c, k) \/ PageButton(c, k)
          \/ ServerStep(c) \/ PageStep(c) \/ UserStep(c)
    \/ \E p \in {"signin", "signup", "account"} : Visit(p)
    \/ DecideEmphasis \/ UsePassword \/ PasswordSignIn

\* Requests are answered, promises settle, and the browser lets a prompt a
\* user asked for time out; nobody has to take up the automatic one.
Fairness ==
    \A c \in Ceremonies :
        /\ WF_vars(ServerStep(c)) /\ WF_vars(PageStep(c))
        /\ WF_vars(kind[c] # "conditional" /\ UserStep(c))

Spec == Init /\ [][Next]_vars /\ Fairness

-----------------------------------------------------------------------------
\* The types; one prompt is open at a time; and who cannot use a passkey is
\* left the password (initSignupEmphasis: the three states).
TypeOK ==
    /\ webauthn \in BOOLEAN /\ conditional \in BOOLEAN /\ platform \in BOOLEAN
    /\ page \in {"none", "signin", "signup", "account"}
    /\ autoTried \in BOOLEAN
    /\ emphasis \in {"rendered", "unsupported", "unchanged", "collapsed", "expanded"}
    /\ visits \in 0..MaxVisits /\ from \in 1..(MaxCeremonies + 1)
    /\ conditionalAbort \in Ceremonies \union {0}
    /\ kind \in [Ceremonies -> Kinds \union {"none"}]
    /\ at \in [Ceremonies -> {"unused", "begin", "options", "ask", "finish", "accepted",
                              "refused", "ended"}]
    /\ stash \in Ceremonies \union {0} /\ newName \in BOOLEAN
    /\ signedIn \in BOOLEAN /\ fresh \in BOOLEAN
    /\ redirected \in BOOLEAN /\ submitted \in BOOLEAN
    /\ clean \subseteq Ceremonies /\ lost \subseteq Ceremonies
    /\ \A c, d \in Asking : c = d
    /\ PasswordOff => webauthn /\ page = "signup"

\* A page moves on only into a session that is signed in, and the form behind a
\* verification is submitted only when the server took the session's own
\* challenge as signed (finishAssertion, reauthPasskey).
MovesOnWhenVerified ==
    /\ redirected => signedIn
    /\ submitted => fresh

\* Who presses a passkey button while nothing else runs, the automatic prompt
\* that is showing excepted, gets a prompt of their own, and the challenge it is
\* for is still the session's when it is signed (passkeyButton's abort).
PressIsServed == clean \intersect lost = {}

\* A ceremony that was asked for comes to an end, and the page says so.
CeremoniesEnd ==
    \A c \in Ceremonies :
        at[c] = "begin" /\ kind[c] # "conditional" ~> at[c] = "ended"

\* "A pending username marks a new-account ceremony; its absence means we're
\* adding a passkey to an existing account" (RegisterFinish).
PendingNameMarksSignup ==
    \A c \in Ceremonies : stash = c /\ kind[c] = "add" => ~newName

=============================================================================
