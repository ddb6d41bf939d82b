-------------------------------- MODULE PasskeyProofs --------------------------------
(***************************************************************************)
(* What is proved of Passkeys, for any number of ceremonies and of visits: *)
(* the types and the one open prompt, that a page moves on only when the    *)
(* server verified, and that an undisturbed press is served.                *)
(***************************************************************************)
EXTENDS Passkeys, FiniteSetTheorems, TLAPS

States == {"unused", "begin", "options", "ask", "finish", "accepted", "refused", "ended"}

\* Ceremonies are started in the order of their numbers.
InOrder == \A c, d \in Ceremonies : at[c] # "unused" /\ d <= c => at[d] # "unused"

\* What the server accepted, the session shows.
AcceptedShows ==
    \A c \in Ceremonies :
        at[c] = "accepted" => IF kind[c] = "reauth" THEN fresh ELSE signedIn

\* The automatic prompt is one, of the sign-in page being shown; the prompt that
\* is open is the one that can be aborted.
Automatic(c) ==
    /\ kind[c] = "conditional"
    /\ at[c] \in {"options", "ask"} \/ (at[c] = "begin" /\ c >= from)

OneAutomatic ==
    /\ \A c \in Ceremonies : Automatic(c) => page = "signin" /\ autoTried
    /\ \A c, d \in Ceremonies : Automatic(c) /\ Automatic(d) => c = d
    /\ \A c \in Ceremonies : Automatic(c) /\ at[c] = "ask" => conditionalAbort = c

\* A clean press has the page to itself, and the session's challenge.
Undisturbed ==
    /\ \A c \in clean :
        /\ at[c] # "unused"
        /\ \A d \in Ceremonies \ {c} : Over(d)
        /\ page = "signin" /\ webauthn /\ conditional => autoTried
        /\ at[c] \in {"options", "ask", "finish"} => stash = c
    /\ \A c \in lost : at[c] # "unused"

IInv ==
    /\ TypeOK /\ MovesOnWhenVerified /\ PressIsServed
    /\ InOrder /\ AcceptedShows /\ OneAutomatic /\ Undisturbed

-----------------------------------------------------------------------------
\* An initial part of the numbers up to N has as many members as its last says.
LEMMA InitialPart ==
    ASSUME NEW N \in Nat, NEW S \in SUBSET (1..N),
           \A c \in S, d \in 1..N : d <= c => d \in S
    PROVE  /\ Cardinality(S) \in 0..N
           /\ \A c \in S : c <= Cardinality(S)
<1>1. IsFiniteSet(1..N) /\ Cardinality(1..N) = N
  BY FS_Interval
<1>2. IsFiniteSet(S) /\ Cardinality(S) <= N
  BY <1>1, FS_Subset
<1>3. Cardinality(S) \in Nat
  BY <1>2, FS_CardinalityType
<1>4. ASSUME NEW c \in S PROVE c <= Cardinality(S)
  <2>1. 1..c \in SUBSET S
    OBVIOUS
  <2>2. Cardinality(1..c) = c
    BY FS_Interval
  <2> QED
    BY <1>2, <2>1, <2>2, FS_Subset
<1> QED
  BY <1>2, <1>3, <1>4

\* The first ceremony of the next visit comes after those that were started.
LEMMA NextFrom ==
    ASSUME InOrder
    PROVE  /\ Cardinality({c \in Ceremonies : at[c] # "unused"}) \in 0..MaxCeremonies
           /\ \A c \in Ceremonies :
                at[c] # "unused" => c <= Cardinality({d \in Ceremonies : at[d] # "unused"})
<1> DEFINE started == {c \in Ceremonies : at[c] # "unused"}
<1>1. started \in SUBSET (1..MaxCeremonies)
  BY DEF Ceremonies
<1>2. \A c \in started, d \in 1..MaxCeremonies : d <= c => d \in started
  BY DEF InOrder, Ceremonies
<1>3. \A c \in Ceremonies : at[c] # "unused" => c \in started
  OBVIOUS
<1> HIDE DEF started
<1>4. /\ Cardinality(started) \in 0..MaxCeremonies
      /\ \A c \in started : c <= Cardinality(started)
  BY <1>1, <1>2, InitialPart, PasskeyAssumption
<1>5. /\ Cardinality(started) \in 0..MaxCeremonies
      /\ \A c \in Ceremonies : at[c] # "unused" => c <= Cardinality(started)
  BY <1>3, <1>4
<1> QED
  BY <1>5 DEF started

\* Leaving a page: what was started belongs to an earlier visit.
LEMMA Left ==
    ASSUME IInv, NEW p, Leave(p)
    PROVE  /\ from' \in 1..(MaxCeremonies + 1)
           /\ \A c \in Ceremonies : at[c] # "unused" => c < from'
<1> DEFINE n == Cardinality({c \in Ceremonies : at[c] # "unused"})
<1>1. n \in 0..MaxCeremonies /\ \A c \in Ceremonies : at[c] # "unused" => c <= n
  BY NextFrom DEF IInv
<1>2. from' = n + 1
  BY DEF Leave
<1> HIDE DEF n
<1> QED
  BY <1>1, <1>2, PasskeyAssumption DEF Ceremonies

\* An automatic prompt does not outlive its page.
LEMMA LeftAlone ==
    ASSUME IInv, NEW p, Leave(p), at' = Abandoned, kind' = kind
    PROVE  OneAutomatic'
<1>1. \A c \in Ceremonies : at[c] # "unused" => c < from'
  BY Left
<1>2. from' \in Int /\ \A c \in Ceremonies : c \in Int
  BY Left DEF Ceremonies
<1>3. ASSUME NEW c \in Ceremonies, Automatic(c)' PROVE FALSE
  <2>1. at'[c] \in {"options", "ask"} \/ (at'[c] = "begin" /\ c >= from')
    BY <1>3 DEF Automatic
  <2>2. at'[c] = IF at[c] \in {"unused", "begin", "finish"} THEN at[c] ELSE "ended"
    BY DEF Abandoned
  <2>3. at[c] = "begin" /\ c >= from'
    BY <2>1, <2>2
  <2> QED
    BY <1>1, <1>2, <2>3
<1> QED
  BY <1>3 DEF OneAutomatic

LEMMA InitInv == Init => IInv
<1> SUFFICES ASSUME Init PROVE IInv
  OBVIOUS
<1>1. TypeOK
  <2>1. /\ visits \in 0..MaxVisits /\ from \in 1..(MaxCeremonies + 1)
        /\ at \in [Ceremonies -> States] /\ kind \in [Ceremonies -> Kinds \union {"none"}]
    BY PasskeyAssumption DEF Init, States
  <2>2. Asking = {} /\ ~PasswordOff
    BY DEF Init, Asking, PasswordOff
  <2> QED
    BY <2>1, <2>2 DEF Init, TypeOK, States
<1>2. MovesOnWhenVerified /\ PressIsServed
  BY DEF Init, MovesOnWhenVerified, PressIsServed
<1>3. InOrder /\ AcceptedShows /\ OneAutomatic /\ Undisturbed
  BY DEF Init, InOrder, AcceptedShows, OneAutomatic, Automatic, Undisturbed
<1> QED
  BY <1>1, <1>2, <1>3 DEF IInv

\* The automatic prompt starts once a visit, with none before it.
LEMMA AutoPromptStep ==
    ASSUME IInv, NEW c \in Ceremonies, AutoPrompt(c)
    PROVE  IInv'
<1> USE DEF IInv, AutoPrompt, Start, deviceVars, sessionVars, historyVars
<1>1. TypeOK'
  BY DEF TypeOK, Asking, PasswordOff, Kinds
<1>2. MovesOnWhenVerified'
  BY DEF MovesOnWhenVerified
<1>3. PressIsServed'
  BY DEF PressIsServed
<1>4. InOrder'
  BY DEF InOrder, Ceremonies
<1>5. AcceptedShows'
  BY DEF TypeOK, AcceptedShows
<1>6. OneAutomatic'
  BY DEF OneAutomatic, Automatic, Ceremonies
<1>7. Undisturbed'
  BY DEF Undisturbed
<1> QED
  BY <1>1, <1>2, <1>3, <1>4, <1>5, <1>6, <1>7

\* The button aborts the automatic prompt, whichever is open.
LEMMA PasskeyButtonStep ==
    ASSUME IInv, NEW c \in Ceremonies, NEW k \in Kinds, PasskeyButton(c, k)
    PROVE  IInv'
<1> USE DEF IInv, PasskeyButton, Press, ClearToPress, Start, deviceVars, pageVars,
            sessionVars
<1>1. TypeOK'
  BY DEF TypeOK, Asking, PasswordOff
<1>2. MovesOnWhenVerified'
  BY DEF MovesOnWhenVerified
<1>3. PressIsServed'
  BY DEF PressIsServed, Undisturbed, Ceremonies
<1>4. InOrder'
  BY DEF InOrder, Ceremonies
<1>5. AcceptedShows'
  BY DEF AcceptedShows
<1>6. OneAutomatic'
  BY DEF TypeOK, OneAutomatic, Automatic
<1>7. Undisturbed'
  BY DEF TypeOK, Undisturbed, Over, OneAutomatic, Automatic
<1> QED
  BY <1>1, <1>2, <1>3, <1>4, <1>5, <1>6, <1>7

\* The other pages' buttons find no automatic prompt.
LEMMA PageButtonStep ==
    ASSUME IInv, NEW c \in Ceremonies, NEW k \in Kinds, PageButton(c, k)
    PROVE  IInv'
<1> USE DEF IInv, PageButton, Press, ClearToPress, Start, deviceVars, pageVars,
            sessionVars
<1>1. TypeOK'
  BY DEF TypeOK, Asking, PasswordOff
<1>2. MovesOnWhenVerified'
  BY DEF MovesOnWhenVerified
<1>3. PressIsServed'
  BY DEF PressIsServed, Undisturbed, Ceremonies
<1>4. InOrder'
  BY DEF InOrder, Ceremonies
<1>5. AcceptedShows'
  BY DEF TypeOK, AcceptedShows
<1>6. OneAutomatic'
  BY DEF TypeOK, OneAutomatic, Automatic
<1>7. Undisturbed'
  BY DEF TypeOK, Undisturbed, Over, OneAutomatic, Automatic
<1> QED
  BY <1>1, <1>2, <1>3, <1>4, <1>5, <1>6, <1>7

\* A begin that is refused is no longer a clean press.
LEMMA RefuseBeginStep ==
    ASSUME IInv, NEW c \in Ceremonies, ServerRefusesBegin(c)
    PROVE  IInv'
<1> USE DEF IInv, ServerRefusesBegin, Answered, deviceVars, pageVars
<1>1. TypeOK'
  <2>1. newName' \in BOOLEAN
    BY Zenon DEF TypeOK
  <2>2. at' \in [Ceremonies -> States] /\ \A d \in Ceremonies : at'[d] = "ask" => at[d] = "ask"
    BY DEF TypeOK, States
  <2>3. Asking' \subseteq Asking
    BY <2>2 DEF Asking
  <2> QED
    BY <2>1, <2>2, <2>3 DEF TypeOK, PasswordOff, States
<1>2. MovesOnWhenVerified'
  BY DEF MovesOnWhenVerified
<1>3. PressIsServed'
  BY DEF PressIsServed
<1>4. InOrder'
  BY DEF InOrder
<1>5. AcceptedShows'
  BY DEF AcceptedShows
<1>6. OneAutomatic'
  BY DEF OneAutomatic, Automatic
<1>7. Undisturbed'
  BY DEF Undisturbed, Over
<1> QED
  BY <1>1, <1>2, <1>3, <1>4, <1>5, <1>6, <1>7

\* The session's challenge is replaced by nobody but the one that has the page to itself.
LEMMA BeginStep ==
    ASSUME IInv, NEW c \in Ceremonies, ServerBegins(c)
    PROVE  IInv'
<1> USE DEF IInv, ServerBegins, Answered, deviceVars, pageVars, historyVars
<1>1. TypeOK'
  <2>1. newName' \in BOOLEAN
    BY Zenon DEF TypeOK
  <2>2. at' \in [Ceremonies -> States] /\ \A d \in Ceremonies : at'[d] = "ask" => at[d] = "ask"
    BY DEF TypeOK, States
  <2>3. Asking' \subseteq Asking
    BY <2>2 DEF Asking
  <2>4. kind' \in [Ceremonies -> Kinds \union {"none"}]
    BY DEF TypeOK, Kinds
  <2> QED
    BY <2>1, <2>2, <2>3, <2>4 DEF TypeOK, PasswordOff, States
<1>2. MovesOnWhenVerified'
  BY DEF MovesOnWhenVerified
<1>3. PressIsServed'
  BY DEF PressIsServed
<1>4. InOrder'
  BY DEF InOrder
<1>5. AcceptedShows'
  BY DEF AcceptedShows
<1>6. OneAutomatic'
  BY DEF TypeOK, OneAutomatic, Automatic, Ceremonies
<1>7. Undisturbed'
  BY DEF Undisturbed, Over
<1> QED
  BY <1>1, <1>2, <1>3, <1>4, <1>5, <1>6, <1>7

\* An undisturbed press finds no prompt open.
LEMMA PromptStep ==
    ASSUME IInv, NEW c \in Ceremonies, Prompt(c)
    PROVE  IInv'
<1> USE DEF IInv, Prompt, deviceVars, pageVars, sessionVars
<1>1. TypeOK'
  BY DEF TypeOK, Asking, PasswordOff
<1>2. MovesOnWhenVerified'
  BY DEF MovesOnWhenVerified
<1>3. PressIsServed'
  BY DEF PressIsServed, Undisturbed, Over, Asking
<1>4. InOrder'
  BY DEF InOrder
<1>5. AcceptedShows'
  BY DEF AcceptedShows
<1>6. OneAutomatic'
  BY DEF OneAutomatic, Automatic
<1>7. Undisturbed'
  BY DEF Undisturbed, Over
<1> QED
  BY <1>1, <1>2, <1>3, <1>4, <1>5, <1>6, <1>7

LEMMA PickStep ==
    ASSUME IInv, NEW c \in Ceremonies, Pick(c)
    PROVE  IInv'
<1> USE DEF IInv, Pick, deviceVars, pageVars, sessionVars, historyVars
<1>1. TypeOK'
  BY DEF TypeOK, Asking, PasswordOff
<1>2. MovesOnWhenVerified'
  BY DEF MovesOnWhenVerified
<1>3. PressIsServed'
  BY DEF PressIsServed
<1>4. InOrder'
  BY DEF InOrder
<1>5. AcceptedShows'
  BY DEF AcceptedShows
<1>6. OneAutomatic'
  BY DEF OneAutomatic, Automatic
<1>7. Undisturbed'
  BY DEF Undisturbed, Over
<1> QED
  BY <1>1, <1>2, <1>3, <1>4, <1>5, <1>6, <1>7

LEMMA DismissStep ==
    ASSUME IInv, NEW c \in Ceremonies, Dismiss(c)
    PROVE  IInv'
<1> USE DEF IInv, Dismiss, deviceVars, pageVars, sessionVars, historyVars
<1>1. TypeOK'
  BY DEF TypeOK, Asking, PasswordOff
<1>2. MovesOnWhenVerified'
  BY DEF MovesOnWhenVerified
<1>3. PressIsServed'
  BY DEF PressIsServed
<1>4. InOrder'
  BY DEF InOrder
<1>5. AcceptedShows'
  BY DEF AcceptedShows
<1>6. OneAutomatic'
  BY DEF OneAutomatic, Automatic
<1>7. Undisturbed'
  BY DEF Undisturbed, Over
<1> QED
  BY <1>1, <1>2, <1>3, <1>4, <1>5, <1>6, <1>7

\* What the server accepts, the session shows from then on.
LEMMA FinishStep ==
    ASSUME IInv, NEW c \in Ceremonies, ServerFinishes(c)
    PROVE  IInv'
<1> USE DEF IInv, ServerFinishes, TakeCeremony, Answered, deviceVars, pageVars,
            historyVars
<1>1. TypeOK'
  BY DEF TypeOK, Asking, PasswordOff
<1>2. MovesOnWhenVerified'
  BY DEF MovesOnWhenVerified
<1>3. PressIsServed'
  BY DEF PressIsServed
<1>4. InOrder'
  BY DEF InOrder
<1>5. AcceptedShows'
  BY DEF TypeOK, AcceptedShows
<1>6. OneAutomatic'
  BY DEF OneAutomatic, Automatic
<1>7. Undisturbed'
  BY DEF TypeOK, Undisturbed, Over
<1> QED
  BY <1>1, <1>2, <1>3, <1>4, <1>5, <1>6, <1>7

\* An undisturbed ceremony finds its own challenge.
LEMMA RefuseFinishStep ==
    ASSUME IInv, NEW c \in Ceremonies, ServerRefusesFinish(c)
    PROVE  IInv'
<1> USE DEF IInv, ServerRefusesFinish, TakeCeremony, Popped, Answered, deviceVars,
            pageVars
<1>1. TypeOK'
  BY DEF TypeOK, Asking, PasswordOff
<1>2. MovesOnWhenVerified'
  BY DEF MovesOnWhenVerified
<1>3. PressIsServed'
  BY DEF PressIsServed, Undisturbed
<1>4. InOrder'
  BY DEF InOrder
<1>5. AcceptedShows'
  BY DEF AcceptedShows
<1>6. OneAutomatic'
  BY DEF OneAutomatic, Automatic
<1>7. Undisturbed'
  BY DEF TypeOK, Undisturbed, Over
<1> QED
  BY <1>1, <1>2, <1>3, <1>4, <1>5, <1>6, <1>7

LEMMA DeclineStep ==
    ASSUME IInv, NEW c \in Ceremonies, DeclineForm(c)
    PROVE  IInv'
<1> USE DEF IInv, DeclineForm, deviceVars, pageVars, sessionVars, historyVars
<1>1. TypeOK'
  BY DEF TypeOK, Asking, PasswordOff
<1>2. MovesOnWhenVerified'
  BY DEF MovesOnWhenVerified
<1>3. PressIsServed'
  BY DEF PressIsServed
<1>4. InOrder'
  BY DEF InOrder
<1>5. AcceptedShows'
  BY DEF AcceptedShows
<1>6. OneAutomatic'
  BY DEF OneAutomatic, Automatic
<1>7. Undisturbed'
  BY DEF Undisturbed, Over
<1> QED
  BY <1>1, <1>2, <1>3, <1>4, <1>5, <1>6, <1>7

LEMMA RefusedStep ==
    ASSUME IInv, NEW c \in Ceremonies, Refused(c)
    PROVE  IInv'
<1> USE DEF IInv, Refused, deviceVars, pageVars, sessionVars, historyVars
<1>1. TypeOK'
  BY DEF TypeOK, Asking, PasswordOff
<1>2. MovesOnWhenVerified'
  BY DEF MovesOnWhenVerified
<1>3. PressIsServed'
  BY DEF PressIsServed
<1>4. InOrder'
  BY DEF InOrder
<1>5. AcceptedShows'
  BY DEF AcceptedShows
<1>6. OneAutomatic'
  BY DEF OneAutomatic, Automatic
<1>7. Undisturbed'
  BY DEF Undisturbed, Over
<1> QED
  BY <1>1, <1>2, <1>3, <1>4, <1>5, <1>6, <1>7

\* A page that moves on was accepted.
LEMMA AcceptStep ==
    ASSUME IInv, NEW c \in Ceremonies, Accepted(c)
    PROVE  IInv'
<1> USE DEF IInv, Accepted, Leave, Abandoned, deviceVars, sessionVars
<1>1. TypeOK'
  BY Left DEF TypeOK, Asking, PasswordOff
<1>2. MovesOnWhenVerified'
  BY DEF MovesOnWhenVerified, AcceptedShows
<1>3. PressIsServed'
  BY DEF PressIsServed
<1>4. InOrder'
  BY DEF InOrder
<1>5. AcceptedShows'
  BY DEF AcceptedShows
<1>6. OneAutomatic'
  BY LeftAlone
<1>7. Undisturbed'
  BY DEF TypeOK, Undisturbed
<1> QED
  BY <1>1, <1>2, <1>3, <1>4, <1>5, <1>6, <1>7

\* Leaving a page ends what runs in it.
LEMMA VisitStep ==
    ASSUME IInv, NEW p \in {"signin", "signup", "account"}, Visit(p)
    PROVE  IInv'
<1> USE DEF IInv, Visit, Leave, Abandoned, deviceVars, sessionVars
<1>1. TypeOK'
  <2> HIDE DEF Leave
  <2>1. from' \in 1..(MaxCeremonies + 1) /\ visits' \in 0..MaxVisits
    BY Left, PasskeyAssumption DEF TypeOK
  <2>2. at' \in [Ceremonies -> States] /\ \A c \in Ceremonies : at'[c] # "ask"
    BY DEF TypeOK, States
  <2>3. ~PasswordOff' /\ Asking' = {}
    BY <2>2 DEF Leave, PasswordOff, Asking
  <2> QED
    BY <2>1, <2>2, <2>3 DEF Leave, TypeOK, States
<1>2. MovesOnWhenVerified'
  BY DEF MovesOnWhenVerified
<1>3. PressIsServed'
  BY DEF PressIsServed
<1>4. InOrder'
  BY DEF InOrder
<1>5. AcceptedShows'
  BY DEF AcceptedShows
<1>6. OneAutomatic'
  BY LeftAlone
<1>7. Undisturbed'
  BY DEF TypeOK, Undisturbed
<1> QED
  BY <1>1, <1>2, <1>3, <1>4, <1>5, <1>6, <1>7

LEMMA PasswordStep ==
    ASSUME IInv, PasswordSignIn
    PROVE  IInv'
<1> USE DEF IInv, PasswordSignIn, Leave, Abandoned, deviceVars
<1>1. TypeOK'
  BY Left DEF TypeOK, Asking, PasswordOff
<1>2. MovesOnWhenVerified'
  BY DEF MovesOnWhenVerified
<1>3. PressIsServed'
  BY DEF PressIsServed
<1>4. InOrder'
  BY DEF InOrder
<1>5. AcceptedShows'
  BY DEF AcceptedShows
<1>6. OneAutomatic'
  BY LeftAlone
<1>7. Undisturbed'
  BY DEF TypeOK, Undisturbed
<1> QED
  BY <1>1, <1>2, <1>3, <1>4, <1>5, <1>6, <1>7

LEMMA FormStep ==
    ASSUME IInv, DecideEmphasis \/ UsePassword
    PROVE  IInv'
<1> USE DEF IInv, DecideEmphasis, UsePassword, PasswordOff, deviceVars, sessionVars,
            historyVars
<1>1. TypeOK'
  BY PasskeyAssumption DEF TypeOK, Asking
<1>2. MovesOnWhenVerified'
  BY DEF MovesOnWhenVerified
<1>3. PressIsServed'
  BY DEF PressIsServed
<1>4. InOrder'
  BY DEF InOrder
<1>5. AcceptedShows'
  BY DEF AcceptedShows
<1>6. OneAutomatic'
  BY DEF OneAutomatic, Automatic
<1>7. Undisturbed'
  BY DEF Undisturbed, Over
<1> QED
  BY <1>1, <1>2, <1>3, <1>4, <1>5, <1>6, <1>7

-----------------------------------------------------------------------------
LEMMA NextInv == IInv /\ [Next]_vars => IInv'
<1> SUFFICES ASSUME IInv, [Next]_vars PROVE IInv'
  OBVIOUS
<1>1. ASSUME NEW c \in Ceremonies, AutoPrompt(c) \/ SubmitCollapsed(c) PROVE IInv'
  BY <1>1, AutoPromptStep, PageButtonStep DEF SubmitCollapsed, Kinds
<1>2. ASSUME NEW c \in Ceremonies, NEW k \in Kinds, PasskeyButton(c, k) \/ PageButton(c, k)
      PROVE  IInv'
  BY <1>2, PasskeyButtonStep, PageButtonStep
<1>3. ASSUME NEW c \in Ceremonies, ServerStep(c) PROVE IInv'
  BY <1>3, RefuseBeginStep, BeginStep, FinishStep, RefuseFinishStep DEF ServerStep
<1>4. ASSUME NEW c \in Ceremonies, PageStep(c) \/ UserStep(c) PROVE IInv'
  BY <1>4, PromptStep, AcceptStep, DeclineStep, RefusedStep, PickStep, DismissStep
     DEF PageStep, UserStep
<1>5. ASSUME NEW p \in {"signin", "signup", "account"}, Visit(p) PROVE IInv'
  BY <1>5, VisitStep
<1>6. CASE DecideEmphasis \/ UsePassword \/ PasswordSignIn
  BY <1>6, FormStep, PasswordStep
<1>7. CASE UNCHANGED vars
  BY <1>7 DEF IInv, TypeOK, MovesOnWhenVerified, PressIsServed, InOrder, AcceptedShows,
              OneAutomatic, Automatic, Undisturbed, Over, Asking, PasswordOff, vars,
              deviceVars, pageVars, sessionVars, historyVars
<1> QED
  BY <1>1, <1>2, <1>3, <1>4, <1>5, <1>6, <1>7 DEF Next

LEMMA Invariance == Spec => []IInv
  BY InitInv, NextInv, PTL DEF Spec

\* The browser has at most one prompt open, who cannot use a passkey is left the
\* password, and every variable keeps its type, for any number of ceremonies.
THEOREM TypeCorrect == Spec => []TypeOK
<1>1. IInv => TypeOK
  BY DEF IInv
<1> QED
  BY <1>1, Invariance, PTL

\* A page moves on, or submits the form behind a verification, only when the
\* server took the session's own challenge as signed.
THEOREM MovesOn == Spec => []MovesOnWhenVerified
<1>1. IInv => MovesOnWhenVerified
  BY DEF IInv
<1> QED
  BY <1>1, Invariance, PTL

\* A passkey button pressed while nothing but a showing automatic prompt is in
\* the way gets its prompt, and the server still has its challenge.
THEOREM Served == Spec => []PressIsServed
<1>1. IInv => PressIsServed
  BY DEF IInv
<1> QED
  BY <1>1, Invariance, PTL

=============================================================================
