----------------------------- MODULE Sponsorship -----------------------------
(***************************************************************************)
(* Free operations from end to end: the service leases budget, signs and   *)
(* commits; the client takes the signature to the EntryPoint, which asks   *)
(* the paymaster.  A process that stops leaves its request where it is.    *)
(***************************************************************************)
EXTENDS SponsorBudget, SponsorshipPaymaster

CONSTANTS
    RequestOptions,     \* requests: [subject, sender, nonce, need]
    Validity            \* how long a signature is good

ASSUME SponsorshipAssumption ==
    /\ RequestOptions \subseteq [subject : Users, sender : Users, nonce : Nat, need : [Kinds -> Nat]]
    /\ Validity \in Nat

VARIABLES
    now,
    serviceVersion,     \* policy version and key the service is configured with
    step, asked,        \* of every request
    signed,             \* the signature made for it
    delivered,          \* signatures that reached a client
    bundle, executing,  \* operations the EntryPoint has validated and not executed
    usedNonces,
    taken               \* what the EntryPoint keeps of the deposit, by day and payer

serviceVars == <<serviceVersion, step, asked, signed, delivered>>
entryVars   == <<bundle, executing, usedNonces, taken>>
vars        == <<now, budgetVars, paymasterVars, serviceVars, entryVars>>

Init ==
    /\ now = 0 /\ BudgetInit /\ PaymasterInit
    /\ serviceVersion = 1
    /\ step = [r \in Requests |-> "new"]
    /\ asked = [r \in Requests |-> None]
    /\ signed = [r \in Requests |-> None]
    /\ delivered = {}
    /\ bundle = {} /\ executing = FALSE /\ usedNonces = {}
    /\ taken = [x \in Accounts |-> 0]

-----------------------------------------------------------------------------
(* The handler of POST /v1/sponsorship *)

GoTo(r, next) == step' = [step EXCEPT ![r] = next]
Finish(r) == GoTo(r, "done") /\ asked' = [asked EXCEPT ![r] = None]

\* A request the policy allows; its time is read once.
Receive(r, q) ==
    /\ step[r] = "new" /\ GoTo(r, "reserve")
    /\ asked' = [asked EXCEPT ![r] = [request |-> q, at |-> now]]
    /\ UNCHANGED <<now, budgetVars, paymasterVars, serviceVersion, signed, delivered, entryVars>>

Reserve(r) ==
    LET q == asked[r].request IN
    /\ step[r] = "reserve" /\ GoTo(r, "sign")
    /\ ReserveBudget(r, DayOf(asked[r].at), q.subject, q.need)
    /\ UNCHANGED <<now, paymasterVars, serviceVersion, asked, signed, delivered, entryVars>>

\* createSponsorship.
SponsorshipFor(r) ==
    [sender |-> asked[r].request.sender, nonce |-> asked[r].request.nonce,
     maxCost |-> asked[r].request.need["cost"],
     validUntil |-> asked[r].at + Validity, version |-> serviceVersion]

\* Bug: the answer is sent as soon as there is a signature.
SignAndAnswer(r) ==
    /\ step[r] = "sign"
    /\ \/ /\ signed' = [signed EXCEPT ![r] = SponsorshipFor(r)]
          /\ GoTo(r, "commit") /\ delivered' = delivered \cup {SponsorshipFor(r)}
       \/ GoTo(r, "release") /\ UNCHANGED <<signed, delivered>>
    /\ UNCHANGED <<now, budgetVars, paymasterVars, serviceVersion, asked, entryVars>>

\* The signer answers or fails.
Sign(r) ==
    /\ step[r] = "sign"
    /\ \/ signed' = [signed EXCEPT ![r] = SponsorshipFor(r)] /\ GoTo(r, "commit")
       \/ GoTo(r, "release") /\ UNCHANGED signed
    /\ UNCHANGED <<now, budgetVars, paymasterVars, serviceVersion, asked, delivered, entryVars>>

\* The lease is committed and the client answered; or the commit, or its
\* answer, is lost: the client gets an error and the lease stays as it is.
Commit(r) ==
    /\ step[r] = "commit" /\ Finish(r)
    /\ \/ FinalizeLease(r, "committed") /\ delivered' \in {delivered, delivered \cup {signed[r]}}
       \/ UNCHANGED <<budgetVars, delivered>>
    /\ UNCHANGED <<now, paymasterVars, serviceVersion, signed, entryVars>>

\* Only a lease without a signature is released, if the store answers.
Release(r) ==
    /\ step[r] = "release" /\ Finish(r)
    /\ FinalizeLease(r, "released") \/ UNCHANGED budgetVars
    /\ UNCHANGED <<now, paymasterVars, serviceVersion, signed, delivered, entryVars>>

\* The service is restarted with the signer of the chain.
Reconfigure ==
    /\ serviceVersion # policyVersion /\ serviceVersion' = policyVersion
    /\ UNCHANGED <<now, budgetVars, paymasterVars, step, asked, signed, delivered, entryVars>>

-----------------------------------------------------------------------------
(* The EntryPoint: a bundle is validated as a whole, then executed; nothing *)
(* else happens on the chain meanwhile.                                     *)

ValidateOperation(s, maxCost) ==
    /\ ~executing
    /\ <<s.sender, s.nonce>> \notin usedNonces
    /\ ValidatePaymasterUserOp(s, maxCost, now)
    /\ usedNonces' = usedNonces \cup {<<s.sender, s.nonce>>}
    /\ bundle' = bundle \cup {[sender |-> s.sender, nonce |-> s.nonce, day |-> DayOf(now), maxCost |-> maxCost]}
    /\ taken' = Moved(taken, DayOf(now), s.sender, maxCost)
    /\ UNCHANGED <<now, budgetVars, serviceVars, executing>>

\* An operation costs cost, the last of it for postOp, which may run out of
\* gas; what is left of the prefund goes back into the deposit.
ExecuteOperation(context, cost) ==
    /\ bundle' = bundle \ {context}
    /\ executing' = (bundle' # {})
    /\ PostOp(context, cost - 1) \/ UNCHANGED paymasterVars
    /\ taken' = Moved(taken, context.day, context.sender, cost - context.maxCost)
    /\ UNCHANGED <<now, budgetVars, serviceVars, usedNonces>>

Govern ==
    /\ bundle = {}
    /\ SetSponsorSigner \/ PausePaymaster \/ \E b \in BudgetOptions : SetBudgets(b)
    /\ UNCHANGED <<now, budgetVars, serviceVars, entryVars>>

Tick ==
    /\ bundle = {} /\ now < MaxTime /\ now' = now + 1
    /\ UNCHANGED <<budgetVars, paymasterVars, serviceVars, entryVars>>

-----------------------------------------------------------------------------

Next ==
    \/ \E r \in Requests :
         \/ \E q \in RequestOptions : Receive(r, q)
         \/ Reserve(r) \/ Sign(r) \/ Commit(r) \/ Release(r)
    \/ Reconfigure
    \/ \E s \in delivered : \E maxCost \in 1..s.maxCost : ValidateOperation(s, maxCost)
    \/ \E context \in bundle : \E cost \in 1..context.maxCost : ExecuteOperation(context, cost)
    \/ Govern \/ Tick

Spec == Init /\ [][Next]_vars

=============================================================================
