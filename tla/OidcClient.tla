----------------------------- MODULE OidcClient -----------------------------
(***************************************************************************)
(* OIDCClient of one authentication process: concurrent logins that fill   *)
(* and share the cached provider metadata across awaits, against a provider*)
(* that changes its discovery document and rotates its signing keys, while *)
(* requests fail and the process restarts.                                 *)
(*                                                                         *)
(* Abstractions.  A document is its version, which tells its endpoints from*)
(* those of other documents, and what is wrong with it, if anything; so is *)
(* an ID token the key that signed it and what is wrong with its header or *)
(* claims.  A login that is over keeps no locals.                          *)
(***************************************************************************)
EXTENDS Naturals, FiniteSets

CONSTANTS
    Login,          \* the logins, named by their nonces
    Key,            \* signing keys of the provider
    KidOf,          \* their key ids
    Production,     \* P5_ENVIRONMENT is staging or production
    MaxChanges,     \* bound on new discovery documents and restarts
    None            \* no metadata, no token

\* What the OIDCError or the httpx.HTTPError of a failed login was about.
Reason == {"document", "request", "algorithm", "key", "signature", "claims",
           "nonce"}

ASSUME KeyAssumption ==
    /\ IsFiniteSet(Key) /\ Key # {} /\ DOMAIN KidOf = Key
    /\ Production \in BOOLEAN
    /\ MaxChanges \in Nat

Document == [flaw : {None, "issuer", "incomplete", "http"},
             version : 0 .. MaxChanges]
IdToken  == [flaw : {None, "algorithm", "claims", "nonce"}, key : Key]

ASSUME NoneAssumption == None \notin Document \cup IdToken \cup Reason

VARIABLES
    document,       \* what the provider serves at the discovery URL
    published,      \* the keys of its JWKS
    signing,        \* the key it signs with
    restarts,       \* of the process
    cache,          \* self._metadata
    pc,             \* where each login is
    metadata,       \* its local metadata, or the response not looked at yet
    token,          \* its ID token
    jwks,           \* the JWKS it was sent
    reason,         \* why it failed
    rotated         \* history: the JWKS changed since the token was made

provider == <<document, published, signing>>
local    == <<pc, metadata, token, jwks, reason>>
vars     == <<provider, restarts, cache, local, rotated>>

Init ==
    /\ document \in Document /\ document.version = 0
    /\ signing \in Key
    /\ published = {signing}
    /\ restarts = 0
    /\ cache = None
    /\ pc = [l \in Login |-> "idle"]
    /\ metadata = [l \in Login |-> None]
    /\ token = [l \in Login |-> None]
    /\ jwks = [l \in Login |-> {}]
    /\ reason = [l \in Login |-> None]
    /\ rotated = {}

-----------------------------------------------------------------------------
(***************************************************************************)
(* The provider and the process around the client.                         *)
(***************************************************************************)
ChangeDocument ==
    /\ document.version < MaxChanges
    /\ document' \in Document
    /\ document'.version = document.version + 1
    /\ UNCHANGED <<published, signing, restarts, cache, local, rotated>>

\* A new key is published before it signs; old ones stay or go at any time.
ChangeKeys ==
    /\ published' \in SUBSET Key
    /\ signing' \in published \cap published'
    /\ <<published', signing'>> # <<published, signing>>
    /\ rotated' = rotated \cup {l \in Login : pc[l] = "token"}
    /\ UNCHANGED <<document, restarts, cache, local>>

Over == {"done", "failed"}

Forget(logins) ==
    /\ metadata' = [l \in Login |-> IF l \in logins THEN None ELSE metadata[l]]
    /\ token' = [l \in Login |-> IF l \in logins THEN None ELSE token[l]]
    /\ jwks' = [l \in Login |-> IF l \in logins THEN {} ELSE jwks[l]]
    /\ rotated' = rotated \ logins

Restart ==
    LET running == {l \in Login : pc[l] \notin Over \cup {"idle"}} IN
    /\ restarts < MaxChanges
    /\ restarts' = restarts + 1
    /\ cache' = None
    /\ pc' = [l \in Login |-> IF l \in running THEN "failed" ELSE pc[l]]
    /\ reason' = [l \in Login |-> IF l \in running THEN "request" ELSE reason[l]]
    /\ Forget(running)
    /\ UNCHANGED provider

-----------------------------------------------------------------------------
(***************************************************************************)
(* The client.  Another login may run at each await.                       *)
(***************************************************************************)
Fail(l, why) ==
    /\ pc' = [pc EXCEPT ![l] = "failed"]
    /\ reason' = [reason EXCEPT ![l] = why]
    /\ Forget({l})

\* metadata(): the cached document, or a request for one.
Begin(l) ==
    /\ pc[l] = "idle"
    /\ metadata' = [metadata EXCEPT ![l] = cache]
    /\ pc' = [pc EXCEPT ![l] = IF cache = None THEN "discover" ELSE "post"]
    /\ UNCHANGED <<provider, restarts, cache, token, jwks, reason, rotated>>

Discover(l) ==
    /\ pc[l] = "discover"
    /\ metadata' = [metadata EXCEPT ![l] = document]
    /\ pc' = [pc EXCEPT ![l] = "discovered"]
    /\ UNCHANGED <<provider, restarts, cache, token, jwks, reason, rotated>>

AnyScheme(doc) == doc.flaw \in {None, "http"}  \* mutant: https not required
Accepted(doc) == doc.flaw \in {None} \cup IF Production THEN {} ELSE {"http"}

\* The response arrives: it is checked and cached, over what another login may
\* have cached meanwhile.
Store(l) ==
    /\ pc[l] = "discovered"
    /\ \/ /\ Accepted(metadata[l])
          /\ cache' = metadata[l]
          /\ pc' = [pc EXCEPT ![l] = "post"]
          /\ UNCHANGED <<metadata, token, jwks, reason, rotated>>
       \/ /\ ~Accepted(metadata[l])
          /\ Fail(l, "document")
          /\ UNCHANGED cache
    /\ UNCHANGED <<provider, restarts>>

\* The token endpoint of the local metadata: gone if the provider has moved.
Post(l) ==
    /\ pc[l] = "post"
    /\ \/ /\ metadata[l].version = document.version
          /\ \E t \in {t \in IdToken : t.key = signing} :
                token' = [token EXCEPT ![l] = t]
          /\ pc' = [pc EXCEPT ![l] = "token"]
          /\ UNCHANGED <<metadata, jwks, reason, rotated>>
       \/ /\ metadata[l].version # document.version
          /\ Fail(l, "request")
    /\ UNCHANGED <<provider, restarts, cache>>

\* The JWKS are requested anew by every login.
FirstKeys(l) == IF \E k \in Login : jwks[k] # {}  \* mutant: cached by the first
                THEN UNION {jwks[k] : k \in Login} ELSE published
ServedKeys(l) == published

GetJwks(l) ==
    /\ pc[l] = "token"
    /\ \/ /\ metadata[l].version = document.version
          /\ jwks' = [jwks EXCEPT ![l] = ServedKeys(l)]
          /\ pc' = [pc EXCEPT ![l] = "jwks"]
          /\ UNCHANGED <<metadata, token, reason, rotated>>
       \/ /\ metadata[l].version # document.version
          /\ Fail(l, "request")
    /\ UNCHANGED <<provider, restarts, cache>>

Matching(l) == {k \in jwks[l] : KidOf[k] = KidOf[token[l].key]}

\* Which check of exchange() refuses the token; jwt.decode and email_verified are
\* "claims".
Refusal(l) ==
    CASE token[l].flaw = "algorithm"    -> "algorithm"
      [] Cardinality(Matching(l)) # 1   -> "key"
      [] token[l].key \notin Matching(l) -> "signature"
      [] OTHER                          -> token[l].flaw

Validate(l) ==
    /\ pc[l] = "jwks"
    /\ \/ /\ Refusal(l) = None
          /\ pc' = [pc EXCEPT ![l] = "done"]
          /\ Forget({l})
          /\ UNCHANGED reason
       \/ /\ Refusal(l) # None
          /\ Fail(l, Refusal(l))
    /\ UNCHANGED <<provider, restarts, cache>>

\* httpx.HTTPError: no connection, a timeout, a status that is an error.
RequestFails(l) ==
    /\ pc[l] \in {"discover", "discovered", "post", "token"}
    /\ Fail(l, "request")
    /\ UNCHANGED <<provider, restarts, cache>>

Step(l) ==
    \/ Begin(l) \/ Discover(l) \/ Store(l) \/ Post(l) \/ GetJwks(l)
    \/ Validate(l) \/ RequestFails(l)

Next ==
    \/ ChangeDocument \/ ChangeKeys \/ Restart
    \/ \E l \in Login : Step(l)

Spec == Init /\ [][Next]_vars

-----------------------------------------------------------------------------
\* The locals of a login have their types at the await where it is.
TypeOK ==
    /\ document \in Document /\ signing \in published /\ published \subseteq Key
    /\ cache \in Document \cup {None}
    /\ \A l \in Login :
          /\ metadata[l] \in Document \cup {None}
          /\ token[l] \in IdToken \cup {None}
          /\ jwks[l] \subseteq Key
          /\ reason[l] \in Reason \cup {None}
          /\ pc[l] = "failed" <=> reason[l] # None
          /\ pc[l] \in {"discovered", "post", "token", "jwks"} <=>
                metadata[l] # None
          /\ pc[l] \in {"token", "jwks"} <=> token[l] # None

\* No login sends its code, its verifier and the client secret where they do
\* not belong: the metadata a login goes on with, and what it leaves for others
\* in the cache, are whole, of the configured issuer, and https in production,
\* whatever the provider served to other logins in between.
OnlySoundEndpoints ==
    \A doc \in {cache} \cup {metadata[l] : l \in {l \in Login : pc[l] # "discovered"}} :
        doc # None => \/ doc.flaw = None
                      \/ doc.flaw = "http" /\ ~Production

\* A login that fails over its signing key is bad luck, never staleness: the
\* provider changed its JWKS while this very login waited, or has two keys of
\* one id.  The logins after it do not fail for the same rotation.
KeysAreFresh ==
    [][\A l \in Login :
          reason[l] = None /\ reason'[l] \in {"key", "signature"} =>
              \/ l \in rotated
              \/ \E k \in jwks[l] : \E j \in jwks[l] \ {k} : KidOf[k] = KidOf[j]]_vars
=============================================================================
