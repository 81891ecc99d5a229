------------------------- MODULE OidcClient_proofs -------------------------
(***************************************************************************)
(* The safety of OidcClient, for any number of concurrent logins, keys and *)
(* discovery documents.                                                    *)
(***************************************************************************)
EXTENDS OidcClient, FiniteSetTheorems, TLAPS

\* The locals are functions over the logins, so EXCEPT changes one login.
Locals ==
    /\ pc \in [Login -> {"idle", "discover", "discovered", "post", "token",
                         "jwks", "done", "failed"}]
    /\ metadata \in [Login -> Document \cup {None}]
    /\ token \in [Login -> IdToken \cup {None}]
    /\ jwks \in [Login -> SUBSET Key]
    /\ reason \in [Login -> Reason \cup {None}]

\* Unless the JWKS changed since its token was made, the key of a login is
\* published until it has read the JWKS, and in its copy from then on.
KeyFollows ==
    \A l \in Login : l \notin rotated =>
        /\ pc[l] = "token" => token[l].key \in published
        /\ pc[l] = "jwks" => token[l].key \in jwks[l]

IInv == TypeOK /\ Locals /\ OnlySoundEndpoints /\ KeyFollows

USE KeyAssumption, NoneAssumption DEF KeyAssumption, NoneAssumption

-----------------------------------------------------------------------------
\* Before any login nothing is cached and nothing was answered.
LEMMA InitInv == Init => IInv
BY DEF Init, IInv, TypeOK, Locals, OnlySoundEndpoints, KeyFollows, Document

\* A login that is forgotten has no locals, the others keep theirs.
LEMMA FailStep ==
    ASSUME IInv, NEW l \in Login, NEW why \in Reason, Fail(l, why),
           pc[l] \notin {"done", "failed"},
           UNCHANGED <<provider, restarts, cache>>
    PROVE  IInv'
<1>1. /\ metadata' \in [Login -> Document \cup {None}]
      /\ token' \in [Login -> IdToken \cup {None}]
      /\ jwks' \in [Login -> SUBSET Key]
  BY DEF Fail, Forget, IInv, Locals
<1>2. /\ metadata'[l] = None /\ token'[l] = None /\ jwks'[l] = {}
      /\ pc'[l] = "failed" /\ reason'[l] = why
      /\ \A k \in Login \ {l} :
            /\ metadata'[k] = metadata[k] /\ token'[k] = token[k]
            /\ jwks'[k] = jwks[k] /\ pc'[k] = pc[k] /\ reason'[k] = reason[k]
  BY DEF Fail, Forget, IInv, Locals
<1>3. Locals'
  BY <1>1 DEF Fail, IInv, Locals
<1>4. TypeOK'
  BY <1>1, <1>2 DEF IInv, TypeOK, provider
<1>5. OnlySoundEndpoints'
  BY <1>2 DEF IInv, OnlySoundEndpoints, Locals
<1>6. KeyFollows'
  BY <1>2 DEF IInv, KeyFollows, Fail, Forget, provider
<1>. QED BY <1>3, <1>4, <1>5, <1>6 DEF IInv

\* What exchange() refuses an ID token for is one of the listed reasons.
LEMMA RefusalIsReason ==
    ASSUME IInv, NEW l \in Login, pc[l] = "jwks"
    PROVE  Refusal(l) \in Reason \cup {None}
BY DEF IInv, TypeOK, IdToken, Refusal, Reason

\* Every step of a login and of the provider keeps the invariant.
LEMMA NextInv == IInv /\ [Next]_vars => IInv'
<1>. SUFFICES ASSUME IInv, [Next]_vars PROVE IInv'
  OBVIOUS
<1>. USE DEF IInv
<1>1. CASE ChangeDocument
  BY <1>1 DEF ChangeDocument, TypeOK, Locals, OnlySoundEndpoints, KeyFollows,
              local
<1>2. CASE ChangeKeys
  BY <1>2 DEF ChangeKeys, TypeOK, Locals, OnlySoundEndpoints, KeyFollows, local
<1>3. CASE Restart
  <2>. DEFINE running == {l \in Login : pc[l] \notin Over \cup {"idle"}}
  <2>1. /\ pc' = [l \in Login |-> IF l \in running THEN "failed" ELSE pc[l]]
        /\ reason' = [l \in Login |-> IF l \in running THEN "request"
                                      ELSE reason[l]]
        /\ metadata' = [l \in Login |-> IF l \in running THEN None
                                        ELSE metadata[l]]
        /\ token' = [l \in Login |-> IF l \in running THEN None ELSE token[l]]
        /\ jwks' = [l \in Login |-> IF l \in running THEN {} ELSE jwks[l]]
        /\ rotated' = rotated \ running
        /\ cache' = None
        /\ UNCHANGED provider
    BY <1>3 DEF Restart, Forget
  <2>. HIDE DEF running
  <2>2. Locals'
    BY <2>1 DEF Locals, Reason
  <2>3. TypeOK'
    BY <2>1 DEF TypeOK, provider, Reason
  <2>4. OnlySoundEndpoints'
    BY <2>1 DEF OnlySoundEndpoints, Locals, running, Over
  <2>5. KeyFollows'
    BY <2>1 DEF KeyFollows, provider
  <2>. QED BY <2>2, <2>3, <2>4, <2>5
<1>4. ASSUME NEW l \in Login, Begin(l) PROVE IInv'
  BY <1>4 DEF Begin, TypeOK, Locals, OnlySoundEndpoints, KeyFollows, provider
<1>5. ASSUME NEW l \in Login, Discover(l) PROVE IInv'
  BY <1>5 DEF Discover, TypeOK, Locals, OnlySoundEndpoints, KeyFollows, provider
<1>6. ASSUME NEW l \in Login, Store(l) PROVE IInv'
  <2>1. CASE ~Accepted(metadata[l])
    BY <1>6, <2>1, FailStep DEF Store, Reason
  <2>2. CASE Accepted(metadata[l])
    <3>1. metadata[l].flaw = None \/ (metadata[l].flaw = "http" /\ ~Production)
      BY <2>2 DEF Accepted
    <3>. QED
      BY <1>6, <2>2, <3>1 DEF Store, TypeOK, Locals, OnlySoundEndpoints,
                              KeyFollows, provider
  <2>. QED BY <2>1, <2>2
<1>7. ASSUME NEW l \in Login, Post(l) PROVE IInv'
  <2>1. CASE metadata[l].version # document.version
    BY <1>7, <2>1, FailStep DEF Post, Reason
  <2>2. CASE metadata[l].version = document.version
    <3>1. PICK t \in IdToken : t.key = signing
                               /\ token' = [token EXCEPT ![l] = t]
      BY <1>7, <2>2 DEF Post
    <3>. QED
      BY <1>7, <2>2, <3>1 DEF Post, TypeOK, Locals, OnlySoundEndpoints,
                              KeyFollows, provider
  <2>. QED BY <2>1, <2>2
<1>8. ASSUME NEW l \in Login, GetJwks(l) PROVE IInv'
  <2>1. CASE metadata[l].version # document.version
    BY <1>8, <2>1, FailStep DEF GetJwks, Reason
  <2>2. CASE metadata[l].version = document.version
    BY <1>8, <2>2 DEF GetJwks, ServedKeys, TypeOK, Locals, OnlySoundEndpoints,
                      KeyFollows, provider
  <2>. QED BY <2>1, <2>2
<1>9. ASSUME NEW l \in Login, Validate(l) PROVE IInv'
  <2>1. CASE Refusal(l) # None
    BY <1>9, <2>1, FailStep, RefusalIsReason DEF Validate
  <2>2. CASE Refusal(l) = None
    <3>1. /\ pc' = [pc EXCEPT ![l] = "done"]
          /\ metadata' = [k \in Login |-> IF k = l THEN None ELSE metadata[k]]
          /\ token' = [k \in Login |-> IF k = l THEN None ELSE token[k]]
          /\ jwks' = [k \in Login |-> IF k = l THEN {} ELSE jwks[k]]
          /\ rotated' = rotated \ {l}
          /\ UNCHANGED <<provider, cache, reason>>
      BY <1>9, <2>2 DEF Validate, Forget
    <3>2. Locals'
      BY <3>1 DEF Locals
    <3>3. TypeOK'
      BY <1>9, <3>1 DEF Validate, TypeOK, Locals, provider
    <3>. QED
      BY <3>1, <3>2, <3>3 DEF Locals, OnlySoundEndpoints, KeyFollows, provider
  <2>. QED BY <2>1, <2>2
<1>10. ASSUME NEW l \in Login, RequestFails(l) PROVE IInv'
  BY <1>10, FailStep DEF RequestFails, Reason
<1>11. CASE UNCHANGED vars
  BY <1>11 DEF vars, local, provider, TypeOK, Locals, OnlySoundEndpoints,
               KeyFollows
<1>. QED
  BY <1>1, <1>2, <1>3, <1>4, <1>5, <1>6, <1>7, <1>8, <1>9, <1>10, <1>11
  DEF Next, Step

\* The invariant the properties follow from.
THEOREM ClientInvariant == Spec => []IInv
<1>. QED BY InitInv, NextInv, PTL DEF Spec

\* The locals and the provider keep their types.
THEOREM ClientTypes == Spec => []TypeOK
<1>1. IInv => TypeOK
  BY DEF IInv
<1>. QED BY <1>1, ClientInvariant, PTL

\* However many logins share the cache, none goes on with metadata that was
\* refused, or would have been.
THEOREM SoundEndpoints == Spec => []OnlySoundEndpoints
<1>1. IInv => OnlySoundEndpoints
  BY DEF IInv
<1>. QED BY <1>1, ClientInvariant, PTL

-----------------------------------------------------------------------------
\* The key and its copy in the JWKS the login read: it is the only match unless
\* two keys of the copy share an id.
LEMMA OneMatch ==
    ASSUME IInv, NEW l \in Login, pc[l] = "jwks", token[l].key \in jwks[l],
           \A k \in jwks[l] : \A j \in jwks[l] \ {k} : KidOf[k] # KidOf[j]
    PROVE  Refusal(l) \notin {"key", "signature"}
<1>1. Matching(l) = {token[l].key}
  BY DEF Matching
<1>2. Cardinality(Matching(l)) = 1
  BY <1>1, FS_Singleton
<1>3. token[l].flaw \in {None, "algorithm", "claims", "nonce"}
  BY DEF IInv, TypeOK, IdToken
<1>. QED BY <1>1, <1>2, <1>3 DEF Refusal, Reason

\* A login that ends over its key had a provider that changed its keys
\* meanwhile, or that has two keys of one id.
LEMMA FreshStep ==
    ASSUME IInv, [Next]_vars, NEW l \in Login,
           reason[l] = None, reason'[l] \in {"key", "signature"}
    PROVE  \/ l \in rotated
           \/ \E k \in jwks[l] : \E j \in jwks[l] \ {k} : KidOf[k] = KidOf[j]
<1>. USE DEF IInv, Locals
<1>1. Validate(l) /\ reason'[l] = Refusal(l)
  <2>1. CASE UNCHANGED reason
    BY <2>1 DEF Reason
  <2>2. ASSUME NEW k \in Login, NEW why \in Reason, Fail(k, why),
               why \notin {"key", "signature"}
        PROVE  FALSE
    BY <2>2 DEF Fail, Reason
  <2>3. CASE Restart
    BY <2>3 DEF Restart, Reason
  <2>4. ASSUME NEW k \in Login, Step(k), reason' # reason, ~Validate(k)
        PROVE  FALSE
    BY <2>2, <2>4 DEF Step, Begin, Discover, Store, Post, GetJwks, RequestFails,
                      Reason
  <2>5. ASSUME NEW k \in Login, Validate(k), reason' # reason
        PROVE  Validate(l) /\ reason'[l] = Refusal(l)
    <3>1. Fail(k, Refusal(k))
      BY <2>5 DEF Validate
    <3>2. k = l
      BY <3>1 DEF Fail, Reason
    <3>. QED BY <2>5, <3>1, <3>2 DEF Fail
  <2>. QED
    BY <2>1, <2>3, <2>4, <2>5 DEF Next, vars, local, ChangeDocument, ChangeKeys
<1>2. pc[l] = "jwks"
  BY <1>1 DEF Validate
<1>3. CASE l \notin rotated
  BY <1>1, <1>2, <1>3, OneMatch DEF IInv, KeyFollows
<1>. QED BY <1>3

\* No login is refused for a key rotation it did not live through.
THEOREM KeysFresh == Spec => KeysAreFresh
<1>1. IInv /\ [Next]_vars =>
        [\A l \in Login :
          reason[l] = None /\ reason'[l] \in {"key", "signature"} =>
              \/ l \in rotated
              \/ \E k \in jwks[l] : \E j \in jwks[l] \ {k} :
                    KidOf[k] = KidOf[j]]_vars
  BY FreshStep
<1>. QED BY <1>1, ClientInvariant, PTL DEF Spec, KeysAreFresh
=============================================================================
