----------------------------- MODULE JwksCache -----------------------------
(***************************************************************************)
(* The server's signing keys, and a relying party that verifies tokens     *)
(* with the Go SDK: it caches the JWKS and asks again when the cache has   *)
(* expired or a kid is not in it.  Its requests overlap, and their answers *)
(* may be stored in another order than they were made.                     *)
(***************************************************************************)
EXTENDS JwtKeys

CONSTANT Asker   \* requests of the relying party served at a time

VARIABLES
  keys,      \* JWKSVerifier.keys
  expired,   \* fetchedAt is more than CacheTTL ago
  answer     \* what each request was answered, empty when it has not asked

cacheVars == <<keys, expired, answer>>

CacheInit == Init /\ keys = {} /\ expired = FALSE /\ answer = [a \in Asker |-> {}]

Known(kid) == \E k \in keys : k.kid = kid

\* Mutant: only a kid that is not known is asked for.
keyForKnown(a, kid) ==
  /\ answer[a] = {} /\ ~Known(kid)
  /\ up
  /\ answer' = [answer EXCEPT ![a] = JWKS]
  /\ UNCHANGED <<keys, expired, vars>>

\* A token with this kid comes in, and the JWKS is asked for.  When it is not
\* answered the cache stays, and the token is judged by it.
keyFor(a, kid) ==
  /\ answer[a] = {} /\ (keys = {} \/ expired \/ ~Known(kid))
  /\ up
  /\ answer' = [answer EXCEPT ![a] = JWKS]
  /\ UNCHANGED <<keys, expired, vars>>

\* The answer is stored, whatever has been stored since it was given.
refresh(a) ==
  /\ answer[a] # {}
  /\ keys' = answer[a] /\ expired' = FALSE
  /\ answer' = [answer EXCEPT ![a] = {}]
  /\ UNCHANGED vars

CacheTTL ==
  /\ ~expired /\ keys # {} /\ expired' = TRUE
  /\ UNCHANGED <<keys, answer, vars>>

CacheNext ==
  \/ Next /\ UNCHANGED cacheVars
  \/ CacheTTL
  \/ \E a \in Asker : refresh(a) \/ \E kid \in 1..MaxKid : keyFor(a, kid)

\* A token signed with the current key comes in.
Traffic == \E a \in Asker : keyFor(a, cur.kid)

\* Time passes, answers arrive, and tokens keep coming: when the cache must be
\* renewed one of them is answered in the end.
CacheSpec ==
  /\ CacheInit /\ [][CacheNext]_<<vars, cacheVars>>
  /\ WF_<<vars, cacheVars>>(CacheTTL)
  /\ WF_<<vars, cacheVars>>(Traffic)
  /\ \A a \in Asker : WF_<<vars, cacheVars>>(refresh(a))

-----------------------------------------------------------------------------
\* When the server stays up, and rotations have come to an end, the relying
\* party comes to hold its keys and no others: a retired key is not trusted for
\* ever, though an answer may be stored after the keys it names have changed
\* (keyFor, refresh).
SdkCatchesUp == <>[]up => <>[](keys = JWKS)
=============================================================================
