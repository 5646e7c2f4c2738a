------------------------------ MODULE ZeroTrust ------------------------------
(***************************************************************************)
(* What a signed request carries and what the guards decide of it without  *)
(* looking at anything shared: the signature (common/zt), the tenant id    *)
(* (TenantContextGuard) and the roles (tenant-role-hierarchy.util.ts).     *)
(*                                                                         *)
(* A signature is the key it was made with; it verifies under that key     *)
(* when the claims that the guard computes are those that were signed.     *)
(***************************************************************************)
EXTENDS Integers, FiniteSets, Sequences

CONSTANTS
    Keyring,       \* ZT_VERIFY_PUBLIC_KEYS: key id -> key
    HmacSecret,    \* the key of the legacy protocol
    AcceptV1Hmac   \* whether that protocol is still accepted

ASSUME AcceptV1HmacAssumption == AcceptV1Hmac \in BOOLEAN

\* A route: the roles its handler names, whether API clients may call it, whether the
\* handler writes the answer itself (@Res) instead of returning it, and whether it takes
\* a multipart body (FileInterceptor).
Route(required, apiClientAllowed, streams, multipart) ==
    [required |-> required, apiClientAllowed |-> apiClientAllowed, streams |-> streams,
     multipart |-> multipart]

\* A request as it arrives.  `url`: the parts of its URL that '?' separates, of which
\* `signedUrl` = <<path, query>> were signed; `intact`: the other claims are those that
\* were signed.  `content`: its body is "parsed" (JSON or a form), "multipart" or "none";
\* `bodyIntact`: it is the body whose hash was signed.
Request(user, nonce, ts, version, kid, signer, url, signedUrl, intact, content, bodyIntact, apiClient, tenantIsUuid, route) ==
    [user |-> user, nonce |-> nonce, ts |-> ts, version |-> version, kid |-> kid,
     signer |-> signer, url |-> url, signedUrl |-> signedUrl, intact |-> intact,
     content |-> content, bodyIntact |-> bodyIntact,
     apiClient |-> apiClient, tenantIsUuid |-> tenantIsUuid, route |-> route]

-----------------------------------------------------------------------------
\* const [path, queryPart] = originalUrl.split('?'); queryPart ?? ''.  What follows a
\* second '?' is dropped here, and reaches the handler.
PathAndQuery(url) == <<url[1], IF Len(url) > 1 THEN url[2] ELSE "">>

ClaimsAsSigned(r) == r.intact /\ PathAndQuery(r.url) = r.signedUrl

\* req.rawBody is there for the bodies that are parsed.
RawBody(r) == r.content = "parsed"

\* sha256Hex(body) against the signed x-zt-body-sha256.
BodyMatches(r) == RawBody(r) => r.bodyIntact

\* A handler sees a parsed body, and a multipart one where its route takes it.
SeesBody(r) == r.content = "parsed" \/ (r.content = "multipart" /\ r.route.multipart)

\* verifyEd25519 with the key of x-zt-kid, which is itself a signed claim.
SignedV2(r) ==
    /\ r.version = "2"
    /\ r.kid \in DOMAIN Keyring
    /\ r.signer = Keyring[r.kid]
    /\ ClaimsAsSigned(r)

SignedV1(r) ==
    /\ r.version = "1"
    /\ AcceptV1Hmac
    /\ r.signer = HmacSecret
    /\ ClaimsAsSigned(r)

\* Mutant: the body is not compared with the signed hash.
AuthenticWithoutBody(r) == SignedV1(r) \/ SignedV2(r)

\* verifyZtRequest, its timestamp apart.
Authentic(r) == BodyMatches(r) /\ (SignedV1(r) \/ SignedV2(r))

ReplayKey(r) == <<r.user, r.nonce>>

\* |Date.now() - tsMs| <= maxSkewMs
InWindow(clock, ts, skew) == clock - ts <= skew /\ ts - clock <= skew

-----------------------------------------------------------------------------
Roles == {"MEMBER", "ADMIN", "OWNER"}
Rank(role) == CASE role = "MEMBER" -> 1 [] role = "ADMIN" -> 2 [] role = "OWNER" -> 3
NoMember == "none"    \* the directory answers 404

HasAtLeastRole(actual, required) == Rank(actual) >= Rank(required)

\* required.some(...)
RoleSuffices(role, route) == \E r \in route.required : HasAtLeastRole(role, r)

\* Who may execute a route, given the role the directory knows.
MayExecute(role, r) ==
    IF r.apiClient THEN r.route.required = {} \/ r.route.apiClientAllowed
    ELSE r.route.required = {} \/ (role # NoMember /\ RoleSuffices(role, r.route))

Trusted == {Keyring[k] : k \in DOMAIN Keyring} \union (IF AcceptV1Hmac THEN {HmacSecret} ELSE {})
=============================================================================
