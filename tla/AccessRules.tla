---- MODULE AccessRules ----
(* Who a request is, whether it may use the instance and what it may       *)
(* change: the decisions of security/access.py and of the handler's guard  *)
(* (web/handler.py) as functions of the request, the run's options and     *)
(* what people.json and tokens.json said when they were read.              *)
(*                                                                         *)
(* A request r is a record                                                 *)
(*   frame      "none", "whole" (a body as long as announced), "short",    *)
(*              "chunked" or "oversized"                                   *)
(*   headers    "single", or "twice" when a security header is repeated    *)
(*   host, origin   the headers, as HostRules reads them                   *)
(*   peer       "loopback", "trusted" (a trusted proxy) or "remote"        *)
(*   forwarding a proxy added its headers                                  *)
(*   bearer     NoOne, Malformed or a token                                *)
(*   user       what the provider's user header says: NoOne, Malformed or  *)
(*              a login; email: what the proxy's e-mail header says        *)
(*   post, path                                                            *)
EXTENDS HostRules, FiniteSets

CONSTANTS Logins, Tokens,
          NoOne, Malformed,   \* an absent and an unusable header
          Owner,              \* the account --auth local vouches for
          LocalAgent,         \* the headerless agent of this machine
          NoRole              \* a people.json row without a role

Roles == {"owner", "editor", "viewer", "agent"}
DefaultRole == "editor"

(* The run's options: settings.auth, agentLoopback, tailnetAgent,          *)
(* membersOnly and the set allow; originCheck, the entries publicHosts and *)
(* whether a proxy's e-mail header names the login (byEmail).              *)
Providers == {"tailscale", "local", "trusted-proxy"}

ReadPaths == {"/api/pins"}
ViewerPosts == {"/api/pick", "/api/revision-build"}
OwnerPosts == {"/api/clear", "/api/pins/1/purge"}
ConfirmPosts == {"/api/pins/1/confirm"}
PostPaths == ViewerPosts \cup OwnerPosts \cup ConfirmPosts \cup {"/api/pin", "/api/pins/1/reply"}

(* What a reading of people.json gives: usable, and the role field of      *)
(* every login listed.                                                     *)
RoleValue(field) == IF field = NoRole THEN DefaultRole ELSE IF field \in Roles THEN field ELSE "viewer"
PersonRole(people, login) ==
    IF ~people.usable THEN "viewer"
    ELSE IF login \in DOMAIN people.of THEN RoleValue(people.of[login]) ELSE DefaultRole
IsMember(people, login) == people.usable /\ login \in DOMAIN people.of

(* _read_raw, _check_singleton_headers, _check_origin.                     *)
Framed(r) == r.frame \in {"none", "whole"}
FromItsSide(r, hosts) ==
    /\ r.host /= {} => HostOk(r.host, hosts)
    /\ \A o \in r.origin : OriginOk(o, r.host, hosts)
SameOrigin(s, r) == r.headers = "single" /\ (s.originCheck => FromItsSide(r, PublicHosts(s.publicHosts)))
Forwarded(r) == CameThroughProxy(r.forwarding, r.host)

(* proxy_actor, actor_of, _identity_login: the login a person's headers    *)
(* give; a malformed one is nobody's.                                      *)
LoginOf(s, r) == IF s.auth = "trusted-proxy" /\ s.byEmail /\ r.email /= NoOne THEN r.email ELSE r.user

(* identify before the files are read: which of them decides.              *)
Vouched(s, r) ==
    /\ r.bearer = NoOne /\ r.user /= NoOne
    /\ (s.auth = "tailscale" /\ r.peer = "loopback") \/ (s.auth = "trusted-proxy" /\ r.peer = "trusted")
FileAsked(s, r) == IF r.bearer /= NoOne THEN "tokens" ELSE IF Vouched(s, r) THEN "people" ELSE "none"

(* identify: {} for a refusal, else the principal.                         *)
Identify(s, r, tokens, people) ==
    LET principal(login, role, via) == {[login |-> login, role |-> role, via |-> via]}
    IN CASE r.bearer /= NoOne ->
              IF r.bearer \in tokens THEN principal(r.bearer, "agent", "token") ELSE {}
         [] r.bearer = NoOne /\ Vouched(s, r) ->
              IF LoginOf(s, r) \in Logins
              THEN principal(LoginOf(s, r), PersonRole(people, LoginOf(s, r)), "header") ELSE {}
         [] r.bearer = NoOne /\ ~Vouched(s, r) /\ r.peer = "loopback" /\ s.auth = "local" ->
              IF Forwarded(r) THEN {} ELSE principal(Owner, "owner", "local-owner")
         [] r.bearer = NoOne /\ ~Vouched(s, r) /\ r.peer = "loopback" /\ s.auth = "tailscale" ->
              IF s.agentLoopback /\ (Forwarded(r) => s.tailnetAgent)
              THEN principal(LocalAgent, "agent", "loopback-agent") ELSE {}
         [] OTHER -> {}

(* admit: a person is filtered by --members-only or --allow, the headerless*)
(* agent by where it came from; tokens and the local owner never are.      *)
AsksMembers(s, p) == p.via = "header" /\ s.membersOnly /\ p.login \notin s.allow
Admits(s, r, p, people) ==
    /\ AsksMembers(s, p) => IsMember(people, p.login)
    /\ (p.via = "header" /\ ~s.membersOnly) => (s.allow = {} \/ p.login \in s.allow)
    /\ (p.via = "loopback-agent" /\ (s.allow /= {} \/ s.membersOnly)) => ~Forwarded(r)

(* check_role, post_operation, check_read.                                 *)
MayPost(p, path) ==
    /\ p.role = "viewer" => path \in ViewerPosts
    /\ p.role = "agent" => path \notin ConfirmPosts
    /\ path \in OwnerPosts => p.role = "owner"
    /\ path \in PostPaths
MayRead(path) == path \in ReadPaths

IsAgentActor(p) == p.login = LocalAgent \/ p.login \in Tokens
SeesErrorDetail(p) == p.role /= "viewer"
====
