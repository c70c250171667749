---------------------------- MODULE AccessProofs ----------------------------
(***************************************************************************)
(* Proofs about Access, for any people, tokens, requests, commands and     *)
(* faults: what a request is taken for was so since it arrived, requests   *)
(* stay apart, and what the files and the audit log hold was done.  And    *)
(* about HostRules, for any names and ports: which hosts, origins and      *)
(* addresses a request may name.                                           *)
(***************************************************************************)
EXTENDS Access, SequenceTheorems, FiniteSetTheorems, TLAPS

-----------------------------------------------------------------------------
(* The invariant: the files, and what a cache holds of them                *)

ConnShape(x) ==
  x = [pc |-> x.pc, req |-> x.req, unread |-> x.unread, key |-> x.key, principal |-> x.principal,
       admitted |-> x.admitted, told |-> x.told, sincePeople |-> x.sincePeople,
       sinceTokens |-> x.sinceTokens, rows |-> x.rows]
ShellShape(x) ==
  x = [pc |-> x.pc, cmd |-> x.cmd, rows |-> x.rows, line |-> x.line, token |-> x.token, saw |-> x.saw]

(* The last version of a history is the file; what is there is what was    *)
(* done, whether it can be read or not.                                    *)
FilesInv ==
  /\ peopleWas \in Seq(Range(peopleWas)) /\ Len(peopleWas) >= 1
  /\ Reading(people) = peopleWas[Len(peopleWas)]
  /\ people = [inode |-> people.inode, mode |-> people.mode, shape |-> people.shape, rows |-> people.rows]
  /\ people.inode \in Nat /\ (people.inode = 0 => people.rows = <<>>)
  /\ people.rows = truth
  /\ tokensWas \in Seq(SUBSET Tokens) /\ Len(tokensWas) >= 1
  /\ tokens = [inode |-> Len(tokensWas), rows |-> tokensWas[Len(tokensWas)]]

(* A version as it was from v on.                                          *)
WasPeople(x, v) == \E w \in v..Len(peopleWas) : x = peopleWas[w]
WasTokens(x, v) == \E w \in v..Len(tokensWas) : x = tokensWas[w]

(* A value was loaded after the stat it is kept under.                     *)
CachesInv ==
  /\ \A e, f \in rolesCache : e = f
  /\ \A e, f \in tokensCache : e = f
  /\ \A e \in rolesCache : e.key[3] \in 1..Len(peopleWas) /\ WasPeople(e.value, e.key[3])
  /\ \A e \in tokensCache : e.key[1] \in 1..Len(tokensWas) /\ WasTokens(e.value, e.key[1])

(* Whoever a request is taken for, the files said so since n and m.        *)
Current(p, n, m, admitted) ==
  /\ p.via = "header" => \E w \in n..Len(peopleWas) : p.role = PersonRole(peopleWas[w], p.login)
  /\ p.via = "token" => \E w \in m..Len(tokensWas) : p.login \in tokensWas[w]
  /\ (admitted # {} /\ AsksMembers(settings, p)) => \E w \in n..Len(peopleWas) : IsMember(peopleWas[w], p.login)

ConnInv(c) ==
  LET x == conn[c]
  IN  /\ ConnShape(x)
      /\ x.pc \in {"closed", "read", "identify", "look up", "admit", "look up member", "act", "record", "write", "idle"}
      /\ x.unread \in BOOLEAN /\ (x.unread => x.pc = "read")
      /\ x.pc \in {"read", "identify", "look up"} => x.principal = {}
      /\ x.pc \in {"admit", "look up member"} => x.principal # {} /\ x.admitted = {}
      /\ x.admitted \subseteq x.principal /\ x.told \subseteq x.admitted
      /\ \A p, q \in x.principal : p = q
      /\ \A p \in x.principal : Current(p, x.sincePeople, x.sinceTokens, x.admitted)
      /\ x.sincePeople \in 0..Len(peopleWas) /\ x.sinceTokens \in 0..Len(tokensWas)
      /\ x.pc # "closed" \/ x.principal # {} => x.sincePeople # 0 /\ x.sinceTokens # 0
      /\ x.pc = "look up" => FileAsked(settings, x.req) # "none"
      /\ (x.pc = "look up member" \/ (x.pc = "look up" /\ FileAsked(settings, x.req) = "people")) =>
            x.key[3] \in x.sincePeople..Len(peopleWas)
      /\ (x.pc = "look up" /\ FileAsked(settings, x.req) = "tokens") =>
            x.key[1] \in x.sinceTokens..Len(tokensWas)

AnswersInv == /\ settings \in Settings /\ CachesInv
              /\ conn = [c \in Conns |-> conn[c]] /\ \A c \in Conns : ConnInv(c)

-----------------------------------------------------------------------------
(* The invariant: those who write people.json, and the audit log           *)

(* Who is about to write goes by the rows there, which it alone writes.    *)
PeopleInv ==
  /\ peopleLock \in {Free} \cup Conns \cup Shells
  /\ \A c \in Conns : conn[c].pc = "write" => peopleLock = c /\ conn[c].rows = people.rows
  /\ \A k \in Shells : shell[k].pc = "write member" =>
        /\ peopleLock = k /\ shell[k].cmd \in MemberSteps
        /\ shell[k].rows = MemberRows(shell[k].cmd, people.rows)
        /\ shell[k].line = MemberLine(shell[k].cmd, people.rows)

Lines == {<<"member_added", m.login, m.role>> : m \in MemberSteps}
         \cup {<<"member_removed", m.login, role>> : m \in MemberSteps, role \in Roles}
         \cup {<<"member_role", m.login, m.role, role>> : m \in MemberSteps, role \in Roles}
         \cup {<<"token_created", t>> : t \in Tokens} \cup {<<"token_revoked", t>> : t \in Tokens}

Auditing(k, kind) == shell[k].pc = "audit" /\ Kind(shell[k].cmd) = kind
LockOf(kind) == IF kind = "members" THEN peopleLock ELSE tokensLock

(* Between its write and its audit line a command holds its file's lock,   *)
(* and its line is all that the audit log lacks.                           *)
AuditInv ==
  /\ audit \in [Kinds -> Seq(Lines)] /\ changes \in [Kinds -> Seq(Lines)] /\ faults \in Nat
  /\ \A kind \in Kinds :
        /\ Range(audit[kind]) \subseteq Range(changes[kind])
        /\ faults = 0 /\ (\A k \in Shells : ~Auditing(k, kind)) => audit[kind] = changes[kind]
        /\ \A k \in Shells : Auditing(k, kind) =>
              /\ LockOf(kind) = k
              /\ Range(shell[k].line) \subseteq Range(changes[kind])
              /\ faults = 0 => changes[kind] = audit[kind] \o shell[k].line
  /\ \A k \in Shells : shell[k].pc \in {"write tokens", "audit"} => shell[k].line \in Seq(Lines)

-----------------------------------------------------------------------------
(* The invariant: tokens                                                   *)

Spent(t) == t \notin tokens.rows /\ t \in UNION Range(tokensWas)

ShellInv(k) ==
  LET x == shell[k]
      op == x.cmd.op
  IN  /\ ShellShape(x)
      /\ x.pc \in {"idle", "write member", "audit", "lock tokens", "write tokens", "token file", "forget", "unlink"}
      /\ x.pc = "lock tokens" => \/ x.cmd \in TokenSteps
                                 \/ op = "undo" /\ x.cmd.token = x.token
      /\ x.pc = "write tokens" =>
            /\ tokensLock = k
            /\ \/ op = "create" /\ x.token \in Fresh /\ x.rows = tokens.rows \cup {x.token}
               \/ op \in {"revoke", "undo"} /\ x.token \in tokens.rows /\ x.rows = tokens.rows \ {x.token}
      /\ x.pc = "audit" => \/ x.cmd \in MemberSteps
                           \/ op = "create" /\ x.token \in Tokens
                           \/ op \in {"revoke", "undo"} /\ Spent(x.token)
      /\ x.pc = "token file" => op = "create" /\ x.token \in Tokens
      /\ x.pc \in {"forget", "unlink"} => Spent(x.token)

(* A new token someone is about to put into the token file, or to revoke.  *)
Carries(k) == \/ shell[k].cmd.op = "create" /\ shell[k].pc \in {"audit", "token file"}
              \/ shell[k].cmd.op = "undo" /\ shell[k].pc \in {"lock tokens", "write tokens"}

TokensInv ==
  /\ tokensLock \in {Free} \cup Shells /\ tokenFile \subseteq Tokens
  /\ shell = [k \in Shells |-> shell[k]] /\ \A k \in Shells : ShellInv(k)
  /\ \A t \in tokens.rows : \/ t \in known \cup adrift \cup tokenFile
                            \/ \E k \in Shells : shell[k].token = t /\ Carries(k)

AccessInv == FilesInv /\ AnswersInv /\ PeopleInv /\ AuditInv /\ TokensInv

-----------------------------------------------------------------------------
(* Files: a history grows by a version                                     *)

LEMMA AppendAny ==
  ASSUME NEW s, s \in Seq(Range(s)), NEW e
  PROVE  /\ Append(s, e) \in Seq(Range(Append(s, e)))
         /\ Len(s) \in Nat /\ Len(Append(s, e)) = Len(s) + 1
         /\ \A v \in 1..Len(s) : Append(s, e)[v] = s[v]
         /\ Append(s, e)[Len(s) + 1] = e
<1> DEFINE S == Range(s) \cup {e}
<1>1. s \in Seq(S)
  BY SeqMonotonic
<1> HIDE DEF S
<1>2. /\ Append(s, e) \in Seq(S) /\ Len(s) \in Nat /\ Len(Append(s, e)) = Len(s) + 1
      /\ \A v \in 1..Len(s) : Append(s, e)[v] = s[v]
      /\ Append(s, e)[Len(s) + 1] = e
  BY <1>1, e \in S, AppendProperties, LenProperties DEF S
<1> PICK t : t = Append(s, e)
  OBVIOUS
<1>3. t \in Seq(S)
  BY <1>2
<1>4. DOMAIN t = 1..Len(t) /\ t = [i \in 1..Len(t) |-> t[i]] /\ Len(t) \in Nat
  BY <1>3, LenProperties
<1>5. \A i \in 1..Len(t) : t[i] \in Range(t)
  BY <1>4 DEF Range
<1>6. t \in Seq(Range(t))
  BY <1>4, <1>5, SeqDef
<1> QED BY <1>2, <1>6

(* The histories keep what they have.                                      *)
FilesGrow ==
  /\ Len(peopleWas) \in Nat /\ Len(peopleWas') \in Nat /\ Len(peopleWas) <= Len(peopleWas')
  /\ \A v \in 1..Len(peopleWas) : peopleWas'[v] = peopleWas[v]
  /\ Len(tokensWas) \in Nat /\ Len(tokensWas') \in Nat /\ Len(tokensWas) <= Len(tokensWas')
  /\ \A v \in 1..Len(tokensWas) : tokensWas'[v] = tokensWas[v]

LEMMA FilesKept ==
  ASSUME FilesInv, UNCHANGED <<people, peopleWas, truth, tokens, tokensWas>>
  PROVE  FilesInv' /\ FilesGrow
<1>1. Len(peopleWas) \in Nat /\ Len(tokensWas) \in Nat
  BY LenProperties DEF FilesInv
<1>2. FilesInv'
  BY DEF FilesInv, Reading
<1> QED BY <1>1, <1>2 DEF FilesGrow

LEMMA PeoplePut ==
  ASSUME FilesInv, NEW f, PutPeople(f), UNCHANGED <<tokens, tokensWas>>,
         f = [inode |-> f.inode, mode |-> f.mode, shape |-> f.shape, rows |-> f.rows],
         f.inode \in Nat, f.inode = 0 => f.rows = <<>>, f.rows = truth'
  PROVE  FilesInv' /\ FilesGrow
<1>1. /\ peopleWas' \in Seq(Range(peopleWas')) /\ Len(peopleWas') = Len(peopleWas) + 1
      /\ Len(peopleWas) \in Nat
      /\ \A v \in 1..Len(peopleWas) : peopleWas'[v] = peopleWas[v]
      /\ peopleWas'[Len(peopleWas) + 1] = Reading(f)
  BY AppendAny DEF FilesInv, PutPeople
<1>2. Len(tokensWas) \in Nat
  BY LenProperties DEF FilesInv
<1>3. people' = f
  BY DEF PutPeople
<1>4. Reading(people)' = Reading(f)
  BY <1>3 DEF Reading
<1>5. Range(peopleWas)' = Range(peopleWas')
  OBVIOUS
<1>6. Reading(people)' = peopleWas'[Len(peopleWas')] /\ Len(peopleWas') >= 1
  BY <1>1, <1>4
<1>7. FilesInv'
  BY <1>1, <1>3, <1>5, <1>6 DEF FilesInv
<1> QED BY <1>1, <1>2, <1>7 DEF FilesGrow

LEMMA TokensPut ==
  ASSUME FilesInv, NEW rows \in SUBSET Tokens, PutTokens(rows), UNCHANGED <<people, peopleWas, truth>>
  PROVE  /\ FilesInv' /\ FilesGrow /\ tokens'.rows = rows
         /\ UNION Range(tokensWas') = (UNION Range(tokensWas)) \cup rows
<1>1. /\ tokensWas' \in Seq(SUBSET Tokens) /\ Len(tokensWas') = Len(tokensWas) + 1
      /\ Len(tokensWas) \in Nat
      /\ \A v \in 1..Len(tokensWas) : tokensWas'[v] = tokensWas[v]
      /\ tokensWas'[Len(tokensWas) + 1] = rows
  BY AppendProperties, LenProperties DEF FilesInv, PutTokens
<1>2. Len(peopleWas) \in Nat
  BY LenProperties DEF FilesInv
<1>3. tokens' = [inode |-> Len(tokensWas'), rows |-> tokensWas'[Len(tokensWas')]]
  BY <1>1 DEF FilesInv, PutTokens
<1>4. FilesInv'
  BY <1>1, <1>3 DEF FilesInv, Reading
<1>5. DOMAIN tokensWas = 1..Len(tokensWas) /\ DOMAIN tokensWas' = 1..Len(tokensWas')
  BY <1>1, LenProperties DEF FilesInv
<1>6. Range(tokensWas') = Range(tokensWas) \cup {rows}
  BY <1>1, <1>5 DEF Range
<1> QED BY <1>1, <1>2, <1>3, <1>4, <1>6 DEF FilesGrow

(* The rows of tokens.json are of the last version.                        *)
LEMMA TokensAre ==
  ASSUME FilesInv
  PROVE  /\ tokens.rows \subseteq Tokens /\ tokens.rows \subseteq UNION Range(tokensWas)
         /\ Len(tokensWas) \in Nat /\ Len(peopleWas) \in Nat
<1>1. /\ Len(tokensWas) \in 1..Len(tokensWas) /\ DOMAIN tokensWas = 1..Len(tokensWas)
      /\ Len(peopleWas) \in Nat
  BY LenProperties DEF FilesInv
<1>2. tokensWas[Len(tokensWas)] \in SUBSET Tokens /\ tokensWas[Len(tokensWas)] \in Range(tokensWas)
  BY <1>1, ElementOfSeq DEF FilesInv, Range
<1> QED BY <1>1, <1>2 DEF FilesInv

-----------------------------------------------------------------------------
(* Answers                                                                 *)

(* What the files said since a request arrived they said since then.       *)
LEMMA CurrentStays ==
  ASSUME FilesGrow, settings' = settings, NEW p, NEW n \in 0..Len(peopleWas), NEW m \in 0..Len(tokensWas),
         NEW admitted, n # 0, m # 0, Current(p, n, m, admitted)
  PROVE  Current(p, n, m, admitted)'
<1>1. \A w \in n..Len(peopleWas) : w \in n..Len(peopleWas') /\ peopleWas'[w] = peopleWas[w]
  BY DEF FilesGrow
<1>2. \A w \in m..Len(tokensWas) : w \in m..Len(tokensWas') /\ tokensWas'[w] = tokensWas[w]
  BY DEF FilesGrow
<1>3. p.via = "header" => \E w \in n..Len(peopleWas') : p.role = PersonRole(peopleWas'[w], p.login)
  BY <1>1 DEF Current
<1>4. p.via = "token" => \E w \in m..Len(tokensWas') : p.login \in tokensWas'[w]
  BY <1>2 DEF Current
<1>5. (admitted # {} /\ AsksMembers(settings, p)) =>
         \E w \in n..Len(peopleWas') : IsMember(peopleWas'[w], p.login)
  BY <1>1 DEF Current
<1> QED BY <1>3, <1>4, <1>5 DEF Current, AsksMembers, PersonRole, IsMember

LEMMA RangesGrow ==
  ASSUME FilesGrow
  PROVE  /\ Len(peopleWas) \in Nat /\ Len(peopleWas') \in Nat /\ Len(tokensWas) \in Nat /\ Len(tokensWas') \in Nat
         /\ \A n \in Nat : /\ \A w \in n..Len(peopleWas) : w \in n..Len(peopleWas')
                           /\ \A w \in n..Len(tokensWas) : w \in n..Len(tokensWas')
BY DEF FilesGrow

LEMMA ConnStays ==
  ASSUME FilesGrow, settings' = settings, NEW c \in Conns, ConnInv(c), conn'[c] = conn[c]
  PROVE  ConnInv(c)'
<1> PICK x : x = conn[c]
  OBVIOUS
<1>1. x = conn'[c]
  OBVIOUS
<1>3. \A p \in x.principal : Current(p, x.sincePeople, x.sinceTokens, x.admitted)'
  <2> SUFFICES ASSUME NEW p \in x.principal PROVE Current(p, x.sincePeople, x.sinceTokens, x.admitted)'
    OBVIOUS
  <2>1. /\ x.sincePeople \in 0..Len(peopleWas) /\ x.sinceTokens \in 0..Len(tokensWas)
        /\ x.sincePeople # 0 /\ x.sinceTokens # 0 /\ Current(p, x.sincePeople, x.sinceTokens, x.admitted)
    BY DEF ConnInv
  <2> QED BY <2>1, CurrentStays
<1>4. /\ \A w \in 0..Len(peopleWas) : w \in 0..Len(peopleWas')
      /\ \A w \in 0..Len(tokensWas) : w \in 0..Len(tokensWas')
      /\ \A w \in x.sincePeople..Len(peopleWas) : w \in x.sincePeople..Len(peopleWas')
      /\ \A w \in x.sinceTokens..Len(tokensWas) : w \in x.sinceTokens..Len(tokensWas')
  <2>1. x.sincePeople \in 0..Len(peopleWas) /\ x.sinceTokens \in 0..Len(tokensWas)
    BY DEF ConnInv
  <2>2. x.sincePeople \in Nat /\ x.sinceTokens \in Nat
    BY <2>1, RangesGrow
  <2> QED BY <2>2, RangesGrow
<1> QED BY <1>1, <1>3, <1>4 DEF ConnInv

LEMMA CachesStay ==
  ASSUME FilesGrow, CachesInv, UNCHANGED <<rolesCache, tokensCache>>
  PROVE  CachesInv'
<1>1. ASSUME NEW e \in rolesCache PROVE e.key[3] \in 1..Len(peopleWas') /\ WasPeople(e.value, e.key[3])'
  BY <1>1 DEF CachesInv, FilesGrow, WasPeople
<1>2. ASSUME NEW e \in tokensCache PROVE e.key[1] \in 1..Len(tokensWas') /\ WasTokens(e.value, e.key[1])'
  BY <1>2 DEF CachesInv, FilesGrow, WasTokens
<1> QED BY <1>1, <1>2 DEF CachesInv

LEMMA OneMoves ==
  ASSUME FilesGrow, settings' = settings, AnswersInv, CachesInv', NEW c \in Conns,
         NEW r, conn' = [conn EXCEPT ![c] = r], ConnInv(c)'
  PROVE  AnswersInv'
<1>1. conn' = [d \in Conns |-> conn'[d]] /\ \A d \in Conns \ {c} : conn'[d] = conn[d]
  BY DEF AnswersInv
<1>2. ASSUME NEW d \in Conns \ {c} PROVE ConnInv(d)'
  BY <1>1, ConnStays DEF AnswersInv
<1> QED BY <1>1, <1>2 DEF AnswersInv

(* What a request gets of people.json is what was there since its stat.    *)
LEMMA RolesGot ==
  ASSUME FilesInv, CachesInv, NEW key, key[3] \in 1..Len(peopleWas),
         rolesCache' = FileCacheGet(rolesCache, key, Reading(people)),
         UNCHANGED <<peopleWas, tokensWas, tokensCache>>
  PROVE  CachesInv' /\ \E w \in key[3]..Len(peopleWas) : ValueOf(rolesCache') = peopleWas[w]
<1>1. /\ Len(peopleWas) \in key[3]..Len(peopleWas) /\ key[3] \in 1..Len(peopleWas)
      /\ Reading(people) = peopleWas[Len(peopleWas)]
  BY TokensAre DEF FilesInv
<1>2. CASE rolesCache # {} /\ \A e \in rolesCache : e.key = key
  <2>1. PICK e \in rolesCache : e.key = key
    BY <1>2
  <2>2. rolesCache' = {e}
    BY <1>2, <2>1 DEF FileCacheGet, CachesInv
  <2>3. ValueOf(rolesCache') = e.value
    BY <2>2 DEF ValueOf
  <2> QED BY <2>1, <2>2, <2>3 DEF CachesInv, WasPeople, WasTokens
<1>3. CASE ~(rolesCache # {} /\ \A e \in rolesCache : e.key = key)
  <2>1. PICK e : e = [key |-> key, value |-> Reading(people)]
    OBVIOUS
  <2>2. rolesCache' = {e} /\ e.key = key /\ e.value = peopleWas[Len(peopleWas)]
    BY <1>1, <1>3, <2>1 DEF FileCacheGet
  <2>3. ValueOf(rolesCache') = e.value
    BY <2>2 DEF ValueOf
  <2> QED BY <1>1, <2>2, <2>3 DEF CachesInv, WasPeople, WasTokens
<1> QED BY <1>2, <1>3

(* The same for tokens.json.                                               *)
LEMMA TokensGot ==
  ASSUME FilesInv, CachesInv, NEW key, key[1] \in 1..Len(tokensWas),
         tokensCache' = FileCacheGet(tokensCache, key, tokens.rows),
         UNCHANGED <<peopleWas, tokensWas, rolesCache>>
  PROVE  CachesInv' /\ \E w \in key[1]..Len(tokensWas) : ValueOf(tokensCache') = tokensWas[w]
<1>1. /\ Len(tokensWas) \in key[1]..Len(tokensWas) /\ key[1] \in 1..Len(tokensWas)
      /\ tokens.rows = tokensWas[Len(tokensWas)]
  BY TokensAre DEF FilesInv
<1>2. CASE tokensCache # {} /\ \A e \in tokensCache : e.key = key
  <2>1. PICK e \in tokensCache : e.key = key
    BY <1>2
  <2>2. tokensCache' = {e}
    BY <1>2, <2>1 DEF FileCacheGet, CachesInv
  <2>3. ValueOf(tokensCache') = e.value
    BY <2>2 DEF ValueOf
  <2> QED BY <2>1, <2>2, <2>3 DEF CachesInv, WasPeople, WasTokens
<1>3. CASE ~(tokensCache # {} /\ \A e \in tokensCache : e.key = key)
  <2>1. PICK e : e = [key |-> key, value |-> tokens.rows]
    OBVIOUS
  <2>2. tokensCache' = {e} /\ e.key = key /\ e.value = tokensWas[Len(tokensWas)]
    BY <1>1, <1>3, <2>1 DEF FileCacheGet
  <2>3. ValueOf(tokensCache') = e.value
    BY <2>2 DEF ValueOf
  <2> QED BY <1>1, <2>2, <2>3 DEF CachesInv, WasPeople, WasTokens
<1> QED BY <1>2, <1>3

-----------------------------------------------------------------------------
(* Answers: the steps of a request                                         *)

Quiet == UNCHANGED <<settings, people, peopleWas, truth, tokens, tokensWas>>

(* A request that goes no further is as it was, if it has read its body.   *)
LEMMA Moves ==
  ASSUME FilesInv, AnswersInv, FilesGrow, settings' = settings, NEW c \in Conns,
         NEW r, conn' = [conn EXCEPT ![c] = r],
         r = [conn[c] EXCEPT !.pc = r.pc, !.unread = FALSE, !.told = r.told, !.rows = r.rows],
         r.pc \in {"closed", "idle", "record", "write"},
         r.pc = "closed" \/ conn[c].pc \notin {"closed", "read", "identify", "look up"},
         r.told \subseteq conn[c].admitted
  PROVE  conn'[c] = r /\ ConnInv(c)'
<1> PICK x : x = conn[c]
  OBVIOUS
<1>0. ConnInv(c)
  BY DEF AnswersInv
<1>1. conn'[c] = r
  BY DEF AnswersInv
<1>2. /\ r = [pc |-> r.pc, req |-> x.req, unread |-> FALSE, key |-> x.key, principal |-> x.principal,
              admitted |-> x.admitted, told |-> r.told, sincePeople |-> x.sincePeople,
              sinceTokens |-> x.sinceTokens, rows |-> r.rows]
  BY <1>0 DEF ConnInv, ConnShape
<1>3. ConnShape(r)
  BY <1>2 DEF ConnShape
<1>5. \A p \in x.principal : Current(p, x.sincePeople, x.sinceTokens, x.admitted)'
  <2> SUFFICES ASSUME NEW p \in x.principal PROVE Current(p, x.sincePeople, x.sinceTokens, x.admitted)'
    OBVIOUS
  <2>1. /\ x.sincePeople \in 0..Len(peopleWas) /\ x.sinceTokens \in 0..Len(tokensWas)
        /\ x.sincePeople # 0 /\ x.sinceTokens # 0 /\ Current(p, x.sincePeople, x.sinceTokens, x.admitted)
    BY <1>0 DEF ConnInv
  <2> QED BY <2>1, CurrentStays
<1>6. /\ \A w \in 0..Len(peopleWas) : w \in 0..Len(peopleWas')
      /\ \A w \in 0..Len(tokensWas) : w \in 0..Len(tokensWas')
  BY RangesGrow
<1>7. /\ r.req = x.req /\ r.unread = FALSE /\ r.principal = x.principal /\ r.admitted = x.admitted
      /\ r.sincePeople = x.sincePeople /\ r.sinceTokens = x.sinceTokens
  BY <1>2
<1> QED BY <1>0, <1>1, <1>3, <1>5, <1>6, <1>7 DEF ConnInv

(* An answer or a refusal.                                                 *)
LEMMA Ends ==
  ASSUME FilesInv, AnswersInv, FilesGrow, settings' = settings, NEW c \in Conns, CachesInv',
         \/ Refused(c)
         \/ \E pc \in {"idle", "record"} : Goto(c, pc) /\ conn[c].pc \notin {"closed", "read", "identify", "look up"}
  PROVE  AnswersInv' /\ (\A d \in Conns \ {c} : conn'[d] = conn[d]) /\ conn'[c].pc \in {"closed", "idle", "record"}
<1> PICK x : x = conn[c]
  OBVIOUS
<1>0. ConnInv(c)
  BY DEF AnswersInv
<1>1. /\ x = [pc |-> x.pc, req |-> x.req, unread |-> x.unread, key |-> x.key, principal |-> x.principal,
              admitted |-> x.admitted, told |-> x.told, sincePeople |-> x.sincePeople,
              sinceTokens |-> x.sinceTokens, rows |-> x.rows]
      /\ x.unread \in BOOLEAN /\ (x.unread => x.pc = "read") /\ x.told \subseteq x.admitted
  BY <1>0 DEF ConnInv, ConnShape
<1>2. \A d \in Conns \ {c} : conn'[d] = conn[d]
  BY DEF AnswersInv, Refused, Goto
<1>3. CASE Refused(c)
  <2>1. PICK r : r = [x EXCEPT !.pc = "closed", !.unread = FALSE]
    OBVIOUS
  <2>2. conn' = [conn EXCEPT ![c] = r]
    BY <1>3, <2>1 DEF Refused
  <2>3. /\ r.pc = "closed" /\ r.told = x.told
        /\ r = [x EXCEPT !.pc = r.pc, !.unread = FALSE, !.told = r.told, !.rows = r.rows]
    BY <1>1, <2>1
  <2>4. conn'[c] = r /\ ConnInv(c)'
    BY <1>1, <2>2, <2>3, Moves
  <2> QED BY <1>2, <2>2, <2>3, <2>4, OneMoves
<1>4. ASSUME NEW pc \in {"idle", "record"}, Goto(c, pc), x.pc \notin {"closed", "read", "identify", "look up"}
      PROVE  AnswersInv' /\ conn'[c].pc \in {"idle", "record"}
  <2>1. PICK r : r = [x EXCEPT !.pc = pc]
    OBVIOUS
  <2>2. conn' = [conn EXCEPT ![c] = r]
    BY <1>4, <2>1 DEF Goto
  <2>3. x.unread = FALSE
    BY <1>1, <1>4
  <2>4. /\ r.pc = pc /\ r.told = x.told
        /\ r = [x EXCEPT !.pc = r.pc, !.unread = FALSE, !.told = r.told, !.rows = r.rows]
    BY <1>1, <2>1, <2>3
  <2>5. conn'[c] = r /\ ConnInv(c)'
    BY <1>1, <1>4, <2>2, <2>4, Moves
  <2> QED BY <2>2, <2>4, <2>5, OneMoves
<1> QED BY <1>2, <1>3, <1>4

LEMMA ArriveAnswers ==
  ASSUME FilesInv, AnswersInv, NEW c \in Conns, Arrive(c)
  PROVE  AnswersInv' /\ FilesInv' /\ (\A d \in Conns \ {c} : conn'[d] = conn[d]) /\ conn'[c].pc = "read"
<1>0. UNCHANGED <<settings, people, peopleWas, truth, tokens, tokensWas, rolesCache, tokensCache>>
  BY DEF Arrive, books, keys
<1>1. FilesInv' /\ FilesGrow
  BY <1>0, FilesKept
<1>2. CachesInv'
  BY <1>0, <1>1, CachesStay DEF AnswersInv
<1>3. PICK b \in BOOLEAN : \E r, x :
        /\ x = [Closed EXCEPT !.pc = "read", !.req = r, !.unread = b,
                              !.sincePeople = Len(peopleWas), !.sinceTokens = Len(tokensWas)]
        /\ conn' = [conn EXCEPT ![c] = x]
  <2>1. PICK r \in Requests :
          conn' = [conn EXCEPT ![c] = [Closed EXCEPT !.pc = "read", !.req = r, !.unread = r.frame /= "none",
                                                     !.sincePeople = Len(peopleWas), !.sinceTokens = Len(tokensWas)]]
    BY DEF Arrive
  <2> DEFINE b == r.frame /= "none"
             x == [Closed EXCEPT !.pc = "read", !.req = r, !.unread = b,
                                 !.sincePeople = Len(peopleWas), !.sinceTokens = Len(tokensWas)]
  <2>2. b \in BOOLEAN
    OBVIOUS
  <2>3. conn' = [conn EXCEPT ![c] = x]
    BY <2>1
  <2>4. x = [Closed EXCEPT !.pc = "read", !.req = r, !.unread = b,
                           !.sincePeople = Len(peopleWas), !.sinceTokens = Len(tokensWas)]
    OBVIOUS
  <2> HIDE DEF b, x
  <2> QED BY <2>2, <2>3, <2>4
<1>4. PICK r, x :
        /\ x = [Closed EXCEPT !.pc = "read", !.req = r, !.unread = b,
                              !.sincePeople = Len(peopleWas), !.sinceTokens = Len(tokensWas)]
        /\ conn' = [conn EXCEPT ![c] = x]
  BY <1>3
<1>5. x = [pc |-> "read", req |-> r, unread |-> b, key |-> <<>>, principal |-> {}, admitted |-> {},
           told |-> {}, sincePeople |-> Len(peopleWas), sinceTokens |-> Len(tokensWas), rows |-> <<>>]
  BY <1>4 DEF Closed
<1>6. conn' = [conn EXCEPT ![c] = x]
  BY <1>4
<1>7. conn'[c] = x /\ \A d \in Conns \ {c} : conn'[d] = conn[d]
  BY <1>6 DEF AnswersInv
<1>8. ConnShape(x)
  BY <1>5 DEF ConnShape
<1>9. /\ Len(peopleWas) \in 0..Len(peopleWas) /\ Len(tokensWas) \in 0..Len(tokensWas)
      /\ Len(peopleWas) # 0 /\ Len(tokensWas) # 0
  BY TokensAre DEF FilesInv
<1>10. /\ x.pc = "read" /\ x.unread \in BOOLEAN /\ x.principal = {} /\ x.admitted = {} /\ x.told = {}
      /\ x.sincePeople = Len(peopleWas) /\ x.sinceTokens = Len(tokensWas)
  BY <1>5
<1>11. ConnInv(c)'
  <2>1. /\ x.sincePeople \in 0..Len(peopleWas') /\ x.sinceTokens \in 0..Len(tokensWas')
        /\ x.sincePeople # 0 /\ x.sinceTokens # 0
    BY <1>0, <1>9, <1>10
  <2> QED BY <1>7, <1>8, <1>10, <2>1 DEF ConnInv
<1> QED BY <1>0, <1>1, <1>2, <1>6, <1>7, <1>10, <1>11, OneMoves

LEMMA ReadAnswers ==
  ASSUME FilesInv, AnswersInv, NEW c \in Conns, ReadRaw(c)
  PROVE  AnswersInv' /\ FilesInv' /\ (\A d \in Conns \ {c} : conn'[d] = conn[d]) /\ conn'[c].pc # "write"
<1>0. UNCHANGED <<settings, people, peopleWas, truth, tokens, tokensWas, rolesCache, tokensCache>>
  BY DEF ReadRaw, Unmoved, books, keys
<1>1. FilesInv' /\ FilesGrow
  BY <1>0, FilesKept
<1>2. CachesInv'
  BY <1>0, <1>1, CachesStay DEF AnswersInv
<1>3. CASE Refused(c)
  BY <1>0, <1>1, <1>2, <1>3, Ends
<1>4. CASE conn' = [conn EXCEPT ![c].pc = "identify", ![c].unread = FALSE]
  <2>1. PICK x : x = conn[c]
    OBVIOUS
  <2>2. ConnInv(c)
    BY DEF AnswersInv
  <2>3. x.pc = "read"
    BY <2>1 DEF ReadRaw
  <2>4. PICK r : r = [x EXCEPT !.pc = "identify", !.unread = FALSE]
    OBVIOUS
  <2>5. conn' = [conn EXCEPT ![c] = r]
    BY <1>4, <2>1, <2>4
  <2>6. conn'[c] = r /\ \A d \in Conns \ {c} : conn'[d] = conn[d]
    BY <2>5 DEF AnswersInv
  <2>7. r = [pc |-> "identify", req |-> x.req, unread |-> FALSE, key |-> x.key, principal |-> x.principal,
             admitted |-> x.admitted, told |-> x.told, sincePeople |-> x.sincePeople,
             sinceTokens |-> x.sinceTokens, rows |-> x.rows]
    BY <2>1, <2>2, <2>4 DEF ConnInv, ConnShape
  <2>8. /\ ConnShape(r) /\ r.pc = "identify" /\ r.unread = FALSE /\ r.principal = x.principal
        /\ r.admitted = x.admitted /\ r.told = x.told /\ r.sincePeople = x.sincePeople /\ r.sinceTokens = x.sinceTokens
    BY <2>7 DEF ConnShape
  <2>9. ConnInv(c)'
    BY <1>0, <2>1, <2>2, <2>3, <2>6, <2>8 DEF ConnInv
  <2> QED BY <1>0, <1>1, <1>2, <2>5, <2>6, <2>8, <2>9, OneMoves
<1> QED BY <1>3, <1>4 DEF ReadRaw

LEMMA StatAnswers ==
  ASSUME FilesInv, AnswersInv, NEW c \in Conns, Stat(c)
  PROVE  AnswersInv' /\ FilesInv' /\ (\A d \in Conns \ {c} : conn'[d] = conn[d]) /\ conn'[c].pc # "write"
<1>0. UNCHANGED <<settings, people, peopleWas, truth, tokens, tokensWas, rolesCache, tokensCache>>
  BY DEF Stat, Unmoved, books, keys
<1>1. FilesInv' /\ FilesGrow
  BY <1>0, FilesKept
<1>2. CachesInv'
  BY <1>0, <1>1, CachesStay DEF AnswersInv
<1> PICK x : x = conn[c]
  OBVIOUS
<1>3. ConnInv(c)
  BY DEF AnswersInv
<1>4. PICK r, key, pc :
        /\ key = IF Asks(c) = "people" THEN StatKey(people) ELSE <<tokens.inode>>
        /\ pc = IF x.pc = "identify" THEN "look up" ELSE "look up member"
        /\ r = [x EXCEPT !.key = key, !.pc = pc]
        /\ conn' = [conn EXCEPT ![c] = r]
  <2> DEFINE key == IF Asks(c) = "people" THEN StatKey(people) ELSE <<tokens.inode>>
             pc == IF x.pc = "identify" THEN "look up" ELSE "look up member"
  <2>1. conn' = [conn EXCEPT ![c] = [x EXCEPT !.key = key, !.pc = pc]]
    BY DEF Stat
  <2>2. /\ key = IF Asks(c) = "people" THEN StatKey(people) ELSE <<tokens.inode>>
        /\ pc = IF x.pc = "identify" THEN "look up" ELSE "look up member"
    OBVIOUS
  <2> HIDE DEF key, pc
  <2> QED BY <2>1, <2>2
<1>5. r = [pc |-> pc, req |-> x.req, unread |-> x.unread, key |-> key, principal |-> x.principal,
           admitted |-> x.admitted, told |-> x.told, sincePeople |-> x.sincePeople,
           sinceTokens |-> x.sinceTokens, rows |-> x.rows]
  BY <1>3, <1>4 DEF ConnInv, ConnShape
<1>6. /\ ConnShape(r) /\ r.pc = pc /\ r.unread = x.unread /\ r.principal = x.principal /\ r.req = x.req /\ r.key = key
      /\ r.admitted = x.admitted /\ r.told = x.told /\ r.sincePeople = x.sincePeople /\ r.sinceTokens = x.sinceTokens
  BY <1>5 DEF ConnShape
<1>7. conn'[c] = r /\ \A d \in Conns \ {c} : conn'[d] = conn[d]
  BY <1>4 DEF AnswersInv
<1>8. /\ x.sincePeople \in 0..Len(peopleWas) /\ x.sinceTokens \in 0..Len(tokensWas)
  BY <1>3 DEF ConnInv
<1>9. \/ /\ x.pc = "identify" /\ pc = "look up"
         /\ \/ FileAsked(settings, x.req) = "people" /\ key = StatKey(people)
            \/ FileAsked(settings, x.req) = "tokens" /\ key = <<tokens.inode>>
      \/ x.pc = "admit" /\ pc = "look up member" /\ key = StatKey(people)
  BY <1>4 DEF Stat, Asks, FileAsked
<1>10. /\ key = StatKey(people) => key[3] \in x.sincePeople..Len(peopleWas')
       /\ key = <<tokens.inode>> => key[1] \in x.sinceTokens..Len(tokensWas')
  <2>1. /\ Len(peopleWas) \in x.sincePeople..Len(peopleWas') /\ Len(tokensWas) \in x.sinceTokens..Len(tokensWas')
    BY <1>0, <1>8, TokensAre
  <2>2. key = StatKey(people) => key[3] = Len(peopleWas)
    BY DEF StatKey
  <2>3. key = <<tokens.inode>> => key[1] = Len(tokensWas)
    BY DEF FilesInv
  <2> QED BY <2>1, <2>2, <2>3
<1>11. ConnInv(c)'
  BY <1>0, <1>3, <1>6, <1>7, <1>9, <1>10 DEF ConnInv, Current
<1> QED BY <1>0, <1>1, <1>2, <1>4, <1>6, <1>7, <1>9, <1>11, OneMoves

(* A principal the files stand for, admitted at once or asked about again. *)
LEMMA DecideStep ==
  ASSUME FilesInv, AnswersInv, FilesGrow, settings' = settings, UNCHANGED <<peopleWas, tokensWas>>, CachesInv',
         NEW c \in Conns, conn[c].pc \in {"identify", "look up"},
         NEW who, NEW listed, Decide(c, who, listed), \A p, q \in who : p = q,
         \A p \in who : Current(p, conn[c].sincePeople, conn[c].sinceTokens, {})
  PROVE  AnswersInv' /\ (\A d \in Conns \ {c} : conn'[d] = conn[d]) /\ conn'[c].pc # "write"
<1> PICK x : x = conn[c]
  OBVIOUS
<1>0. ConnInv(c)
  BY DEF AnswersInv
<1>1. CASE Refused(c)
  BY <1>1, Ends
<1>2. ASSUME NEW p \in who, NEW pc \in {"admit", "act"}, NEW admitted, NEW r,
             pc = "admit" => admitted = {},
             pc = "act" => admitted = who /\ ~AsksMembers(settings, p),
             r = [x EXCEPT !.pc = pc, !.principal = who, !.admitted = admitted],
             conn' = [conn EXCEPT ![c] = r]
      PROVE  AnswersInv' /\ (\A d \in Conns \ {c} : conn'[d] = conn[d]) /\ conn'[c].pc # "write"
  <2>1. r = [pc |-> pc, req |-> x.req, unread |-> x.unread, key |-> x.key, principal |-> who,
             admitted |-> admitted, told |-> x.told, sincePeople |-> x.sincePeople,
             sinceTokens |-> x.sinceTokens, rows |-> x.rows]
    BY <1>0, <1>2 DEF ConnInv, ConnShape
  <2>2. /\ ConnShape(r) /\ r.pc = pc /\ r.unread = x.unread /\ r.principal = who
        /\ r.admitted = admitted /\ r.told = x.told /\ r.sincePeople = x.sincePeople /\ r.sinceTokens = x.sinceTokens
    BY <2>1 DEF ConnShape
  <2>3. conn'[c] = r /\ \A d \in Conns \ {c} : conn'[d] = conn[d]
    BY <1>2 DEF AnswersInv
  <2>4. /\ x.pc \in {"identify", "look up"} /\ x.principal = {} /\ x.admitted = {} /\ x.told = {}
        /\ x.unread \in BOOLEAN /\ ~x.unread
    BY <1>0 DEF ConnInv
  <2>5. \A q \in who : q = p
    BY <1>2
  <2>6. Current(p, x.sincePeople, x.sinceTokens, {})'
    BY DEF Current, AsksMembers
  <2>7. \A q \in who : Current(q, x.sincePeople, x.sinceTokens, admitted)'
    BY <1>2, <2>5, <2>6 DEF Current, AsksMembers
  <2>8. ConnInv(c)'
    <3>1. /\ x.sincePeople \in 0..Len(peopleWas') /\ x.sinceTokens \in 0..Len(tokensWas')
          /\ x.sincePeople # 0 /\ x.sinceTokens # 0
      BY <1>0, <2>4 DEF ConnInv
    <3>2. /\ r.pc \in {"admit", "act"} /\ (r.pc = "admit" => r.admitted = {})
          /\ r.admitted \subseteq who /\ who # {}
      BY <1>2, <2>2
    <3> QED BY <2>2, <2>3, <2>4, <2>5, <2>7, <3>1, <3>2 DEF ConnInv
  <2> QED BY <1>2, <2>2, <2>3, <2>8, OneMoves
<1>3. ASSUME NEW p \in who, conn' = [conn EXCEPT ![c].pc = "admit", ![c].principal = who]
      PROVE  AnswersInv' /\ (\A d \in Conns \ {c} : conn'[d] = conn[d]) /\ conn'[c].pc # "write"
  <2>1. PICK r : r = [x EXCEPT !.pc = "admit", !.principal = who, !.admitted = {}]
    OBVIOUS
  <2>2. x.admitted = {} /\ ConnShape(x)
    BY <1>0 DEF ConnInv
  <2>3. r = [x EXCEPT !.pc = "admit", !.principal = who]
    BY <2>1, <2>2 DEF ConnShape
  <2>4. conn' = [conn EXCEPT ![c] = r]
    BY <1>3, <2>3
  <2> QED BY <1>2, <2>1, <2>4
<1>4. ASSUME NEW p \in who, ~AsksMembers(settings, p),
             conn' = [conn EXCEPT ![c].pc = "act", ![c].principal = who, ![c].admitted = who]
      PROVE  AnswersInv' /\ (\A d \in Conns \ {c} : conn'[d] = conn[d]) /\ conn'[c].pc # "write"
  <2>1. PICK r : r = [x EXCEPT !.pc = "act", !.principal = who, !.admitted = who]
    OBVIOUS
  <2>2. conn' = [conn EXCEPT ![c] = r]
    BY <1>4, <2>1
  <2> QED BY <1>2, <1>4, <2>1, <2>2
<1> QED BY <1>1, <1>3, <1>4 DEF Decide

LEMMA AtOnceAnswers ==
  ASSUME FilesInv, AnswersInv, NEW c \in Conns, IdentifyAtOnce(c)
  PROVE  AnswersInv' /\ FilesInv' /\ (\A d \in Conns \ {c} : conn'[d] = conn[d]) /\ conn'[c].pc # "write"
<1>0. UNCHANGED <<settings, people, peopleWas, truth, tokens, tokensWas, rolesCache, tokensCache>>
  BY DEF IdentifyAtOnce, Unmoved, books, keys
<1>1. FilesInv' /\ FilesGrow
  BY <1>0, FilesKept
<1>2. CachesInv'
  BY <1>0, <1>1, CachesStay DEF AnswersInv
<1>3. PICK who : /\ who = Identify(settings, conn[c].req, {}, Reading(people)) /\ Decide(c, who, Reading(people))
                 /\ conn[c].pc = "identify" /\ FileAsked(settings, conn[c].req) = "none"
  BY DEF IdentifyAtOnce, Asks
<1>4. /\ \A p, q \in who : p = q
      /\ \A p \in who : p.via \notin {"header", "token"}
  BY <1>3 DEF Identify, FileAsked
<1>5. \A p \in who : Current(p, conn[c].sincePeople, conn[c].sinceTokens, {})
  BY <1>4 DEF Current
<1> QED BY <1>0, <1>1, <1>2, <1>3, <1>4, <1>5, DecideStep

LEMMA TokenAnswers ==
  ASSUME FilesInv, AnswersInv, NEW c \in Conns, IdentifyByToken(c)
  PROVE  AnswersInv' /\ FilesInv' /\ (\A d \in Conns \ {c} : conn'[d] = conn[d]) /\ conn'[c].pc # "write"
<1>0. UNCHANGED <<settings, people, peopleWas, truth, tokens, tokensWas, rolesCache>>
  BY DEF IdentifyByToken, Unmoved, books, keys
<1>1. FilesInv' /\ FilesGrow
  BY <1>0, FilesKept
<1>2. ConnInv(c) /\ CachesInv
  BY DEF AnswersInv
<1>3. conn[c].pc = "look up" /\ FileAsked(settings, conn[c].req) = "tokens"
  BY DEF IdentifyByToken
<1>4. PICK key : key = conn[c].key /\ key[1] \in conn[c].sinceTokens..Len(tokensWas)
  BY <1>2, <1>3 DEF ConnInv
<1>5. conn[c].sinceTokens \in 0..Len(tokensWas) /\ conn[c].sinceTokens # 0
  BY <1>2, <1>3 DEF ConnInv
<1>6. key[1] \in 1..Len(tokensWas)
  BY <1>4, <1>5, TokensAre
<1>7. tokensCache' = FileCacheGet(tokensCache, key, tokens.rows)
  BY <1>4 DEF IdentifyByToken
<1>8. CachesInv' /\ \E w \in key[1]..Len(tokensWas) : ValueOf(tokensCache') = tokensWas[w]
  BY <1>0, <1>2, <1>6, <1>7, TokensGot
<1>9. PICK w \in key[1]..Len(tokensWas) : ValueOf(tokensCache') = tokensWas[w]
  BY <1>8
<1>10. w \in conn[c].sinceTokens..Len(tokensWas)
  BY <1>4, <1>5, <1>9, TokensAre
<1>11. PICK who : /\ who = Identify(settings, conn[c].req, tokensWas[w], Reading(people))
                  /\ Decide(c, who, Reading(people))
  BY <1>9 DEF IdentifyByToken
<1>12. /\ \A p, q \in who : p = q
       /\ \A p \in who : p.via = "token" /\ p.login \in tokensWas[w]
  <2>1. conn[c].req.bearer # NoOne
    BY <1>3 DEF FileAsked
  <2>2. \/ who = {}
        \/ /\ who = {[login |-> conn[c].req.bearer, role |-> "agent", via |-> "token"]}
           /\ conn[c].req.bearer \in tokensWas[w]
    BY <1>11, <2>1 DEF Identify
  <2> QED BY <2>2
<1>13. \A p \in who : Current(p, conn[c].sincePeople, conn[c].sinceTokens, {})
  BY <1>10, <1>12 DEF Current
<1> QED BY <1>0, <1>1, <1>3, <1>8, <1>11, <1>12, <1>13, DecideStep

LEMMA RoleAnswers ==
  ASSUME FilesInv, AnswersInv, NEW c \in Conns, IdentifyByRole(c)
  PROVE  AnswersInv' /\ FilesInv' /\ (\A d \in Conns \ {c} : conn'[d] = conn[d]) /\ conn'[c].pc # "write"
<1>0. UNCHANGED <<settings, people, peopleWas, truth, tokens, tokensWas, tokensCache>>
  BY DEF IdentifyByRole, Unmoved, books, keys
<1>1. FilesInv' /\ FilesGrow
  BY <1>0, FilesKept
<1>2. ConnInv(c) /\ CachesInv
  BY DEF AnswersInv
<1>3. conn[c].pc = "look up" /\ FileAsked(settings, conn[c].req) = "people"
  BY DEF IdentifyByRole
<1>4. PICK key : key = conn[c].key /\ key[3] \in conn[c].sincePeople..Len(peopleWas)
  BY <1>2, <1>3 DEF ConnInv
<1>5. conn[c].sincePeople \in 0..Len(peopleWas) /\ conn[c].sincePeople # 0
  BY <1>2, <1>3 DEF ConnInv
<1>6. key[3] \in 1..Len(peopleWas)
  BY <1>4, <1>5, TokensAre
<1>7. rolesCache' = FileCacheGet(rolesCache, key, Reading(people))
  BY <1>4 DEF IdentifyByRole
<1>8. CachesInv' /\ \E w \in key[3]..Len(peopleWas) : ValueOf(rolesCache') = peopleWas[w]
  BY <1>0, <1>2, <1>6, <1>7, RolesGot
<1>9. PICK w \in key[3]..Len(peopleWas) : ValueOf(rolesCache') = peopleWas[w]
  BY <1>8
<1>10. w \in conn[c].sincePeople..Len(peopleWas)
  BY <1>4, <1>5, <1>9, TokensAre
<1>11. PICK who : /\ who = Identify(settings, conn[c].req, {}, peopleWas[w])
                  /\ Decide(c, who, peopleWas[w])
  BY <1>9 DEF IdentifyByRole
<1>12. /\ \A p, q \in who : p = q
       /\ \A p \in who : p.via = "header" /\ p.role = PersonRole(peopleWas[w], p.login)
  <2>1. conn[c].req.bearer = NoOne /\ Vouched(settings, conn[c].req)
    BY <1>3 DEF FileAsked
  <2>2. PICK login : login = LoginOf(settings, conn[c].req)
    OBVIOUS
  <2>3. who = {} \/ who = {[login |-> login, role |-> PersonRole(peopleWas[w], login), via |-> "header"]}
    BY <1>11, <2>1, <2>2 DEF Identify
  <2> QED BY <2>3
<1>13. \A p \in who : Current(p, conn[c].sincePeople, conn[c].sinceTokens, {})
  BY <1>10, <1>12 DEF Current
<1> QED BY <1>0, <1>1, <1>3, <1>8, <1>11, <1>12, <1>13, DecideStep

LEMMA MemberAnswers ==
  ASSUME FilesInv, AnswersInv, NEW c \in Conns, AdmitMember(c)
  PROVE  AnswersInv' /\ FilesInv' /\ (\A d \in Conns \ {c} : conn'[d] = conn[d]) /\ conn'[c].pc # "write"
<1>0. UNCHANGED <<settings, people, peopleWas, truth, tokens, tokensWas, tokensCache>>
  BY DEF AdmitMember, Unmoved, books, keys
<1>1. FilesInv' /\ FilesGrow
  BY <1>0, FilesKept
<1>2. ConnInv(c) /\ CachesInv
  BY DEF AnswersInv
<1> PICK x : x = conn[c]
  OBVIOUS
<1>3. x.pc = "look up member"
  BY DEF AdmitMember
<1>4. PICK key : key = x.key /\ key[3] \in x.sincePeople..Len(peopleWas)
  BY <1>2, <1>3 DEF ConnInv
<1>5. x.sincePeople \in 0..Len(peopleWas) /\ x.sincePeople # 0 /\ x.sinceTokens \in 0..Len(tokensWas) /\ x.sinceTokens # 0
  BY <1>2, <1>3 DEF ConnInv
<1>6. key[3] \in 1..Len(peopleWas)
  BY <1>4, <1>5, TokensAre
<1>7. rolesCache' = FileCacheGet(rolesCache, key, Reading(people))
  BY <1>4 DEF AdmitMember
<1>8. CachesInv' /\ \E w \in key[3]..Len(peopleWas) : ValueOf(rolesCache') = peopleWas[w]
  BY <1>0, <1>2, <1>6, <1>7, RolesGot
<1>9. PICK w \in key[3]..Len(peopleWas) : ValueOf(rolesCache') = peopleWas[w]
  BY <1>8
<1>10. w \in x.sincePeople..Len(peopleWas)
  BY <1>4, <1>5, <1>9, TokensAre
<1>11. CASE Refused(c)
  BY <1>0, <1>1, <1>8, <1>11, Ends
<1>12. CASE /\ Admits(settings, x.req, (CHOOSE p \in x.principal : TRUE), ValueOf(rolesCache'))
            /\ conn' = [conn EXCEPT ![c].pc = "act", ![c].admitted = x.principal]
  <2>1. PICK p \in x.principal : p = CHOOSE q \in x.principal : TRUE
    BY <1>2, <1>3 DEF ConnInv
  <2>2. /\ Current(p, x.sincePeople, x.sinceTokens, x.admitted) /\ x.admitted = {} /\ x.told = {}
        /\ x.unread = FALSE /\ \A q \in x.principal : q = p
    BY <1>2, <1>3 DEF ConnInv
  <2>3. AsksMembers(settings, p) => IsMember(peopleWas[w], p.login)
    BY <1>9, <1>12, <2>1 DEF Admits
  <2>4. Current(p, x.sincePeople, x.sinceTokens, x.principal)
    BY <1>10, <2>2, <2>3 DEF Current
  <2>5. Current(p, x.sincePeople, x.sinceTokens, x.principal)'
    BY <1>0, <2>4 DEF Current, AsksMembers
  <2>6. PICK r : r = [x EXCEPT !.pc = "act", !.admitted = x.principal]
    OBVIOUS
  <2>7. conn' = [conn EXCEPT ![c] = r]
    BY <1>12, <2>6
  <2>8. r = [pc |-> "act", req |-> x.req, unread |-> x.unread, key |-> x.key, principal |-> x.principal,
             admitted |-> x.principal, told |-> x.told, sincePeople |-> x.sincePeople,
             sinceTokens |-> x.sinceTokens, rows |-> x.rows]
    BY <1>2, <2>6 DEF ConnInv, ConnShape
  <2>9. /\ ConnShape(r) /\ r.pc = "act" /\ r.unread = FALSE /\ r.principal = x.principal
        /\ r.admitted = x.principal /\ r.told = {} /\ r.sincePeople = x.sincePeople /\ r.sinceTokens = x.sinceTokens
    BY <2>2, <2>8 DEF ConnShape
  <2>10. conn'[c] = r /\ \A d \in Conns \ {c} : conn'[d] = conn[d]
    BY <2>7 DEF AnswersInv
  <2>11. /\ x.sincePeople \in 0..Len(peopleWas') /\ x.sinceTokens \in 0..Len(tokensWas')
    BY <1>0, <1>5
  <2>12. ConnInv(c)'
    BY <1>5, <2>2, <2>5, <2>9, <2>10, <2>11 DEF ConnInv
  <2> QED BY <1>0, <1>1, <1>8, <2>7, <2>9, <2>10, <2>12, OneMoves
<1> QED BY <1>11, <1>12 DEF AdmitMember

LEMMA ActAnswers ==
  ASSUME FilesInv, AnswersInv, NEW c \in Conns, Act(c) \/ RecordPersonLately(c)
  PROVE  AnswersInv' /\ FilesInv' /\ (\A d \in Conns \ {c} : conn'[d] = conn[d]) /\ conn'[c].pc # "write"
<1>0. UNCHANGED <<settings, people, peopleWas, truth, tokens, tokensWas, rolesCache, tokensCache>>
  BY DEF Act, RecordPersonLately, Unmoved, books, keys
<1>1. FilesInv' /\ FilesGrow
  BY <1>0, FilesKept
<1>2. CachesInv'
  BY <1>0, <1>1, CachesStay DEF AnswersInv
<1>3. conn[c].pc \in {"act", "record"} /\ (Refused(c) \/ Goto(c, "idle") \/ Goto(c, "record"))
  BY DEF Act, RecordPersonLately, Answered
<1> QED BY <1>0, <1>1, <1>2, <1>3, Ends

LEMMA FailsAnswers ==
  ASSUME FilesInv, AnswersInv, NEW c \in Conns, Fails(c)
  PROVE  AnswersInv' /\ FilesInv' /\ (\A d \in Conns \ {c} : conn'[d] = conn[d]) /\ conn'[c].pc # "write"
<1>0. UNCHANGED <<settings, people, peopleWas, truth, tokens, tokensWas, rolesCache, tokensCache>>
  BY DEF Fails, books, keys
<1>1. FilesInv' /\ FilesGrow
  BY <1>0, FilesKept
<1>2. CachesInv'
  BY <1>0, <1>1, CachesStay DEF AnswersInv
<1> PICK x : x = conn[c]
  OBVIOUS
<1>3. PICK told : /\ told \subseteq x.admitted
                  /\ conn' = [conn EXCEPT ![c].pc = "closed", ![c].unread = FALSE, ![c].told = told]
  <2> DEFINE told == {p \in x.admitted : SeesErrorDetail(p)}
  <2>1. told \subseteq x.admitted /\ conn' = [conn EXCEPT ![c].pc = "closed", ![c].unread = FALSE, ![c].told = told]
    BY DEF Fails
  <2> HIDE DEF told
  <2> QED BY <2>1
<1>4. ConnShape(x)
  BY DEF AnswersInv, ConnInv
<1>5. PICK r : r = [x EXCEPT !.pc = "closed", !.unread = FALSE, !.told = told]
  OBVIOUS
<1>6. conn' = [conn EXCEPT ![c] = r]
  BY <1>3, <1>5
<1>7. /\ r.pc = "closed" /\ r.told = told
      /\ r = [x EXCEPT !.pc = r.pc, !.unread = FALSE, !.told = r.told, !.rows = r.rows]
  BY <1>4, <1>5 DEF ConnShape
<1>8. conn'[c] = r /\ ConnInv(c)'
  BY <1>0, <1>1, <1>3, <1>6, <1>7, Moves
<1>9. \A d \in Conns \ {c} : conn'[d] = conn[d]
  BY <1>6 DEF AnswersInv
<1> QED BY <1>0, <1>1, <1>2, <1>6, <1>7, <1>8, <1>9, OneMoves

LEMMA RecordAnswers ==
  ASSUME FilesInv, AnswersInv, NEW c \in Conns, RecordPerson(c)
  PROVE  /\ AnswersInv' /\ FilesInv' /\ \A d \in Conns \ {c} : conn'[d] = conn[d]
         /\ conn'[c].pc = "write" => /\ Reading(people).usable /\ peopleLock' = c
                                     /\ conn'[c].rows = Reading(people).of
<1>0. UNCHANGED <<settings, people, peopleWas, truth, tokens, tokensWas, rolesCache, tokensCache>>
  BY DEF RecordPerson, books, keys
<1>1. FilesInv' /\ FilesGrow
  BY <1>0, FilesKept
<1>2. CachesInv'
  BY <1>0, <1>1, CachesStay DEF AnswersInv
<1> PICK x : x = conn[c]
  OBVIOUS
<1>3. x.pc = "record"
  BY DEF RecordPerson
<1>4. CASE Goto(c, "idle")
  BY <1>0, <1>1, <1>2, <1>3, <1>4, Ends
<1>5. CASE /\ Reading(people).usable /\ peopleLock' = c
           /\ conn' = [conn EXCEPT ![c].pc = "write", ![c].rows = Reading(people).of]
  <2>1. ConnShape(x) /\ x.unread = FALSE /\ x.told \subseteq x.admitted
    BY <1>3 DEF AnswersInv, ConnInv
  <2>2. PICK rows : rows = Reading(people).of
    OBVIOUS
  <2>3. PICK r : r = [x EXCEPT !.pc = "write", !.rows = rows]
    OBVIOUS
  <2>4. conn' = [conn EXCEPT ![c] = r]
    BY <1>5, <2>2, <2>3
  <2>5. /\ r.pc = "write" /\ r.told = x.told /\ r.rows = rows
        /\ r = [x EXCEPT !.pc = r.pc, !.unread = FALSE, !.told = r.told, !.rows = r.rows]
    BY <2>1, <2>3 DEF ConnShape
  <2>6. conn'[c] = r /\ ConnInv(c)'
    BY <1>0, <1>1, <1>3, <2>1, <2>4, <2>5, Moves
  <2>7. \A d \in Conns \ {c} : conn'[d] = conn[d]
    BY <2>4 DEF AnswersInv
  <2>8. AnswersInv'
    BY <1>0, <1>1, <1>2, <2>4, <2>6, OneMoves
  <2> QED BY <1>1, <1>5, <2>2, <2>5, <2>6, <2>7, <2>8
<1> QED BY <1>4, <1>5 DEF RecordPerson, Answered

(* What could be read of people.json is all of it.                         *)
LEMMA ReadsAll ==
  ASSUME FilesInv, Reading(people).usable
  PROVE  Reading(people).of = people.rows
<1>1. people.inode = 0 \/ (people.mode = "open" /\ people.shape = "people")
  BY DEF Reading
<1> QED BY <1>1 DEF FilesInv, Reading

LEMMA WriteAnswers ==
  ASSUME FilesInv, AnswersInv, PeopleInv, NEW c \in Conns, WritePerson(c)
  PROVE  AnswersInv' /\ FilesInv' /\ (\A d \in Conns \ {c} : conn'[d] = conn[d]) /\ conn'[c].pc # "write"
<1>0. UNCHANGED <<settings, tokens, tokensWas, rolesCache, tokensCache>>
  BY DEF WritePerson, keys
<1>1. FilesInv' /\ FilesGrow
  <2>1. CASE UNCHANGED books
    BY <1>0, <2>1, FilesKept DEF books
  <2>2. CASE PutPeople(Rewritten(RecordedRows(c, conn[c].rows))) /\ truth' = RecordedRows(c, truth)
    <3>1. conn[c].rows = truth
      BY DEF WritePerson, PeopleInv, FilesInv
    <3>2. PICK f : f = Rewritten(RecordedRows(c, truth)) /\ PutPeople(f)
      BY <2>2, <3>1
    <3>3. PICK rows : rows = RecordedRows(c, truth)
      OBVIOUS
    <3>4. f = [inode |-> people.inode + 1, mode |-> "open", shape |-> "people", rows |-> rows]
      BY <3>2, <3>3 DEF Rewritten
    <3>5. /\ f.inode \in Nat /\ f.inode # 0 /\ f.rows = truth'
          /\ f = [inode |-> f.inode, mode |-> f.mode, shape |-> f.shape, rows |-> f.rows]
      BY <2>2, <3>3, <3>4 DEF FilesInv
    <3> QED BY <1>0, <3>2, <3>5, PeoplePut
  <2> QED BY <2>1, <2>2 DEF WritePerson
<1>2. CachesInv'
  BY <1>0, <1>1, CachesStay DEF AnswersInv
<1>3. conn[c].pc = "write" /\ Goto(c, "idle")
  BY DEF WritePerson, Answered
<1> QED BY <1>0, <1>1, <1>2, <1>3, Ends

-----------------------------------------------------------------------------
(* What a step leaves alone                                                *)

LEMMA OthersAnswer ==
  ASSUME FilesInv, AnswersInv, FilesGrow, UNCHANGED <<settings, rolesCache, tokensCache, conn>>
  PROVE  AnswersInv'
<1>1. CachesInv'
  BY CachesStay DEF AnswersInv
<1>2. ASSUME NEW c \in Conns PROVE ConnInv(c)'
  BY ConnStays DEF AnswersInv
<1> QED BY <1>1, <1>2 DEF AnswersInv

LEMMA PeopleStays ==
  ASSUME PeopleInv, people'.rows = people.rows, peopleLock' \in {Free} \cup Conns \cup Shells,
         \A c \in Conns : conn'[c].pc = "write" => conn'[c] = conn[c] /\ (peopleLock = c => peopleLock' = c),
         \A k \in Shells : shell'[k].pc = "write member" =>
                              shell'[k] = shell[k] /\ (peopleLock = k => peopleLock' = k)
  PROVE  PeopleInv'
BY DEF PeopleInv

(* When the writer has written, no one else is at it.                      *)
LEMMA PeopleWritten ==
  ASSUME PeopleInv, NEW w \in Conns \cup Shells, peopleLock = w, peopleLock' \in {Free, w},
         \A c \in Conns : conn'[c].pc = "write" => c # w /\ conn'[c] = conn[c],
         \A k \in Shells : shell'[k].pc = "write member" => k # w /\ shell'[k] = shell[k]
  PROVE  PeopleInv'
BY DEF PeopleInv

LEMMA OneMore ==
  ASSUME NEW n \in Nat, NEW m, m = n \/ m = n + 1
  PROVE  m \in Nat /\ (m = n + 1 => m # 0) /\ (m = 0 => n = 0)
OBVIOUS

LEMMA AuditStays ==
  ASSUME AuditInv, NEW k \in Shells, UNCHANGED <<audit, changes>>,
         faults' = faults \/ faults' = faults + 1,
         shell[k].pc # "audit" \/ faults' = faults + 1, shell'[k].pc # "audit",
         shell'[k].pc = "write tokens" => shell'[k].line \in Seq(Lines),
         \A j \in Shells \ {k} : /\ shell'[j] = shell[j]
                                 /\ peopleLock = j => peopleLock' = j
                                 /\ tokensLock = j => tokensLock' = j
  PROVE  AuditInv'
<1>0. faults \in Nat /\ faults' \in Nat /\ (faults' = 0 => faults = 0 /\ shell[k].pc # "audit")
  <2>1. faults \in Nat
    BY DEF AuditInv
  <2> QED BY <2>1, OneMore
<1>1. ASSUME NEW kind \in Kinds, NEW j \in Shells, Auditing(j, kind)'
      PROVE  j # k /\ Auditing(j, kind)
  BY <1>1 DEF Auditing
<1>2. ASSUME NEW kind \in Kinds, NEW j \in Shells, Auditing(j, kind), faults' = 0
      PROVE  Auditing(j, kind)'
  BY <1>0, <1>2 DEF Auditing
<1>3. ASSUME NEW kind \in Kinds, NEW j \in Shells, Auditing(j, kind)'
      PROVE  /\ LockOf(kind)' = j
             /\ Range(shell'[j].line) \subseteq Range(changes'[kind])
             /\ faults' = 0 => changes'[kind] = audit'[kind] \o shell'[j].line
  <2>1. j # k /\ Auditing(j, kind)
    BY <1>1, <1>3
  <2>2. /\ LockOf(kind) = j
        /\ Range(shell[j].line) \subseteq Range(changes[kind])
        /\ faults = 0 => changes[kind] = audit[kind] \o shell[j].line
    BY <2>1 DEF AuditInv
  <2>3. LockOf(kind)' = j
    BY <2>1, <2>2 DEF LockOf
  <2>4. shell'[j] = shell[j] /\ audit' = audit /\ changes' = changes
    BY <2>1
  <2> QED BY <1>0, <2>2, <2>3, <2>4
<1>4. ASSUME NEW j \in Shells, shell'[j].pc \in {"write tokens", "audit"} PROVE shell'[j].line \in Seq(Lines)
  BY <1>4 DEF AuditInv
<1>5. ASSUME NEW kind \in Kinds
      PROVE  /\ Range(audit'[kind]) \subseteq Range(changes'[kind])
             /\ faults' = 0 /\ (\A j \in Shells : ~Auditing(j, kind)') => audit'[kind] = changes'[kind]
  BY <1>0, <1>2 DEF AuditInv
<1>6. audit' \in [Kinds -> Seq(Lines)] /\ changes' \in [Kinds -> Seq(Lines)]
  BY DEF AuditInv
<1> QED BY <1>0, <1>3, <1>4, <1>5, <1>6 DEF AuditInv

LEMMA ShellStays ==
  ASSUME NEW j \in Shells, ShellInv(j), shell'[j] = shell[j], UNCHANGED <<tokens, tokensWas>>,
         tokensLock = j => tokensLock' = j
  PROVE  ShellInv(j)'
BY DEF ShellInv, Spent, Fresh

(* A command's step that leaves tokens.json alone.                         *)
LEMMA TokensStay ==
  ASSUME TokensInv, UNCHANGED <<tokens, tokensWas>>, NEW k \in Shells, NEW s, Shell(k, s), ShellInv(k)',
         tokensLock' \in {Free} \cup Shells, tokenFile' \subseteq Tokens,
         \A j \in Shells \ {k} : tokensLock = j => tokensLock' = j,
         \A t \in tokens.rows : t \in known \cup adrift \cup tokenFile =>
            \/ t \in known' \cup adrift' \cup tokenFile'
            \/ \E j \in Shells : shell'[j].token = t /\ Carries(j)',
         (Carries(k) /\ shell[k].token \in tokens.rows) =>
            \/ shell[k].token \in known' \cup adrift' \cup tokenFile'
            \/ shell'[k].token = shell[k].token /\ Carries(k)'
  PROVE  TokensInv' /\ shell'[k] = s /\ \A j \in Shells \ {k} : shell'[j] = shell[j]
<1>1. /\ shell' = [j \in Shells |-> shell'[j]] /\ shell'[k] = s
      /\ \A j \in Shells \ {k} : shell'[j] = shell[j]
  BY DEF TokensInv, Shell
<1>2. ASSUME NEW j \in Shells \ {k} PROVE ShellInv(j)'
  BY <1>1, ShellStays DEF TokensInv
<1>3. ASSUME NEW t \in tokens.rows, ~(t \in known \cup adrift \cup tokenFile)
      PROVE  \/ t \in known' \cup adrift' \cup tokenFile'
             \/ \E j \in Shells : shell'[j].token = t /\ Carries(j)'
  <2>1. PICK j \in Shells : shell[j].token = t /\ Carries(j)
    BY <1>3 DEF TokensInv
  <2>2. CASE j = k
    BY <2>1, <2>2
  <2>3. CASE j # k
    <3>1. shell'[j].token = t /\ Carries(j)'
      BY <1>1, <2>1, <2>3 DEF Carries
    <3> QED BY <3>1
  <2> QED BY <2>2, <2>3
<1> QED BY <1>1, <1>2, <1>3 DEF TokensInv

Unseen == UNCHANGED <<settings, people, tokens, rolesCache, tokensCache, peopleLock, tokensLock, conn, shell,
                      tokenFile, audit, faults, peopleWas, tokensWas, truth, changes, known, adrift>>

LEMMA NothingSeen ==
  ASSUME AccessInv, Unseen
  PROVE  AccessInv'
<1> USE DEF Unseen
<1>1. FilesInv' /\ FilesGrow
  BY FilesKept DEF AccessInv
<1>2. AnswersInv'
  BY <1>1, OthersAnswer DEF AccessInv
<1>3. PeopleInv'
  BY PeopleStays DEF AccessInv, PeopleInv
<1>4. AuditInv'
  BY DEF AccessInv, AuditInv, Auditing, LockOf
<1>5. TokensInv'
  <2>1. ASSUME NEW j \in Shells PROVE ShellInv(j)'
    BY ShellStays DEF AccessInv, TokensInv
  <2>2. /\ tokensLock' \in {Free} \cup Shells /\ tokenFile' \subseteq Tokens
        /\ shell' = [j \in Shells |-> shell'[j]]
    BY DEF AccessInv, TokensInv
  <2>3. ASSUME NEW t \in tokens'.rows
        PROVE  \/ t \in known' \cup adrift' \cup tokenFile'
               \/ \E j \in Shells : shell'[j].token = t /\ Carries(j)'
    BY <2>3 DEF AccessInv, TokensInv, Carries
  <2> QED BY <2>1, <2>2, <2>3 DEF TokensInv
<1> QED BY <1>1, <1>2, <1>3, <1>4, <1>5 DEF AccessInv

(* A command's step that writes neither file nor the audit log.            *)
LEMMA CommandStays ==
  ASSUME AccessInv, NEW k \in Shells, NEW s, Shell(k, s), ShellInv(k)',
         UNCHANGED <<settings, conn, rolesCache, tokensCache, books, tokens, tokensWas, audit, changes>>,
         faults' = faults \/ faults' = faults + 1,
         shell[k].pc # "audit" \/ faults' = faults + 1, s.pc # "audit",
         s.pc = "write tokens" => s.line \in Seq(Lines),
         s.pc = "write member" => /\ peopleLock' = k /\ s.cmd \in MemberSteps
                                  /\ s.rows = MemberRows(s.cmd, people.rows)
                                  /\ s.line = MemberLine(s.cmd, people.rows),
         peopleLock' \in {Free} \cup Conns \cup Shells,
         \A a \in (Conns \cup Shells) \ {k} : peopleLock = a => peopleLock' = a,
         tokensLock' \in {Free} \cup Shells, tokenFile' \subseteq Tokens,
         \A j \in Shells \ {k} : tokensLock = j => tokensLock' = j,
         \A t \in tokens.rows : t \in known \cup adrift \cup tokenFile =>
            \/ t \in known' \cup adrift' \cup tokenFile'
            \/ \E j \in Shells : shell'[j].token = t /\ Carries(j)',
         (Carries(k) /\ shell[k].token \in tokens.rows) =>
            \/ shell[k].token \in known' \cup adrift' \cup tokenFile'
            \/ shell'[k].token = shell[k].token /\ Carries(k)'
  PROVE  AccessInv'
<1>1. FilesInv' /\ FilesGrow
  BY FilesKept DEF AccessInv, books
<1>2. AnswersInv'
  BY <1>1, OthersAnswer DEF AccessInv
<1>3. TokensInv' /\ shell'[k] = s /\ \A j \in Shells \ {k} : shell'[j] = shell[j]
  BY TokensStay DEF AccessInv
<1>4. AuditInv'
  <2>1. \A j \in Shells \ {k} : /\ shell'[j] = shell[j]
                                /\ peopleLock = j => peopleLock' = j
                                /\ tokensLock = j => tokensLock' = j
    BY <1>3
  <2> QED BY <1>3, <2>1, AuditStays DEF AccessInv
<1>5. PeopleInv'
  <2>1. /\ people' = people /\ conn' = conn /\ PeopleInv
        /\ \A c \in Conns : c \notin Shells
    BY NamesAssumption DEF books, AccessInv
  <2>2. ASSUME NEW c \in Conns, conn'[c].pc = "write" PROVE peopleLock' = c /\ conn'[c].rows = people'.rows
    BY <2>1, <2>2 DEF PeopleInv
  <2>3. ASSUME NEW j \in Shells, shell'[j].pc = "write member"
        PROVE  /\ peopleLock' = j /\ shell'[j].cmd \in MemberSteps
               /\ shell'[j].rows = MemberRows(shell'[j].cmd, people'.rows)
               /\ shell'[j].line = MemberLine(shell'[j].cmd, people'.rows)
    <3>1. CASE j = k
      BY <1>3, <2>1, <2>3, <3>1
    <3>2. CASE j # k
      <4>1. shell'[j] = shell[j] /\ j \in (Conns \cup Shells) \ {k} /\ shell[j].pc = "write member"
        BY <1>3, <2>3, <3>2
      <4> QED BY <2>1, <4>1 DEF PeopleInv
    <3> QED BY <3>1, <3>2
  <2> QED BY <2>2, <2>3 DEF PeopleInv
<1> QED BY <1>1, <1>2, <1>3, <1>4, <1>5 DEF AccessInv

LEMMA LinesOfMembers ==
  ASSUME NEW m \in MemberSteps, NEW rows
  PROVE  MemberLine(m, rows) \in Seq(Lines)
<1>1. \A field : RoleValue(field) \in Roles
  BY DEF RoleValue, Roles, DefaultRole
<1>2. CASE m.op = "add"
  BY <1>2 DEF MemberLine, Lines
<1>3. CASE m.op # "add"
  <2>1. PICK role \in Roles : role = RoleValue(rows[m.login])
    BY <1>1
  <2>2. \/ MemberLine(m, rows) = <<>>
        \/ m.op = "remove" /\ MemberLine(m, rows) = << <<"member_removed", m.login, role>> >>
        \/ m.op = "role" /\ MemberLine(m, rows) = << <<"member_role", m.login, m.role, role>> >>
    <3>1. CASE m.op = "remove" /\ m.login \in DOMAIN rows
      BY <2>1, <3>1 DEF MemberLine
    <3>2. CASE m.op = "role" /\ m.login \in DOMAIN rows /\ role # m.role
      BY <2>1, <3>2 DEF MemberLine
    <3>3. CASE m.login \notin DOMAIN rows \/ (m.op = "role" /\ role = m.role)
      BY <1>3, <2>1, <3>3 DEF MemberLine
    <3> QED BY <1>3, <3>1, <3>2, <3>3, NamesAssumption
  <2>3. <<"member_removed", m.login, role>> \in Lines /\ <<"member_role", m.login, m.role, role>> \in Lines
    BY DEF Lines
  <2>4. \A l \in Lines : <<l>> \in Seq(Lines)
    OBVIOUS
  <2> HIDE DEF Lines
  <2>5. <<>> \in Seq(Lines)
    OBVIOUS
  <2> QED BY <2>2, <2>3, <2>4, <2>5
<1> QED BY <1>2, <1>3

LEMMA BeginMemberStep ==
  ASSUME AccessInv, NEW k \in Shells, BeginMember(k)
  PROVE  AccessInv'
<1>0. UNCHANGED <<settings, conn, rolesCache, tokensCache, books, tokens, tokensWas, tokensLock, tokenFile, known,
                  adrift, audit, changes, faults>>
  BY DEF BeginMember, books, keys, requests
<1>1. CASE UNCHANGED <<shell, peopleLock>>
  BY <1>0, <1>1, NothingSeen DEF Unseen, books
<1>2. ASSUME NEW m \in MemberSteps, ~MemberRefuses(m), peopleLock' = k,
             Shell(k, [Idle EXCEPT !.pc = "write member", !.cmd = m, !.rows = MemberRows(m, Reading(people).of),
                                   !.line = MemberLine(m, Reading(people).of)])
      PROVE  AccessInv'
  <2>1. Reading(people).of = people.rows
    BY <1>2, ReadsAll DEF MemberRefuses, AccessInv
  <2>2. PICK rows, line : rows = MemberRows(m, people.rows) /\ line = MemberLine(m, people.rows)
    OBVIOUS
  <2>3. PICK s : /\ s = [Idle EXCEPT !.pc = "write member", !.cmd = m, !.rows = rows, !.line = line]
                 /\ Shell(k, s)
    BY <1>2, <2>1, <2>2
  <2>4. s = [pc |-> "write member", cmd |-> m, rows |-> rows, line |-> line, token |-> NoOne, saw |-> {}]
    BY <2>3 DEF Idle
  <2>5. ShellShape(s) /\ s.pc = "write member" /\ s.cmd = m /\ s.rows = rows /\ s.line = line
    BY <2>4 DEF ShellShape
  <2>6. shell'[k] = s
    BY <2>3 DEF Shell, AccessInv, TokensInv
  <2>7. ShellInv(k)'
    BY <2>5, <2>6 DEF ShellInv
  <2>8. peopleLock = Free /\ shell[k].pc = "idle" /\ ~Carries(k) /\ \A a \in Conns \cup Shells : a # Free
    BY NamesAssumption DEF BeginMember, Carries
  <2>9. tokenFile' \subseteq Tokens /\ tokensLock' \in {Free} \cup Shells
    BY <1>0 DEF AccessInv, TokensInv
  <2> QED BY <1>0, <1>2, <2>2, <2>3, <2>5, <2>7, <2>8, <2>9, CommandStays
<1> QED BY <1>1, <1>2 DEF BeginMember

LEMMA Appended ==
  ASSUME NEW S, NEW s \in Seq(S), NEW t \in Seq(S)
  PROVE  s \o t \in Seq(S) /\ Range(s \o t) = Range(s) \cup Range(t)
<1>1. /\ Len(s) \in Nat /\ Len(t) \in Nat /\ DOMAIN s = 1..Len(s) /\ DOMAIN t = 1..Len(t)
      /\ s \o t \in Seq(S) /\ Len(s \o t) = Len(s) + Len(t) /\ DOMAIN (s \o t) = 1..(Len(s) + Len(t))
  BY ConcatProperties, LenProperties
<1>2. \A i \in 1..(Len(s) + Len(t)) : (s \o t)[i] = IF i <= Len(s) THEN s[i] ELSE t[i - Len(s)]
  BY ConcatProperties
<1>3. \A i \in DOMAIN s : s[i] \in Range(s \o t)
  BY <1>1, <1>2 DEF Range
<1>4. \A i \in DOMAIN t : t[i] \in Range(s \o t)
  <2> SUFFICES ASSUME NEW i \in 1..Len(t) PROVE t[i] \in Range(s \o t)
    BY <1>1
  <2>1. i + Len(s) \in 1..(Len(s) + Len(t)) /\ ~(i + Len(s) <= Len(s)) /\ (i + Len(s)) - Len(s) = i
    BY <1>1
  <2>2. (s \o t)[i + Len(s)] = t[i]
    BY <1>2, <2>1
  <2> QED BY <1>1, <2>1, <2>2 DEF Range
<1>5. \A i \in DOMAIN (s \o t) : (s \o t)[i] \in Range(s) \cup Range(t)
  <2> SUFFICES ASSUME NEW i \in 1..(Len(s) + Len(t)) PROVE (s \o t)[i] \in Range(s) \cup Range(t)
    BY <1>1
  <2>1. (i <= Len(s) /\ i \in 1..Len(s)) \/ (~(i <= Len(s)) /\ i - Len(s) \in 1..Len(t))
    BY <1>1
  <2> QED BY <1>1, <1>2, <2>1 DEF Range
<1> QED BY <1>1, <1>3, <1>4, <1>5 DEF Range

LEMMA Kinded ==
  /\ Kinds = {"members", "tokens"}
  /\ \A m \in MemberSteps : Kind(m) = "members" /\ m.op \notin {"create", "revoke", "undo"}
  /\ \A cmd : cmd.op \in {"create", "revoke", "undo"} => Kind(cmd) = "tokens"
  /\ \A cmd : Kind(cmd) \in Kinds
BY NamesAssumption DEF Kind, Kinds

(* The write in one of the files, under its lock, that an audit line is to  *)
(* follow.                                                                 *)
LEMMA AuditBegins ==
  ASSUME AuditInv, NEW k \in Shells, NEW kind \in Kinds, NEW line \in Seq(Lines),
         shell[k].pc # "audit", LockOf(kind) = k, UNCHANGED <<audit, peopleLock, tokensLock, faults>>,
         changes' = [changes EXCEPT ![kind] = @ \o line],
         shell'[k].pc = "audit", Kind(shell'[k].cmd) = kind, shell'[k].line = line,
         \A j \in Shells \ {k} : shell'[j] = shell[j]
  PROVE  AuditInv'
<1>1. /\ changes' \in [Kinds -> Seq(Lines)] /\ audit' \in [Kinds -> Seq(Lines)] /\ faults' \in Nat
      /\ changes'[kind] = changes[kind] \o line
      /\ \A other \in Kinds \ {kind} : changes'[other] = changes[other]
      /\ Range(changes'[kind]) = Range(changes[kind]) \cup Range(line)
  <2>1. audit \in [Kinds -> Seq(Lines)] /\ changes \in [Kinds -> Seq(Lines)] /\ faults \in Nat
    BY DEF AuditInv
  <2>2. /\ changes[kind] \o line \in Seq(Lines)
        /\ Range(changes[kind] \o line) = Range(changes[kind]) \cup Range(line)
    BY <2>1, Appended
  <2> QED BY <2>1, <2>2
<1>2. \A j \in Shells \ {k} : ~Auditing(j, kind)
  BY DEF AuditInv
<1>3. ~Auditing(k, kind)
  BY DEF Auditing
<1>4. faults = 0 => audit[kind] = changes[kind]
  BY <1>2, <1>3 DEF AuditInv
<1>5. \A j \in Shells \ {k} : \A other \in Kinds : Auditing(j, other)' <=> Auditing(j, other)
  BY DEF Auditing
<1>6. \A other \in Kinds : Auditing(k, other)' <=> other = kind
  BY DEF Auditing
<1>7. \A other \in Kinds : LockOf(other)' = LockOf(other)
  BY DEF LockOf
<1>8. ASSUME NEW other \in Kinds
      PROVE  /\ Range(audit'[other]) \subseteq Range(changes'[other])
             /\ faults' = 0 /\ (\A j \in Shells : ~Auditing(j, other)') => audit'[other] = changes'[other]
  <2>1. Range(audit[other]) \subseteq Range(changes[other])
    BY DEF AuditInv
  <2>2. CASE other = kind
    BY <1>1, <1>6, <2>1, <2>2
  <2>3. CASE other # kind
    <3>1. ~Auditing(k, other)
      BY DEF Auditing
    <3>2. (\A j \in Shells : ~Auditing(j, other)') => \A j \in Shells : ~Auditing(j, other)
      BY <1>5, <3>1
    <3>3. faults = 0 /\ (\A j \in Shells : ~Auditing(j, other)) => audit[other] = changes[other]
      BY DEF AuditInv
    <3> QED BY <1>1, <2>1, <2>3, <3>2, <3>3
  <2> QED BY <2>2, <2>3
<1>9. ASSUME NEW other \in Kinds, NEW j \in Shells, Auditing(j, other)'
      PROVE  /\ LockOf(other)' = j
             /\ Range(shell'[j].line) \subseteq Range(changes'[other])
             /\ faults' = 0 => changes'[other] = audit'[other] \o shell'[j].line
  <2>1. CASE j = k
    <3>1. other = kind
      BY <1>6, <1>9, <2>1
    <3> QED BY <1>1, <1>4, <1>7, <2>1, <3>1
  <2>2. CASE j # k
    <3>1. Auditing(j, other) /\ other # kind /\ shell'[j] = shell[j]
      BY <1>2, <1>5, <1>9, <2>2
    <3>2. /\ LockOf(other) = j
          /\ Range(shell[j].line) \subseteq Range(changes[other])
          /\ faults = 0 => changes[other] = audit[other] \o shell[j].line
      BY <3>1 DEF AuditInv
    <3> QED BY <1>1, <1>7, <3>1, <3>2
  <2> QED BY <2>1, <2>2
<1>10. ASSUME NEW j \in Shells, shell'[j].pc \in {"write tokens", "audit"} PROVE shell'[j].line \in Seq(Lines)
  BY <1>10 DEF AuditInv
<1> QED BY <1>1, <1>8, <1>9, <1>10 DEF AuditInv

LEMMA WriteMemberStep ==
  ASSUME AccessInv, NEW k \in Shells, WriteMember(k)
  PROVE  AccessInv'
<1> PICK x : x = shell[k]
  OBVIOUS
<1>0. /\ UNCHANGED <<settings, conn, rolesCache, tokensCache, tokens, tokensWas, tokensLock, tokenFile, known,
                     adrift, audit>>
      /\ x.pc = "write member"
  BY DEF WriteMember, keys, requests
<1>1. /\ ShellShape(x) /\ x.cmd \in MemberSteps /\ peopleLock = k
      /\ x.rows = MemberRows(x.cmd, people.rows) /\ x.line = MemberLine(x.cmd, people.rows)
      /\ people.rows = truth
  BY <1>0 DEF AccessInv, TokensInv, ShellInv, PeopleInv, FilesInv
<1>2. ~Carries(k) /\ \A a \in Conns \cup Shells : a # Free
  BY <1>0, NamesAssumption DEF Carries
<1>3. tokenFile \subseteq Tokens /\ tokensLock \in {Free} \cup Shells /\ shell = [j \in Shells |-> shell[j]]
  BY DEF AccessInv, TokensInv
<1>4. CASE /\ PutPeople(Rewritten(x.rows)) /\ truth' = MemberRows(x.cmd, truth)
           /\ changes' = [changes EXCEPT !["members"] = @ \o MemberLine(x.cmd, truth)]
           /\ Shell(k, [x EXCEPT !.pc = "audit"]) /\ UNCHANGED <<peopleLock, faults>>
  <2>1. PICK f : f = Rewritten(x.rows) /\ PutPeople(f)
    BY <1>4
  <2>2. f = [inode |-> people.inode + 1, mode |-> "open", shape |-> "people", rows |-> x.rows]
    BY <2>1 DEF Rewritten
  <2>3. /\ f.inode \in Nat /\ f.inode # 0 /\ f.rows = truth'
        /\ f = [inode |-> f.inode, mode |-> f.mode, shape |-> f.shape, rows |-> f.rows]
    <3>1. people.inode \in Nat
      BY DEF AccessInv, FilesInv
    <3>2. f.rows = x.rows /\ f.inode = people.inode + 1
      BY <2>2
    <3> QED BY <1>1, <1>4, <2>2, <3>1, <3>2
  <2>4. FilesInv' /\ FilesGrow
    BY <1>0, <2>1, <2>3, PeoplePut DEF AccessInv
  <2>5. AnswersInv'
    BY <1>0, <2>4, OthersAnswer DEF AccessInv
  <2>6. PICK s : s = [x EXCEPT !.pc = "audit"] /\ Shell(k, s)
    BY <1>4
  <2>7. s = [pc |-> "audit", cmd |-> x.cmd, rows |-> x.rows, line |-> x.line, token |-> x.token, saw |-> x.saw]
    BY <1>1, <2>6 DEF ShellShape
  <2>8. ShellShape(s) /\ s.pc = "audit" /\ s.cmd = x.cmd /\ s.line = x.line
    BY <2>7 DEF ShellShape
  <2>9. shell'[k] = s /\ \A j \in Shells \ {k} : shell'[j] = shell[j]
    BY <1>3, <2>6 DEF Shell
  <2>10. ShellInv(k)'
    BY <1>1, <2>8, <2>9 DEF ShellInv
  <2>11. TokensInv'
    BY <1>0, <1>2, <1>3, <2>6, <2>10, TokensStay DEF AccessInv
  <2>12. PeopleInv'
    <3>1. /\ \A c \in Conns : conn'[c].pc = "write" => c # k /\ conn'[c] = conn[c]
          /\ \A j \in Shells : shell'[j].pc = "write member" => j # k /\ shell'[j] = shell[j]
      BY <1>0, <2>8, <2>9, NamesAssumption
    <3> QED BY <1>1, <1>4, <3>1, PeopleWritten DEF AccessInv
  <2>13. AuditInv'
    <3>1. x.line \in Seq(Lines) /\ Kind(s.cmd) = "members" /\ "members" \in Kinds /\ LockOf("members") = k
      BY <1>1, <2>8, LinesOfMembers, Kinded DEF LockOf
    <3>2. changes' = [changes EXCEPT !["members"] = @ \o x.line]
      BY <1>1, <1>4
    <3> QED BY <1>0, <1>4, <2>8, <2>9, <3>1, <3>2, AuditBegins DEF AccessInv
  <2> QED BY <2>4, <2>5, <2>11, <2>12, <2>13 DEF AccessInv
<1>5. CASE Fault /\ Unlock(peopleLock, k) /\ Shell(k, Idle) /\ UNCHANGED <<books, changes>>
  <2>1. PICK s : s = Idle /\ Shell(k, s)
    BY <1>5
  <2>2. ShellShape(s) /\ s.pc = "idle"
    BY <2>1 DEF Idle, ShellShape
  <2>3. shell'[k] = s
    BY <1>3, <2>1 DEF Shell
  <2>4. ShellInv(k)'
    BY <2>2, <2>3 DEF ShellInv
  <2>5. peopleLock' = Free /\ faults' = faults + 1
    BY <1>1, <1>5 DEF Unlock, Fault
  <2> QED BY <1>0, <1>1, <1>2, <1>3, <1>5, <2>1, <2>2, <2>4, <2>5, CommandStays
<1> QED BY <1>4, <1>5 DEF WriteMember

LEMMA LogGrows ==
  ASSUME NEW l \in [Kinds -> Seq(Lines)], NEW kind \in Kinds, NEW line \in Seq(Lines)
  PROVE  /\ l[kind] \o line \in Seq(Lines)
         /\ Range(l[kind] \o line) = Range(l[kind]) \cup Range(line)
<1>1. l[kind] \in Seq(Lines)
  OBVIOUS
<1> QED BY <1>1, Appended

LEMMA LineFollows ==
  ASSUME AuditInv, NEW k \in Shells, NEW kind \in Kinds, Auditing(k, kind)
  PROVE  /\ audit[kind] \o shell[k].line \in Seq(Lines)
         /\ Range(audit[kind] \o shell[k].line) \subseteq Range(changes[kind])
<1>1. /\ audit \in [Kinds -> Seq(Lines)] /\ shell[k].line \in Seq(Lines)
      /\ Range(audit[kind]) \subseteq Range(changes[kind])
      /\ Range(shell[k].line) \subseteq Range(changes[kind])
  BY DEF AuditInv, Auditing
<1>2. Range(audit[kind] \o shell[k].line) = Range(audit[kind]) \cup Range(shell[k].line)
  BY <1>1, LogGrows
<1>3. audit[kind] \o shell[k].line \in Seq(Lines)
  BY <1>1, LogGrows
<1> QED BY <1>1, <1>2, <1>3

(* The line follows: the audit log has all there is again.                 *)
LEMMA AuditEnds ==
  ASSUME AuditInv, NEW k \in Shells, NEW kind \in Kinds, Auditing(k, kind), UNCHANGED <<changes, faults>>,
         audit' = [audit EXCEPT ![kind] = @ \o shell[k].line], shell'[k].pc \notin {"audit", "write tokens"},
         \A j \in Shells \ {k} : /\ shell'[j] = shell[j]
                                 /\ peopleLock = j => peopleLock' = j
                                 /\ tokensLock = j => tokensLock' = j
  PROVE  AuditInv'
<1> PICK line : line = shell[k].line
  OBVIOUS
<1>1. /\ audit \in [Kinds -> Seq(Lines)] /\ changes \in [Kinds -> Seq(Lines)] /\ faults \in Nat
      /\ line \in Seq(Lines) /\ shell[k].pc = "audit" /\ LockOf(kind) = k
      /\ Range(audit[kind]) \subseteq Range(changes[kind]) /\ Range(line) \subseteq Range(changes[kind])
      /\ faults = 0 => changes[kind] = audit[kind] \o line
  BY DEF AuditInv, Auditing
<1>2. /\ audit' \in [Kinds -> Seq(Lines)] /\ audit'[kind] = audit[kind] \o line
      /\ \A other \in Kinds \ {kind} : audit'[other] = audit[other]
      /\ Range(audit'[kind]) \subseteq Range(changes[kind])
  <2>1. /\ audit[kind] \o line \in Seq(Lines)
        /\ Range(audit[kind] \o line) \subseteq Range(changes[kind])
    BY LineFollows
  <2> QED BY <1>1, <2>1
<1>3. \A j \in Shells \ {k} : ~Auditing(j, kind)
  BY <1>1 DEF AuditInv
<1>4. ASSUME NEW other \in Kinds, NEW j \in Shells, Auditing(j, other)'
      PROVE  j # k /\ Auditing(j, other) /\ other # kind
  BY <1>3, <1>4 DEF Auditing
<1>5. ASSUME NEW other \in Kinds, NEW j \in Shells, Auditing(j, other)'
      PROVE  /\ LockOf(other)' = j
             /\ Range(shell'[j].line) \subseteq Range(changes'[other])
             /\ faults' = 0 => changes'[other] = audit'[other] \o shell'[j].line
  <2>1. j # k /\ Auditing(j, other) /\ other # kind
    BY <1>4, <1>5
  <2>2. /\ LockOf(other) = j
        /\ Range(shell[j].line) \subseteq Range(changes[other])
        /\ faults = 0 => changes[other] = audit[other] \o shell[j].line
    BY <2>1 DEF AuditInv
  <2>3. LockOf(other)' = j
    BY <2>1, <2>2 DEF LockOf
  <2>4. shell'[j] = shell[j] /\ audit'[other] = audit[other] /\ changes' = changes /\ faults' = faults
    BY <1>2, <2>1
  <2> QED BY <2>2, <2>3, <2>4
<1>6. ASSUME NEW other \in Kinds
      PROVE  /\ Range(audit'[other]) \subseteq Range(changes'[other])
             /\ faults' = 0 /\ (\A j \in Shells : ~Auditing(j, other)') => audit'[other] = changes'[other]
  <2>1. CASE other = kind
    BY <1>1, <1>2, <2>1
  <2>2. CASE other # kind
    <3>1. ~Auditing(k, other)
      BY <2>2 DEF Auditing
    <3>2. (\A j \in Shells : ~Auditing(j, other)') => \A j \in Shells : ~Auditing(j, other)
      BY <3>1 DEF Auditing
    <3>3. /\ Range(audit[other]) \subseteq Range(changes[other])
          /\ faults = 0 /\ (\A j \in Shells : ~Auditing(j, other)) => audit[other] = changes[other]
      BY DEF AuditInv
    <3> QED BY <1>2, <2>2, <3>2, <3>3
  <2> QED BY <2>1, <2>2
<1>7. ASSUME NEW j \in Shells, shell'[j].pc \in {"write tokens", "audit"} PROVE shell'[j].line \in Seq(Lines)
  BY <1>7 DEF AuditInv
<1> QED BY <1>1, <1>2, <1>5, <1>6, <1>7 DEF AuditInv

LEMMA AppendAuditStep ==
  ASSUME AccessInv, NEW k \in Shells, AppendAudit(k)
  PROVE  AccessInv'
<1> PICK x : x = shell[k]
  OBVIOUS
<1>0. /\ UNCHANGED <<settings, conn, rolesCache, tokensCache, books, tokens, tokensWas, tokenFile, adrift, changes>>
      /\ x.pc = "audit"
      /\ known' = IF x.cmd.op = "create" /\ ~x.cmd.save THEN known \cup {x.token} ELSE known
      /\ peopleLock' = IF peopleLock = k THEN Free ELSE peopleLock
      /\ tokensLock' = IF tokensLock = k THEN Free ELSE tokensLock
  BY DEF AppendAudit, requests, Unlock
<1>1. /\ ShellShape(x)
      /\ \/ x.cmd \in MemberSteps
         \/ x.cmd.op = "create" /\ x.token \in Tokens
         \/ x.cmd.op \in {"revoke", "undo"} /\ Spent(x.token)
  BY <1>0 DEF AccessInv, TokensInv, ShellInv
<1>2. /\ tokenFile \subseteq Tokens /\ tokensLock \in {Free} \cup Shells /\ shell = [j \in Shells |-> shell[j]]
      /\ peopleLock \in {Free} \cup Conns \cup Shells
  BY DEF AccessInv, TokensInv, PeopleInv
<1>3. PICK s : /\ Shell(k, s)
               /\ \/ s = Idle /\ (x.cmd.op = "create" => ~x.cmd.save)
                  \/ s = [x EXCEPT !.pc = "token file"] /\ x.cmd.op = "create"
                  \/ s = [x EXCEPT !.pc = "forget"] /\ x.cmd.op = "revoke"
  <2>1. CASE x.cmd.op = "create" /\ x.cmd.save
    BY <2>1 DEF AppendAudit
  <2>2. CASE x.cmd.op = "revoke"
    BY <2>2 DEF AppendAudit
  <2>3. CASE x.cmd.op # "revoke" /\ ~(x.cmd.op = "create" /\ x.cmd.save)
    BY <2>3 DEF AppendAudit
  <2> QED BY <2>1, <2>2, <2>3
<1>4. /\ ShellShape(s) /\ s.pc \in {"idle", "token file", "forget"}
      /\ s.pc = "idle" => (x.cmd.op = "create" => ~x.cmd.save)
      /\ s.pc # "idle" => s.token = x.token /\ s.cmd = x.cmd
      /\ s.pc = "token file" => x.cmd.op = "create"
      /\ s.pc = "forget" => x.cmd.op = "revoke"
  <2>1. CASE s = Idle /\ (x.cmd.op = "create" => ~x.cmd.save)
    BY <2>1 DEF Idle, ShellShape
  <2>2. ASSUME NEW pc \in {"token file", "forget"}, s = [x EXCEPT !.pc = pc]
        PROVE  ShellShape(s) /\ s.pc = pc /\ s.token = x.token /\ s.cmd = x.cmd
    <3>1. s = [pc |-> pc, cmd |-> x.cmd, rows |-> x.rows, line |-> x.line, token |-> x.token, saw |-> x.saw]
      BY <1>1, <2>2 DEF ShellShape
    <3> QED BY <3>1 DEF ShellShape
  <2> QED BY <1>3, <2>1, <2>2
<1>5. shell'[k] = s /\ \A j \in Shells \ {k} : shell'[j] = shell[j]
  BY <1>2, <1>3 DEF Shell
<1>6. Spent(x.token)' <=> Spent(x.token)
  BY <1>0 DEF Spent
<1>7. ShellInv(k)'
  <2>1. s.pc = "token file" => s.cmd.op = "create" /\ s.token \in Tokens
    BY <1>1, <1>4, Kinded
  <2>2. s.pc = "forget" => Spent(s.token)'
    BY <1>1, <1>4, <1>6, Kinded
  <2> QED BY <1>4, <1>5, <2>1, <2>2 DEF ShellInv
<1>8. (Carries(k) /\ shell[k].token \in tokens.rows) =>
            \/ shell[k].token \in known' \cup adrift' \cup tokenFile'
            \/ shell'[k].token = shell[k].token /\ Carries(k)'
  <2> SUFFICES ASSUME Carries(k)
               PROVE  \/ x.token \in known' \cup adrift' \cup tokenFile'
                      \/ shell'[k].token = x.token /\ Carries(k)'
    OBVIOUS
  <2>1. x.cmd.op = "create"
    BY <1>0 DEF Carries
  <2>2. CASE s.pc = "idle"
    BY <1>0, <1>4, <2>1, <2>2
  <2>3. CASE s.pc # "idle"
    BY <1>4, <1>5, <2>1, <2>3 DEF Carries
  <2> QED BY <2>2, <2>3
<1>9. /\ \A t : t \in known \cup adrift \cup tokenFile => t \in known' \cup adrift' \cup tokenFile'
      /\ \A a \in (Conns \cup Shells) \ {k} : peopleLock = a => peopleLock' = a
      /\ \A j \in Shells \ {k} : tokensLock = j => tokensLock' = j
      /\ tokenFile' \subseteq Tokens /\ tokensLock' \in {Free} \cup Shells
      /\ peopleLock' \in {Free} \cup Conns \cup Shells
  BY <1>0, <1>2
<1>10. CASE Fault /\ UNCHANGED audit
  BY <1>0, <1>3, <1>4, <1>7, <1>8, <1>9, <1>10, CommandStays DEF Fault
<1>11. CASE audit' = [audit EXCEPT ![Kind(x.cmd)] = @ \o x.line] /\ UNCHANGED faults
  <2>1. FilesInv' /\ FilesGrow
    BY <1>0, FilesKept DEF AccessInv, books
  <2>2. AnswersInv'
    BY <1>0, <2>1, OthersAnswer DEF AccessInv
  <2>3. TokensInv'
    BY <1>0, <1>3, <1>7, <1>8, <1>9, TokensStay DEF AccessInv
  <2>4. PeopleInv'
    <3>1. people' = people /\ conn' = conn /\ \A c \in Conns : c # k
      BY <1>0, NamesAssumption DEF books
    <3>2. \A j \in Shells : shell'[j].pc = "write member" => j # k /\ shell'[j] = shell[j]
      BY <1>4, <1>5
    <3> QED BY <1>9, <3>1, <3>2, PeopleStays DEF AccessInv
  <2>5. AuditInv'
    <3>1. PICK kind \in Kinds : kind = Kind(x.cmd)
      BY Kinded
    <3>2. Auditing(k, kind)
      BY <1>0, <3>1 DEF Auditing
    <3>3. \A j \in Shells \ {k} : /\ shell'[j] = shell[j]
                                  /\ peopleLock = j => peopleLock' = j
                                  /\ tokensLock = j => tokensLock' = j
      BY <1>5, <1>9
    <3>4. shell'[k].pc \notin {"audit", "write tokens"}
      BY <1>4, <1>5
    <3>5. audit' = [audit EXCEPT ![kind] = @ \o x.line]
      BY <1>11, <3>1
    <3> QED BY <1>0, <1>11, <3>2, <3>3, <3>4, <3>5, AuditEnds DEF AccessInv
  <2> QED BY <2>1, <2>2, <2>3, <2>4, <2>5 DEF AccessInv
<1> QED BY <1>10, <1>11 DEF AppendAudit

LEMMA BeginTokenStep ==
  ASSUME AccessInv, NEW k \in Shells, BeginToken(k)
  PROVE  AccessInv'
<1>0. /\ UNCHANGED <<settings, conn, rolesCache, tokensCache, books, tokens, tokensWas, tokenFile, adrift, known,
                     audit, changes, peopleLock, tokensLock, faults>>
      /\ shell[k].pc = "idle"
  BY DEF BeginToken, requests, keys
<1>1. CASE UNCHANGED shell
  BY <1>0, <1>1, NothingSeen DEF Unseen, books
<1>2. ASSUME NEW t \in TokenSteps,
             Shell(k, [Idle EXCEPT !.pc = "lock tokens", !.cmd = t,
                                   !.saw = IF t.op = "create" /\ t.force THEN tokenFile ELSE {}])
      PROVE  AccessInv'
  <2>1. PICK s, saw : s = [Idle EXCEPT !.pc = "lock tokens", !.cmd = t, !.saw = saw] /\ Shell(k, s)
    <3> DEFINE saw == IF t.op = "create" /\ t.force THEN tokenFile ELSE {}
    <3>1. Shell(k, [Idle EXCEPT !.pc = "lock tokens", !.cmd = t, !.saw = saw])
      BY <1>2
    <3> HIDE DEF saw
    <3> QED BY <3>1
  <2>2. s = [pc |-> "lock tokens", cmd |-> t, rows |-> <<>>, line |-> <<>>, token |-> NoOne, saw |-> saw]
    BY <2>1 DEF Idle
  <2>3. ShellShape(s) /\ s.pc = "lock tokens" /\ s.cmd = t
    BY <2>2 DEF ShellShape
  <2>4. shell'[k] = s
    BY <2>1 DEF Shell, AccessInv, TokensInv
  <2>5. ShellInv(k)'
    BY <2>3, <2>4 DEF ShellInv
  <2>6. ~Carries(k)
    BY <1>0 DEF Carries
  <2>7. /\ tokenFile' \subseteq Tokens /\ tokensLock' \in {Free} \cup Shells
        /\ peopleLock' \in {Free} \cup Conns \cup Shells
    BY <1>0 DEF AccessInv, TokensInv, PeopleInv
  <2> QED BY <1>0, <2>1, <2>3, <2>5, <2>6, <2>7, CommandStays
<1> QED BY <1>1, <1>2 DEF BeginToken

LEMMA LockTokensStep ==
  ASSUME AccessInv, NEW k \in Shells, LockTokens(k)
  PROVE  AccessInv'
<1> PICK x : x = shell[k]
  OBVIOUS
<1>0. /\ UNCHANGED <<settings, conn, rolesCache, tokensCache, books, tokens, tokensWas, tokenFile, adrift, known,
                     audit, changes, peopleLock, faults>>
      /\ x.pc = "lock tokens" /\ tokensLock = Free
  BY DEF LockTokens, requests, keys
<1>1. /\ ShellShape(x) /\ (x.cmd \in TokenSteps \/ (x.cmd.op = "undo" /\ x.cmd.token = x.token))
      /\ x.cmd.op \in {"create", "revoke", "undo"}
  <2>1. ShellShape(x) /\ (x.cmd \in TokenSteps \/ (x.cmd.op = "undo" /\ x.cmd.token = x.token))
    BY <1>0 DEF AccessInv, TokensInv, ShellInv
  <2> QED BY <2>1, NamesAssumption
<1>2. /\ tokenFile' \subseteq Tokens /\ peopleLock' \in {Free} \cup Conns \cup Shells
      /\ shell = [j \in Shells |-> shell[j]] /\ \A j \in Shells : j # Free
      /\ tokens.rows \subseteq Tokens
  BY <1>0, TokensAre, NamesAssumption DEF AccessInv, TokensInv, PeopleInv
<1>3. Carries(k) => x.cmd.op = "undo" /\ x.cmd.token = x.token
  BY <1>0, <1>1, NamesAssumption DEF Carries
<1>4. ASSUME NEW t \in Tokens, NEW rows, NEW line, tokensLock' = k, line \in Seq(Lines),
             Shell(k, [x EXCEPT !.pc = "write tokens", !.token = t, !.rows = rows, !.line = line]),
             \/ x.cmd.op = "create" /\ t \in Fresh /\ rows = tokens.rows \cup {t}
             \/ x.cmd.op \in {"revoke", "undo"} /\ t = x.cmd.token /\ t \in tokens.rows /\ rows = tokens.rows \ {t}
      PROVE  AccessInv'
  <2>1. PICK s : s = [x EXCEPT !.pc = "write tokens", !.token = t, !.rows = rows, !.line = line] /\ Shell(k, s)
    BY <1>4
  <2>2. s = [pc |-> "write tokens", cmd |-> x.cmd, rows |-> rows, line |-> line, token |-> t, saw |-> x.saw]
    BY <1>1, <2>1 DEF ShellShape
  <2>3. ShellShape(s) /\ s.pc = "write tokens" /\ s.cmd = x.cmd /\ s.rows = rows /\ s.line = line /\ s.token = t
    BY <2>2 DEF ShellShape
  <2>4. shell'[k] = s
    BY <1>2, <2>1 DEF Shell
  <2>5. tokens'.rows = tokens.rows /\ Fresh' = Fresh
    BY <1>0 DEF Fresh
  <2>6. ShellInv(k)'
    BY <1>4, <2>3, <2>4, <2>5 DEF ShellInv
  <2>7. Carries(k) => shell'[k].token = shell[k].token /\ Carries(k)'
    BY <1>3, <1>4, <2>3, <2>4 DEF Carries
  <2> QED BY <1>0, <1>2, <1>4, <2>1, <2>3, <2>6, <2>7, CommandStays
<1>5. CASE x.cmd.op = "create" /\ Fresh # {}
  <2>1. PICK t \in Tokens : t = (CHOOSE u \in Fresh : TRUE) /\ t \in Fresh
    BY <1>5 DEF Fresh
  <2>2. /\ tokensLock' = k
        /\ Shell(k, [x EXCEPT !.pc = "write tokens", !.token = t,
                              !.rows = tokens.rows \cup {t}, !.line = << <<"token_created", t>> >>])
    BY <1>1, <1>5, <2>1 DEF LockTokens
  <2>3. << <<"token_created", t>> >> \in Seq(Lines)
    BY DEF Lines
  <2> QED BY <1>4, <1>5, <2>1, <2>2, <2>3
<1>6. CASE x.cmd.op \in {"revoke", "undo"} /\ x.cmd.token \in tokens.rows
  <2>1. PICK t \in Tokens : t = x.cmd.token
    BY <1>2, <1>6
  <2>2. /\ tokensLock' = k
        /\ Shell(k, [x EXCEPT !.pc = "write tokens", !.token = t,
                              !.rows = tokens.rows \ {t}, !.line = << <<"token_revoked", t>> >>])
    BY <1>6, <2>1 DEF LockTokens
  <2>3. << <<"token_revoked", t>> >> \in Seq(Lines)
    BY DEF Lines
  <2> QED BY <1>4, <1>6, <2>1, <2>2, <2>3
<1>7. CASE x.cmd.op \in {"revoke", "undo"} /\ x.cmd.token \notin tokens.rows
  <2>1. tokensLock' = tokensLock /\ Shell(k, Idle)
    BY <1>7 DEF LockTokens
  <2>2. PICK s : s = Idle /\ Shell(k, s)
    BY <2>1
  <2>3. ShellShape(s) /\ s.pc = "idle"
    BY <2>2 DEF Idle, ShellShape
  <2>4. shell'[k] = s
    BY <1>2, <2>2 DEF Shell
  <2>5. ShellInv(k)'
    BY <2>3, <2>4 DEF ShellInv
  <2>6. ~(Carries(k) /\ x.token \in tokens.rows)
    BY <1>3, <1>7
  <2> QED BY <1>0, <1>2, <2>1, <2>2, <2>3, <2>5, <2>6, CommandStays
<1> QED BY <1>5, <1>6, <1>7 DEF LockTokens

LEMMA WriteTokensStep ==
  ASSUME AccessInv, NEW k \in Shells, WriteTokens(k)
  PROVE  AccessInv'
<1> PICK x : x = shell[k]
  OBVIOUS
<1>0. /\ UNCHANGED <<settings, conn, rolesCache, tokensCache, books, tokenFile, adrift, audit, peopleLock>>
      /\ x.pc = "write tokens"
  BY DEF WriteTokens, requests
<1>1. /\ ShellShape(x) /\ tokensLock = k /\ x.line \in Seq(Lines)
      /\ \/ x.cmd.op = "create" /\ x.token \in Fresh /\ x.rows = tokens.rows \cup {x.token}
         \/ x.cmd.op \in {"revoke", "undo"} /\ x.token \in tokens.rows /\ x.rows = tokens.rows \ {x.token}
  BY <1>0 DEF AccessInv, TokensInv, ShellInv, AuditInv
<1>2. /\ tokens.rows \subseteq Tokens /\ tokens.rows \subseteq UNION Range(tokensWas)
      /\ tokenFile \subseteq Tokens /\ shell = [j \in Shells |-> shell[j]]
      /\ peopleLock \in {Free} \cup Conns \cup Shells
      /\ \A a \in Conns \cup Shells : a # Free
  BY TokensAre, NamesAssumption DEF AccessInv, TokensInv, PeopleInv
<1>3. /\ x.token \in Tokens /\ x.rows \subseteq Tokens
      /\ x.cmd.op = "create" => x.token \notin UNION Range(tokensWas)
  BY <1>1, <1>2 DEF Fresh
<1>4. CASE /\ PutTokens(x.rows) /\ changes' = [changes EXCEPT !["tokens"] = @ \o x.line]
           /\ Shell(k, [x EXCEPT !.pc = "audit"]) /\ UNCHANGED <<tokensLock, faults, known>>
  <2>1. /\ FilesInv' /\ FilesGrow /\ tokens'.rows = x.rows
        /\ UNION Range(tokensWas') = (UNION Range(tokensWas)) \cup x.rows
    <3>1. UNCHANGED <<people, peopleWas, truth>>
      BY <1>0 DEF books
    <3> QED BY <1>3, <1>4, <3>1, TokensPut DEF AccessInv
  <2>2. AnswersInv'
    BY <1>0, <2>1, OthersAnswer DEF AccessInv
  <2>3. PICK s : s = [x EXCEPT !.pc = "audit"] /\ Shell(k, s)
    BY <1>4
  <2>4. s = [pc |-> "audit", cmd |-> x.cmd, rows |-> x.rows, line |-> x.line, token |-> x.token, saw |-> x.saw]
    BY <1>1, <2>3 DEF ShellShape
  <2>5. ShellShape(s) /\ s.pc = "audit" /\ s.cmd = x.cmd /\ s.line = x.line /\ s.token = x.token
    BY <2>4 DEF ShellShape
  <2>6. /\ shell'[k] = s /\ \A j \in Shells \ {k} : shell'[j] = shell[j]
        /\ shell' = [j \in Shells |-> shell'[j]]
    BY <1>2, <2>3 DEF Shell
  <2>7. PeopleInv'
    <3>1. people' = people /\ conn' = conn /\ peopleLock' = peopleLock
      BY <1>0 DEF books
    <3>2. \A j \in Shells : shell'[j].pc = "write member" => j # k /\ shell'[j] = shell[j]
      BY <2>5, <2>6
    <3> QED BY <1>2, <3>1, <3>2, PeopleStays DEF AccessInv
  <2>8. AuditInv'
    <3>1. Kind(s.cmd) = "tokens" /\ "tokens" \in Kinds /\ LockOf("tokens") = k
      BY <1>1, <2>5, Kinded DEF LockOf
    <3> QED BY <1>0, <1>1, <1>4, <2>5, <2>6, <3>1, AuditBegins DEF AccessInv
  <2>9. ASSUME NEW u, Spent(u) PROVE Spent(u)'
    <3>1. u \notin tokens.rows /\ u \in UNION Range(tokensWas)
      BY <2>9 DEF Spent
    <3>2. u \notin x.rows
      BY <1>1, <1>3, <3>1
    <3>3. u \in UNION Range(tokensWas') /\ u \notin tokens'.rows
      BY <2>1, <3>1, <3>2
    <3> QED BY <3>3 DEF Spent
  <2>10. ASSUME NEW j \in Shells \ {k} PROVE ShellInv(j)'
    <3>1. ShellInv(j) /\ shell'[j] = shell[j] /\ shell[j].pc # "write tokens"
      BY <1>1, <2>6 DEF AccessInv, TokensInv, ShellInv
    <3> QED BY <2>9, <3>1 DEF ShellInv
  <2>11. ShellInv(k)'
    <3>1. ASSUME x.cmd.op \in {"revoke", "undo"} PROVE Spent(x.token)'
      <4>1. x.token \notin x.rows /\ x.token \in UNION Range(tokensWas)
        BY <1>1, <1>2, <3>1
      <4>2. x.token \in UNION Range(tokensWas') /\ x.token \notin tokens'.rows
        BY <2>1, <4>1
      <4> QED BY <4>2 DEF Spent
    <3>2. \/ s.cmd.op = "create" /\ s.token \in Tokens
          \/ s.cmd.op \in {"revoke", "undo"} /\ Spent(s.token)'
      BY <1>1, <1>3, <2>5, <3>1
    <3> QED BY <2>5, <2>6, <3>2 DEF ShellInv
  <2>12. ASSUME NEW u \in tokens'.rows
         PROVE  \/ u \in known' \cup adrift' \cup tokenFile'
                \/ \E j \in Shells : shell'[j].token = u /\ Carries(j)'
    <3>1. CASE u \notin tokens.rows
      <4>1. u = x.token /\ x.cmd.op = "create"
        BY <1>1, <2>1, <2>12, <3>1
      <4>2. shell'[k].token = u /\ Carries(k)'
        BY <2>5, <2>6, <4>1 DEF Carries
      <4> QED BY <4>2
    <3>2. CASE u \in tokens.rows /\ u \in known \cup adrift \cup tokenFile
      BY <1>0, <1>4, <3>2
    <3>3. CASE u \in tokens.rows /\ u \notin known \cup adrift \cup tokenFile
      <4>1. PICK j \in Shells : shell[j].token = u /\ Carries(j)
        BY <3>3 DEF AccessInv, TokensInv
      <4>2. j # k
        <5>1. x.cmd.op = "undo" => u # x.token
          BY <1>1, <2>1, <2>12
        <5> QED BY <1>0, <4>1, <5>1 DEF Carries
      <4>3. shell'[j].token = u /\ Carries(j)'
        BY <2>6, <4>1, <4>2 DEF Carries
      <4> QED BY <4>3
    <3> QED BY <3>1, <3>2, <3>3
  <2>13. TokensInv'
    <3>1. tokensLock' \in {Free} \cup Shells /\ tokenFile' \subseteq Tokens
      BY <1>0, <1>1, <1>2, <1>4
    <3> QED BY <2>6, <2>10, <2>11, <2>12, <3>1 DEF TokensInv
  <2> QED BY <2>1, <2>2, <2>7, <2>8, <2>13 DEF AccessInv
<1>5. CASE /\ Fault /\ Unlock(tokensLock, k) /\ Shell(k, Idle)
           /\ known' = IF x.cmd.op = "undo" THEN known \cup {x.token} ELSE known
           /\ UNCHANGED <<tokens, tokensWas, changes>>
  <2>1. PICK s : s = Idle /\ Shell(k, s)
    BY <1>5
  <2>2. ShellShape(s) /\ s.pc = "idle"
    BY <2>1 DEF Idle, ShellShape
  <2>3. shell'[k] = s
    BY <1>2, <2>1 DEF Shell
  <2>4. ShellInv(k)'
    BY <2>2, <2>3 DEF ShellInv
  <2>5. tokensLock' = Free /\ faults' = faults + 1
    BY <1>1, <1>5 DEF Unlock, Fault
  <2>6. Carries(k) => x.token \in known'
    BY <1>0, <1>5 DEF Carries
  <2>7. /\ \A j \in Shells \ {k} : tokensLock = j => tokensLock' = j
        /\ \A t \in tokens.rows : t \in known \cup adrift \cup tokenFile => t \in known' \cup adrift' \cup tokenFile'
        /\ tokenFile' \subseteq Tokens /\ tokensLock' \in {Free} \cup Shells
        /\ peopleLock' \in {Free} \cup Conns \cup Shells
    BY <1>0, <1>1, <1>2, <1>5, <2>5
  <2> QED BY <1>0, <1>5, <2>1, <2>2, <2>4, <2>5, <2>6, <2>7, CommandStays
<1> QED BY <1>4, <1>5 DEF WriteTokens

(* A command's step back to idle, on to another step without a line, or    *)
(* into undoing.                                                           *)
LEMMA FileStep ==
  ASSUME AccessInv, NEW k \in Shells, shell[k].pc # "audit" \/ faults' = faults + 1,
         UNCHANGED <<settings, conn, rolesCache, tokensCache, books, tokens, tokensWas, audit, changes>>,
         faults' = faults \/ faults' = faults + 1,
         peopleLock' = peopleLock \/ (peopleLock = k /\ peopleLock' = Free),
         tokensLock' = tokensLock \/ (tokensLock = k /\ tokensLock' = Free),
         NEW s, Shell(k, s), ShellShape(s),
         \/ s.pc = "idle"
         \/ s.pc = "unlink" /\ Spent(s.token)
         \/ s.pc = "lock tokens" /\ s.cmd.op = "undo" /\ s.cmd.token = s.token,
         tokenFile' \subseteq Tokens, known \cup adrift \subseteq known' \cup adrift',
         \A t \in tokens.rows : t \in tokenFile => t \in known' \cup adrift' \cup tokenFile',
         (Carries(k) /\ shell[k].token \in tokens.rows) =>
            \/ shell[k].token \in known' \cup adrift' \cup tokenFile'
            \/ s.token = shell[k].token /\ s.pc = "lock tokens"
  PROVE  AccessInv'
<1>1. /\ shell = [j \in Shells |-> shell[j]] /\ tokensLock \in {Free} \cup Shells
      /\ peopleLock \in {Free} \cup Conns \cup Shells
  BY DEF AccessInv, TokensInv, PeopleInv
<1>2. shell'[k] = s
  BY <1>1 DEF Shell
<1>3. Spent(s.token)' <=> Spent(s.token)
  BY DEF Spent
<1>4. ShellInv(k)'
  BY <1>2, <1>3 DEF ShellInv
<1>5. (Carries(k) /\ shell[k].token \in tokens.rows) =>
            \/ shell[k].token \in known' \cup adrift' \cup tokenFile'
            \/ shell'[k].token = shell[k].token /\ Carries(k)'
  BY <1>2 DEF Carries
<1>6. /\ s.pc \notin {"audit", "write tokens", "write member"}
      /\ peopleLock' \in {Free} \cup Conns \cup Shells /\ tokensLock' \in {Free} \cup Shells
      /\ \A a \in (Conns \cup Shells) \ {k} : peopleLock = a => peopleLock' = a
      /\ \A j \in Shells \ {k} : tokensLock = j => tokensLock' = j
      /\ \A t \in tokens.rows : t \in known \cup adrift \cup tokenFile => t \in known' \cup adrift' \cup tokenFile'
  BY <1>1
<1> QED BY <1>4, <1>5, <1>6, CommandStays

LEMMA WriteTokenFileStep ==
  ASSUME AccessInv, NEW k \in Shells, WriteTokenFile(k)
  PROVE  AccessInv'
<1> PICK x : x = shell[k]
  OBVIOUS
<1> PICK t : t = x.token
  OBVIOUS
<1>0. /\ UNCHANGED <<settings, conn, rolesCache, tokensCache, books, tokens, tokensWas, audit, changes,
                     peopleLock, tokensLock>>
      /\ x.pc = "token file"
  BY DEF WriteTokenFile, requests
<1>1. t \in Tokens /\ tokenFile \subseteq Tokens /\ faults \in Nat
  BY <1>0 DEF AccessInv, TokensInv, ShellInv, AuditInv
<1>2. CASE /\ tokenFile' = {t} /\ Shell(k, Idle) /\ faults' = faults
           /\ adrift' = adrift \cup (tokenFile \ x.saw) /\ known \cup x.saw \subseteq known'
  <2>1. PICK s : s = Idle /\ Shell(k, s)
    BY <1>2
  <2>2. ShellShape(s) /\ s.pc = "idle"
    BY <2>1 DEF Idle, ShellShape
  <2>3. /\ \A u \in tokens.rows : u \in tokenFile => u \in known' \cup adrift' \cup tokenFile'
        /\ t \in tokenFile' /\ tokenFile' \subseteq Tokens /\ known \cup adrift \subseteq known' \cup adrift'
    BY <1>1, <1>2
  <2> QED BY <1>0, <1>2, <2>1, <2>2, <2>3, FileStep
<1>3. CASE /\ Shell(k, [Idle EXCEPT !.pc = "lock tokens", !.cmd = [op |-> "undo", token |-> t], !.token = t])
           /\ UNCHANGED <<tokenFile, known, adrift>> /\ (faults' = faults \/ faults' = faults + 1)
  <2>1. PICK cmd : cmd = [op |-> "undo", token |-> t]
    OBVIOUS
  <2>2. PICK s : s = [Idle EXCEPT !.pc = "lock tokens", !.cmd = cmd, !.token = t] /\ Shell(k, s)
    BY <1>3, <2>1
  <2>3. s = [pc |-> "lock tokens", cmd |-> cmd, rows |-> <<>>, line |-> <<>>, token |-> t, saw |-> {}]
    BY <2>2 DEF Idle
  <2>4. ShellShape(s) /\ s.pc = "lock tokens" /\ s.cmd = cmd /\ s.token = t
    BY <2>3 DEF ShellShape
  <2>5. cmd.op = "undo" /\ cmd.token = t
    BY <2>1
  <2>6. s.cmd.op = "undo" /\ s.cmd.token = s.token
    BY <2>4, <2>5
  <2> QED BY <1>0, <1>1, <1>3, <2>2, <2>4, <2>6, FileStep
<1>4. known \cup x.saw \subseteq known \cup x.saw \cup (IF x.cmd.print THEN {t} ELSE {})
  OBVIOUS
<1> QED BY <1>2, <1>3, <1>4 DEF WriteTokenFile, Fault

LEMMA ReadTokenFileStep ==
  ASSUME AccessInv, NEW k \in Shells, ReadTokenFile(k)
  PROVE  AccessInv'
<1> PICK x : x = shell[k]
  OBVIOUS
<1>0. /\ UNCHANGED <<settings, conn, rolesCache, tokensCache, books, tokens, tokensWas, audit, changes,
                     peopleLock, tokensLock, tokenFile, known, adrift, faults>>
      /\ x.pc = "forget"
  BY DEF ReadTokenFile, requests, keys
<1>1. ShellShape(x) /\ Spent(x.token) /\ ~Carries(k) /\ tokenFile \subseteq Tokens
  BY <1>0 DEF AccessInv, TokensInv, ShellInv, Carries
<1>2. PICK s : Shell(k, s) /\ (s = Idle \/ s = [x EXCEPT !.pc = "unlink"])
  BY DEF ReadTokenFile
<1>3. ShellShape(s) /\ (s.pc = "idle" \/ (s.pc = "unlink" /\ Spent(s.token)))
  <2>1. CASE s = Idle
    BY <2>1 DEF Idle, ShellShape
  <2>2. CASE s = [x EXCEPT !.pc = "unlink"]
    <3>1. s = [pc |-> "unlink", cmd |-> x.cmd, rows |-> x.rows, line |-> x.line, token |-> x.token, saw |-> x.saw]
      BY <1>1, <2>2 DEF ShellShape
    <3>2. ShellShape(s) /\ s.pc = "unlink" /\ s.token = x.token
      BY <3>1 DEF ShellShape
    <3> QED BY <1>1, <3>2
  <2> QED BY <1>2, <2>1, <2>2
<1> QED BY <1>0, <1>1, <1>2, <1>3, FileStep

LEMMA UnlinkTokenFileStep ==
  ASSUME AccessInv, NEW k \in Shells, UnlinkTokenFile(k)
  PROVE  AccessInv'
<1>0. /\ UNCHANGED <<settings, conn, rolesCache, tokensCache, books, tokens, tokensWas, audit, changes,
                     peopleLock, tokensLock, known, faults>>
      /\ shell[k].pc = "unlink" /\ tokenFile' = {} /\ adrift' = adrift \cup (tokenFile \ {shell[k].token})
  BY DEF UnlinkTokenFile, requests
<1>1. Spent(shell[k].token) /\ ~Carries(k)
  BY <1>0 DEF AccessInv, TokensInv, ShellInv, Carries
<1>2. shell[k].token \notin tokens.rows
  BY <1>1 DEF Spent
<1>3. PICK s : s = Idle /\ Shell(k, s)
  BY DEF UnlinkTokenFile
<1>4. ShellShape(s) /\ s.pc = "idle"
  BY <1>3 DEF Idle, ShellShape
<1>5. /\ \A u \in tokens.rows : u \in tokenFile => u \in known' \cup adrift' \cup tokenFile'
      /\ tokenFile' \subseteq Tokens /\ known \cup adrift \subseteq known' \cup adrift'
  BY <1>0, <1>2
<1> QED BY <1>0, <1>1, <1>3, <1>4, <1>5, FileStep

LEMMA KillStep ==
  ASSUME AccessInv, NEW k \in Shells, Kill(k)
  PROVE  AccessInv'
<1>0. /\ UNCHANGED <<settings, conn, rolesCache, tokensCache, books, tokens, tokensWas, audit, changes, known, tokenFile>>
      /\ faults' = faults + 1 /\ adrift' = adrift \cup ({shell[k].token} \cap tokens.rows)
      /\ peopleLock' = peopleLock \/ (peopleLock = k /\ peopleLock' = Free)
      /\ tokensLock' = tokensLock \/ (tokensLock = k /\ tokensLock' = Free)
  BY DEF Kill, requests, Fault, Unlock
<1>1. PICK s : s = Idle /\ Shell(k, s)
  BY DEF Kill
<1>2. ShellShape(s) /\ s.pc = "idle"
  BY <1>1 DEF Idle, ShellShape
<1>3. /\ tokenFile' \subseteq Tokens /\ known \cup adrift \subseteq known' \cup adrift'
      /\ \A u \in tokens.rows : u \in tokenFile => u \in known' \cup adrift' \cup tokenFile'
      /\ shell[k].token \in tokens.rows => shell[k].token \in known' \cup adrift' \cup tokenFile'
  BY <1>0 DEF AccessInv, TokensInv
<1> QED BY <1>0, <1>1, <1>2, <1>3, FileStep

-----------------------------------------------------------------------------
(* Requests, and the machine's people                                      *)

(* A step that no command takes and that leaves the tokens alone.          *)
LEMMA CommandsWait ==
  ASSUME AuditInv, TokensInv,
         UNCHANGED <<shell, audit, changes, tokens, tokensWas, tokensLock, tokenFile, known, adrift>>,
         faults' = faults \/ faults' = faults + 1,
         \A k \in Shells : peopleLock = k => peopleLock' = k
  PROVE  AuditInv' /\ TokensInv'
<1>0. faults' \in Nat /\ (faults' = 0 => faults = 0)
  BY OneMore DEF AuditInv
<1>1. AuditInv'
  <2>1. ASSUME NEW kind \in Kinds, NEW k \in Shells
        PROVE  /\ Auditing(k, kind)' <=> Auditing(k, kind)
               /\ LockOf(kind) = k => LockOf(kind)' = k
    BY DEF Auditing, LockOf
  <2>2. ASSUME NEW kind \in Kinds
        PROVE  /\ Range(audit'[kind]) \subseteq Range(changes'[kind])
               /\ faults' = 0 /\ (\A k \in Shells : ~Auditing(k, kind)') => audit'[kind] = changes'[kind]
    BY <1>0, <2>1 DEF AuditInv
  <2>3. ASSUME NEW kind \in Kinds, NEW k \in Shells, Auditing(k, kind)'
        PROVE  /\ LockOf(kind)' = k
               /\ Range(shell'[k].line) \subseteq Range(changes'[kind])
               /\ faults' = 0 => changes'[kind] = audit'[kind] \o shell'[k].line
    BY <1>0, <2>1, <2>3 DEF AuditInv
  <2>4. audit' \in [Kinds -> Seq(Lines)] /\ changes' \in [Kinds -> Seq(Lines)]
    BY DEF AuditInv
  <2>5. \A k \in Shells : shell'[k].pc \in {"write tokens", "audit"} => shell'[k].line \in Seq(Lines)
    BY DEF AuditInv
  <2> QED BY <1>0, <2>2, <2>3, <2>4, <2>5 DEF AuditInv
<1>2. TokensInv'
  <2>1. ASSUME NEW j \in Shells PROVE ShellInv(j)'
    BY ShellStays DEF TokensInv
  <2>2. /\ tokensLock' \in {Free} \cup Shells /\ tokenFile' \subseteq Tokens
        /\ shell' = [j \in Shells |-> shell'[j]]
    BY DEF TokensInv
  <2>3. ASSUME NEW t \in tokens'.rows
        PROVE  \/ t \in known' \cup adrift' \cup tokenFile'
               \/ \E j \in Shells : shell'[j].token = t /\ Carries(j)'
    BY <2>3 DEF TokensInv, Carries
  <2> QED BY <2>1, <2>2, <2>3 DEF TokensInv
<1> QED BY <1>1, <1>2

(* A request's step outside the lock of people.json.                       *)
LEMMA RequestApart ==
  ASSUME AccessInv, AnswersInv', FilesInv', NEW c \in Conns, conn'[c].pc # "write",
         \A d \in Conns \ {c} : conn'[d] = conn[d],
         UNCHANGED <<books, keys, peopleLock, tokensLock, shell, audit, changes>>,
         faults' = faults \/ faults' = faults + 1
  PROVE  AccessInv'
<1>0. UNCHANGED <<shell, audit, changes, tokens, tokensWas, tokensLock, tokenFile, known, adrift, people, peopleLock>>
  BY DEF books, keys
<1>1. AuditInv' /\ TokensInv'
  BY <1>0, CommandsWait DEF AccessInv
<1>2. PeopleInv'
  <2>1. peopleLock' \in {Free} \cup Conns \cup Shells
    BY <1>0 DEF AccessInv, PeopleInv
  <2> QED BY <1>0, <2>1, PeopleStays DEF AccessInv
<1> QED BY <1>1, <1>2 DEF AccessInv

LEMMA RequestStepKeeps ==
  ASSUME AccessInv, NEW c \in Conns, RequestStep(c)
  PROVE  AccessInv'
<1>0. FilesInv /\ AnswersInv /\ PeopleInv /\ faults \in Nat
  BY DEF AccessInv, AuditInv
<1>1. CASE Arrive(c)
  <2>1. UNCHANGED <<books, keys, peopleLock, tokensLock, shell, audit, changes, faults>>
    BY <1>1 DEF Arrive
  <2> QED BY <1>0, <1>1, <2>1, ArriveAnswers, RequestApart
<1>2. CASE Unmoved /\ (\/ ReadRaw(c) \/ Stat(c) \/ IdentifyAtOnce(c) \/ IdentifyByToken(c) \/ IdentifyByRole(c)
                       \/ AdmitMember(c) \/ Act(c) \/ RecordPersonLately(c))
  <2>1. UNCHANGED <<books, keys, peopleLock, tokensLock, shell, audit, changes, faults>>
    BY <1>2 DEF Unmoved
  <2>2. AnswersInv' /\ FilesInv' /\ (\A d \in Conns \ {c} : conn'[d] = conn[d]) /\ conn'[c].pc # "write"
    BY <1>0, <1>2, ReadAnswers, StatAnswers, AtOnceAnswers, TokenAnswers, RoleAnswers, MemberAnswers, ActAnswers
  <2> QED BY <2>1, <2>2, RequestApart
<1>3. CASE Fails(c)
  <2>1. UNCHANGED <<books, keys, peopleLock, tokensLock, shell, audit, changes>> /\ faults' = faults + 1
    BY <1>3 DEF Fails, Fault
  <2> QED BY <1>0, <1>3, <2>1, FailsAnswers, RequestApart
<1>4. CASE RecordPerson(c)
  <2>0. /\ UNCHANGED <<shell, audit, changes, tokens, tokensWas, tokensLock, tokenFile, known, adrift, people, faults>>
        /\ peopleLock = Free /\ peopleLock' \in {Free, c}
    BY <1>4 DEF RecordPerson, books, keys
  <2>1. /\ AnswersInv' /\ FilesInv' /\ \A d \in Conns \ {c} : conn'[d] = conn[d]
        /\ conn'[c].pc = "write" => /\ Reading(people).usable /\ peopleLock' = c
                                    /\ conn'[c].rows = Reading(people).of
    BY <1>0, <1>4, RecordAnswers
  <2>2. \A a \in Conns \cup Shells : a # Free
    BY NamesAssumption
  <2>3. AuditInv' /\ TokensInv'
    BY <2>0, <2>2, CommandsWait DEF AccessInv
  <2>4. PeopleInv'
    <3>1. ASSUME NEW d \in Conns, conn'[d].pc = "write" PROVE peopleLock' = d /\ conn'[d].rows = people'.rows
      <4>1. CASE d = c
        BY <1>0, <2>0, <2>1, <3>1, <4>1, ReadsAll
      <4>2. CASE d # c
        BY <1>0, <2>0, <2>1, <2>2, <3>1, <4>2 DEF PeopleInv
      <4> QED BY <4>1, <4>2
    <3>2. \A k \in Shells : shell'[k].pc # "write member"
      BY <1>0, <2>0, <2>2 DEF PeopleInv
    <3> QED BY <2>0, <3>1, <3>2 DEF PeopleInv
  <2> QED BY <2>1, <2>3, <2>4 DEF AccessInv
<1>5. CASE WritePerson(c)
  <2>0. /\ UNCHANGED <<shell, audit, changes, tokens, tokensWas, tokensLock, tokenFile, known, adrift>>
        /\ faults' = faults \/ faults' = faults + 1
        /\ conn[c].pc = "write" /\ peopleLock' = (IF peopleLock = c THEN Free ELSE peopleLock)
    BY <1>5 DEF WritePerson, keys, Fault, Unlock
  <2>1. AnswersInv' /\ FilesInv' /\ (\A d \in Conns \ {c} : conn'[d] = conn[d]) /\ conn'[c].pc # "write"
    BY <1>0, <1>5, WriteAnswers
  <2>2. peopleLock = c /\ peopleLock' = Free /\ \A k \in Shells : k # c
    BY <1>0, <2>0, NamesAssumption DEF PeopleInv
  <2>3. AuditInv' /\ TokensInv'
    BY <2>0, <2>2, CommandsWait DEF AccessInv
  <2>4. PeopleInv'
    BY <1>0, <2>0, <2>1, <2>2, PeopleWritten
  <2> QED BY <2>1, <2>3, <2>4 DEF AccessInv
<1>6. RequestStep(c) => \/ Arrive(c) \/ Fails(c) \/ RecordPerson(c) \/ WritePerson(c)
                        \/ Unmoved /\ (\/ ReadRaw(c) \/ Stat(c) \/ IdentifyAtOnce(c) \/ IdentifyByToken(c)
                                       \/ IdentifyByRole(c) \/ AdmitMember(c) \/ Act(c) \/ RecordPersonLately(c))
  BY DEF RequestStep, ReadRaw, Stat, IdentifyAtOnce, IdentifyByToken, IdentifyByRole, AdmitMember, Act, RecordPersonLately
<1> QED BY <1>1, <1>2, <1>3, <1>4, <1>5, <1>6

(* Someone changes what can be read of people.json, not what is in it.     *)
LEMMA PeoplePutApart ==
  ASSUME AccessInv, NEW f, PutPeople(f), UNCHANGED <<truth, settings, keys, requests, rolesCache, tokensCache,
                                                     peopleLock, tokensLock, shell, audit, faults, changes>>,
         f = [inode |-> f.inode, mode |-> f.mode, shape |-> f.shape, rows |-> f.rows],
         f.inode \in Nat, f.inode = 0 => f.rows = <<>>, f.rows = people.rows
  PROVE  AccessInv'
<1>0. UNCHANGED <<shell, audit, changes, tokens, tokensWas, tokensLock, tokenFile, known, adrift, conn>>
  BY DEF keys, requests
<1>1. FilesInv' /\ FilesGrow
  <2>1. f.rows = truth'
    BY DEF AccessInv, FilesInv
  <2> QED BY <1>0, <2>1, PeoplePut DEF AccessInv
<1>2. AnswersInv'
  BY <1>0, <1>1, OthersAnswer DEF AccessInv
<1>3. PeopleInv'
  <2>1. people'.rows = people.rows /\ peopleLock' \in {Free} \cup Conns \cup Shells
    BY DEF PutPeople, AccessInv, PeopleInv
  <2> QED BY <1>0, <2>1, PeopleStays DEF AccessInv
<1>4. AuditInv' /\ TokensInv'
  BY <1>0, CommandsWait DEF AccessInv
<1> QED BY <1>1, <1>2, <1>3, <1>4 DEF AccessInv

LEMMA MachineStep ==
  ASSUME AccessInv, MemoExpires \/ ClosePeople \/ OpenPeople \/ Mangle \/ Mend
  PROVE  AccessInv'
<1>0. /\ people = [inode |-> people.inode, mode |-> people.mode, shape |-> people.shape, rows |-> people.rows]
      /\ people.inode \in Nat /\ (people.inode = 0 => people.rows = <<>>)
  BY DEF AccessInv, FilesInv
<1>1. CASE MemoExpires
  BY <1>1, NothingSeen DEF MemoExpires, Unmoved, Unseen, books, keys
<1>2. ASSUME NEW mode, PutPeople([people EXCEPT !.mode = mode]), ClosePeople \/ OpenPeople
      PROVE  AccessInv'
  <2>1. PICK f : f = [people EXCEPT !.mode = mode] /\ PutPeople(f)
    BY <1>2
  <2>2. f = [inode |-> people.inode, mode |-> mode, shape |-> people.shape, rows |-> people.rows]
    BY <1>0, <2>1
  <2>3. /\ f = [inode |-> f.inode, mode |-> f.mode, shape |-> f.shape, rows |-> f.rows]
        /\ f.inode = people.inode /\ f.rows = people.rows
    BY <2>2
  <2>4. UNCHANGED <<truth, settings, keys, requests, rolesCache, tokensCache,
                    peopleLock, tokensLock, shell, audit, faults, changes>>
    BY <1>2 DEF ClosePeople, OpenPeople
  <2> QED BY <1>0, <2>1, <2>3, <2>4, PeoplePutApart
<1>3. ASSUME NEW shape, Mangle \/ Mend,
             NEW f, f = [inode |-> people.inode + 1, mode |-> "open", shape |-> shape, rows |-> people.rows],
             PutPeople(f)
      PROVE  AccessInv'
  <2>1. /\ f = [inode |-> f.inode, mode |-> f.mode, shape |-> f.shape, rows |-> f.rows]
        /\ f.inode = people.inode + 1 /\ f.rows = people.rows
    BY <1>3
  <2>2. f.inode \in Nat /\ f.inode # 0
    BY <1>0, <2>1
  <2>3. UNCHANGED <<truth, settings, keys, requests, rolesCache, tokensCache,
                    peopleLock, tokensLock, shell, audit, faults, changes>>
    BY <1>3 DEF Mangle, Mend
  <2> QED BY <1>3, <2>1, <2>2, <2>3, PeoplePutApart
<1>4. CASE Mangle
  <2>1. PICK f : f = [Rewritten(people.rows) EXCEPT !.shape = "other"] /\ PutPeople(f)
    BY <1>4 DEF Mangle
  <2>2. f = [inode |-> people.inode + 1, mode |-> "open", shape |-> "other", rows |-> people.rows]
    BY <2>1 DEF Rewritten
  <2> QED BY <1>3, <1>4, <2>1, <2>2
<1>5. CASE Mend
  <2>1. PICK f : f = Rewritten(people.rows) /\ PutPeople(f)
    BY <1>5 DEF Mend
  <2>2. f = [inode |-> people.inode + 1, mode |-> "open", shape |-> "people", rows |-> people.rows]
    BY <2>1 DEF Rewritten
  <2> QED BY <1>3, <1>5, <2>1, <2>2
<1>6. CASE ClosePeople
  BY <1>2, <1>6 DEF ClosePeople
<1>7. CASE OpenPeople
  BY <1>2, <1>7 DEF OpenPeople
<1> QED BY <1>1, <1>4, <1>5, <1>6, <1>7

-----------------------------------------------------------------------------
(* The theorems                                                            *)

LEMMA InitFiles ==
  ASSUME Init
  PROVE  FilesInv
<1>1. /\ peopleWas = <<Reading(people)>> /\ truth = people.rows
      /\ tokens = [inode |-> 1, rows |-> Saved] /\ tokensWas = <<Saved>> /\ Saved \in SUBSET Tokens
  BY NamesAssumption DEF Init
<1>2. PICK was : was = Reading(people)
  OBVIOUS
<1>3. peopleWas \in Seq(Range(peopleWas)) /\ Len(peopleWas) = 1 /\ peopleWas[1] = Reading(people)
  <2>1. peopleWas = <<was>> /\ Len(peopleWas) = 1 /\ peopleWas[1] = was
    BY <1>1, <1>2
  <2>2. was \in Range(peopleWas)
    BY <2>1 DEF Range
  <2> QED BY <1>2, <2>1, <2>2
<1>4. /\ people = [inode |-> people.inode, mode |-> people.mode, shape |-> people.shape, rows |-> people.rows]
      /\ people.inode \in Nat /\ (people.inode = 0 => people.rows = <<>>)
  <2>1. CASE people = [inode |-> 1, mode |-> "open", shape |-> "people", rows |-> Listed]
    BY <2>1
  <2>2. CASE people = [inode |-> 0, mode |-> "open", shape |-> "people", rows |-> <<>>]
    BY <2>2
  <2> QED BY <2>1, <2>2 DEF Init
<1>5. /\ tokensWas \in Seq(SUBSET Tokens) /\ Len(tokensWas) = 1
      /\ tokens = [inode |-> Len(tokensWas), rows |-> tokensWas[Len(tokensWas)]]
  BY <1>1
<1> QED BY <1>1, <1>3, <1>4, <1>5 DEF FilesInv

LEMMA InitHolds ==
  ASSUME Init
  PROVE  AccessInv
<1>1. FilesInv
  BY InitFiles
<1>2. /\ settings \in Settings /\ rolesCache = {} /\ tokensCache = {} /\ peopleLock = Free /\ tokensLock = Free
      /\ conn = [c \in Conns |-> Closed] /\ shell = [k \in Shells |-> Idle] /\ faults = 0
      /\ audit = [kind \in Kinds |-> <<>>] /\ changes = [kind \in Kinds |-> <<>>]
      /\ known = Saved /\ tokens.rows = Saved /\ tokenFile \in {{}} \cup {{t} : t \in Saved}
  BY DEF Init
<1>3. AnswersInv
  <2>1. PICK x : x = Closed
    OBVIOUS
  <2>2. /\ ConnShape(x) /\ x.pc = "closed" /\ x.unread \in BOOLEAN /\ ~x.unread
        /\ x.principal = {} /\ x.admitted = {} /\ x.told = {} /\ x.sincePeople = 0 /\ x.sinceTokens = 0
    BY <2>1 DEF Closed, ConnShape
  <2>3. Len(peopleWas) \in Nat /\ Len(tokensWas) \in Nat
    BY <1>1, TokensAre
  <2>4. ASSUME NEW c \in Conns PROVE conn[c] = x
    BY <1>2, <2>1
  <2>5. ASSUME NEW c \in Conns PROVE ConnInv(c)
    <3>1. /\ \A p \in x.principal : Current(p, x.sincePeople, x.sinceTokens, x.admitted)
          /\ x.sincePeople \in 0..Len(peopleWas) /\ x.sinceTokens \in 0..Len(tokensWas)
      BY <2>2, <2>3
    <3> QED BY <2>2, <2>4, <3>1 DEF ConnInv
  <2>6. CachesInv
    BY <1>2 DEF CachesInv
  <2>7. conn = [c \in Conns |-> conn[c]]
    BY <1>2
  <2> QED BY <1>2, <2>5, <2>6, <2>7 DEF AnswersInv
<1>4. /\ \A c \in Conns : conn[c].pc = "closed"
      /\ \A k \in Shells : shell[k] = Idle
      /\ Idle.pc = "idle" /\ ShellShape(Idle)
  BY <1>2 DEF Closed, Idle, ShellShape
<1>5. PeopleInv
  BY <1>2, <1>4 DEF PeopleInv
<1>6. AuditInv
  <2>1. \A kind \in Kinds : audit[kind] = <<>> /\ changes[kind] = <<>>
    BY <1>2
  <2>2. \A k \in Shells : shell[k].pc = "idle"
    BY <1>4
  <2>3. \A k \in Shells, kind \in Kinds : ~Auditing(k, kind)
    BY <2>2 DEF Auditing
  <2>4. audit \in [Kinds -> Seq(Lines)] /\ changes \in [Kinds -> Seq(Lines)]
    BY <1>2
  <2> QED BY <1>2, <2>1, <2>2, <2>3, <2>4 DEF AuditInv
<1>7. TokensInv
  <2>1. ASSUME NEW k \in Shells PROVE ShellInv(k)
    BY <1>4 DEF ShellInv
  <2>2. shell = [k \in Shells |-> shell[k]]
    BY <1>2
  <2> QED BY <1>2, <2>1, <2>2, NamesAssumption DEF TokensInv
<1> QED BY <1>1, <1>3, <1>5, <1>6, <1>7 DEF AccessInv

LEMMA NextKeeps ==
  ASSUME AccessInv, [Next]_vars
  PROVE  AccessInv'
<1>1. CASE UNCHANGED vars
  BY <1>1, NothingSeen DEF vars, Unseen
<1>2. ASSUME NEW k \in Shells, CommandStep(k) PROVE AccessInv'
  BY <1>2, BeginMemberStep, WriteMemberStep, AppendAuditStep, BeginTokenStep, LockTokensStep, WriteTokensStep,
     WriteTokenFileStep, ReadTokenFileStep, UnlinkTokenFileStep, KillStep DEF CommandStep
<1> QED BY <1>1, <1>2, RequestStepKeeps, MachineStep DEF Next

(* The invariant: the files are what was done to them, whatever a cache    *)
(* keeps was read after the stat it is kept under, whoever writes a file   *)
(* holds its lock and goes by what is there, and a token no one was told   *)
(* of is on its way to the token file or about to be revoked.              *)
THEOREM AccessInvHolds == Spec => []AccessInv
<1> QED BY InitHolds, NextKeeps, PTL DEF Spec

(* Whoever a request is taken for, the files said so at some moment since  *)
(* it arrived, for any people, tokens and interleaving of requests and     *)
(* commands (security/access.py, FileCache: "take effect on the next       *)
(* request without a restart").                                            *)
THEOREM AnswersAlwaysCurrent == Spec => []AnswersAreCurrent
<1>1. ASSUME AccessInv PROVE AnswersAreCurrent
  <2>1. ASSUME NEW c \in Conns, NEW p \in conn[c].principal
        PROVE  Current(p, conn[c].sincePeople, conn[c].sinceTokens, conn[c].admitted)
    BY <1>1 DEF AccessInv, AnswersInv, ConnInv
  <2> QED BY <2>1 DEF AnswersAreCurrent, Current
<1> QED BY <1>1, AccessInvHolds, PTL

(* Requests on one connection do not run into each other, for any requests *)
(* and failures (web/handler.py, _read_raw, _send, _run).                  *)
THEOREM RequestsAlwaysApart == Spec => []RequestsStayApart
<1>1. ASSUME AccessInv PROVE RequestsStayApart
  <2>1. ASSUME NEW c \in Conns PROVE ConnInv(c)
    BY <1>1 DEF AccessInv, AnswersInv
  <2>2. ASSUME NEW c \in Conns
        PROVE  /\ conn[c].unread \in BOOLEAN
               /\ conn[c].unread => conn[c].pc = "read" /\ conn[c].principal = {}
               /\ conn[c].told \subseteq conn[c].principal
    BY <2>1 DEF ConnInv
  <2> QED BY <2>2 DEF RequestsStayApart
<1> QED BY <1>1, AccessInvHolds, PTL

(* No change to people.json or to the tokens is lost, made up or left out  *)
(* of the audit log, and no token is valid that nobody holds, whatever     *)
(* fails and is killed (security/people.py, record_person; administration/ *)
(* member_state.py, token_state.py and tokens.py).                         *)
THEOREM RecordsAlwaysHold == Spec => []RecordsHold
<1>1. ASSUME AccessInv PROVE TypeOK
  <2>1. ASSUME NEW c \in Conns
        PROVE  conn[c].admitted \subseteq conn[c].principal /\ Cardinality(conn[c].principal) <= 1
    <3>1. conn[c].admitted \subseteq conn[c].principal /\ \A p, q \in conn[c].principal : p = q
      BY <1>1 DEF AccessInv, AnswersInv, ConnInv
    <3>2. PICK P : P = conn[c].principal
      OBVIOUS
    <3>3. CASE P = {}
      BY <3>1, <3>2, <3>3, FS_EmptySet
    <3>4. CASE P # {}
      <4>1. PICK p : P = {p}
        BY <3>1, <3>2, <3>4
      <4>2. Cardinality(P) = 1
        BY <4>1, FS_Singleton
      <4> QED BY <3>1, <3>2, <4>2
    <3> QED BY <3>3, <3>4
  <2>2. tokens.rows \subseteq Tokens
    BY <1>1, TokensAre DEF AccessInv
  <2> QED BY <1>1, <2>1, <2>2 DEF TypeOK, AccessInv, AnswersInv, PeopleInv, TokensInv
<1>2. ASSUME AccessInv PROVE ChangesAreKept
  <2>1. people.rows = truth
    BY <1>2 DEF AccessInv, FilesInv
  <2>2. ASSUME NEW kind \in Kinds
        PROVE  /\ Range(audit[kind]) \subseteq Range(changes[kind])
               /\ faults = 0 /\ (\A k \in Shells : shell[k].pc # "audit") => audit[kind] = changes[kind]
    BY <1>2 DEF AccessInv, AuditInv, Auditing
  <2> QED BY <2>1, <2>2 DEF ChangesAreKept
<1>3. ASSUME AccessInv PROVE TokensAreHeld
  <2>1. ASSUME NEW t \in tokens.rows
        PROVE  t \in known \cup adrift \cup tokenFile \cup {shell[k].token : k \in Shells}
    BY <1>3 DEF AccessInv, TokensInv
  <2> QED BY <2>1 DEF TokensAreHeld
<1>4. AccessInv => RecordsHold
  BY <1>1, <1>2, <1>3 DEF RecordsHold
<1> QED BY <1>4, AccessInvHolds, PTL

-----------------------------------------------------------------------------
(* The rules for hosts, origins and addresses                               *)

(* A header that is there is read as it stands.                            *)
LEMMA HeaderRead ==
  ASSUME NEW n, NEW q
  PROVE  HostName({[name |-> n, port |-> q]}) = n /\ HostPort({[name |-> n, port |-> q]}) = q
<1> DEFINE h == [name |-> n, port |-> q]
<1>1. (\E x \in {h} : TRUE) /\ (CHOOSE x \in {h} : TRUE) = h
  OBVIOUS
<1>2. h.name = n /\ h.port = q
  OBVIOUS
<1>3. QED BY <1>1, <1>2 DEF HostName, HostPort

(* Of the entries for one name a start keeps one, and every name has one   *)
(* (parse_public_hosts).                                                   *)
THEOREM OneEntryPerName ==
  ASSUME NEW S, NEW entries \in Seq(S),
         NEW g \in PublicHosts(entries), NEW h \in PublicHosts(entries), g.name = h.name
  PROVE  g = h
<1> DEFINE First(k) == \A j \in 1..(k - 1) : entries[j].name # entries[k].name
<1>1. PICK k \in DOMAIN entries : First(k) /\ g = entries[k]
  BY DEF PublicHosts
<1>2. PICK l \in DOMAIN entries : First(l) /\ h = entries[l]
  BY DEF PublicHosts
<1>3. k \in Nat \ {0} /\ l \in Nat \ {0}
  OBVIOUS
<1>4. ~(k < l) /\ ~(l < k)
  <2>1. ASSUME k < l PROVE FALSE
    BY <1>1, <1>2, <1>3, <2>1
  <2>2. ASSUME l < k PROVE FALSE
    BY <1>1, <1>2, <1>3, <2>2
  <2>3. QED BY <2>1, <2>2
<1>5. QED BY <1>1, <1>2, <1>3, <1>4

(* An origin let through is itself a name this run answers to, on the same *)
(* side as the request's Host: this machine's pages write to this machine, *)
(* and a page of a named host only to that host (origin_ok, host_ok).      *)
THEOREM OriginIsOnItsSide ==
  ASSUME NEW host, NEW hosts, NEW o, OriginOk(o, host, hosts)
  PROVE  /\ HostOk({[name |-> o.name, port |-> o.port]}, hosts)
         /\ o.name = HostName(host) \/ (o.name \in LoopbackNames /\ HostName(host) \in LoopbackNames \cup {NoName})
<1> DEFINE there == {[name |-> o.name, port |-> o.port]}
<1>1. HostName(there) = o.name
  BY HeaderRead
<1>2. CASE LoopbackSide(host)
  BY <1>1, <1>2 DEF OriginOk, HostOk, LoopbackSide
<1>3. CASE TsNetSide(host)
  BY <1>1, <1>3 DEF OriginOk, HostOk, TsNetSide
<1>4. CASE ~(LoopbackSide(host) \/ TsNetSide(host))
  <2>1. PICK h \in PublicHost(HostName(host), hosts) : o.name = h.name
    BY <1>4 DEF OriginOk
  <2>2. h.name = HostName(host) /\ PublicHost(o.name, hosts) # {}
    BY <2>1 DEF PublicHost
  <2>3. QED BY <1>1, <2>1, <2>2 DEF HostOk
<1>5. QED BY <1>2, <1>3, <1>4

(* The address a reader is given leads back: a browser that opens it sends *)
(* a Host this run answers to, and what its page then writes comes from an *)
(* origin this run lets through (remote_base_for against host_ok and       *)
(* origin_ok).                                                             *)
THEOREM AddressLeadsBack ==
  ASSUME NEW S, NEW entries \in Seq(S), UsableHosts(entries), NEW host, NEW port \in Ports,
         HostPort(host) \in Ports \cup {NoPort, 0},
         NoName \notin LoopbackNames \cup TsNetNames, ThisMachine \in LoopbackNames,
         LoopbackNames \cap TsNetNames = {}
  PROVE  LET hosts == PublicHosts(entries)
             base  == RemoteBase(host, hosts, port)
             back  == {[name |-> base.name, port |-> base.port]}
         IN HostOk(back, hosts) /\ OriginOk(base, back, hosts)
<1> DEFINE hosts == PublicHosts(entries)
           base  == RemoteBase(host, hosts, port)
           back  == {[name |-> base.name, port |-> base.port]}
           name  == HostName(host)
<1>1. HostName(back) = base.name /\ HostPort(back) = base.port
  BY HeaderRead
<1>2. CASE name \in TsNetNames
  <2>1. base = Address("https", name, HostPort(host))
    BY <1>2 DEF RemoteBase
  <2>2. base.scheme = "https" /\ base.name = name /\ base.name \in TsNetNames
    BY <1>2, <2>1 DEF Address
  <2>3. ~LoopbackSide(back) /\ TsNetSide(back) /\ base.name # NoName
    BY <1>1, <2>2 DEF LoopbackSide, TsNetSide
  <2>4. HostOk(back, hosts)
    BY <1>1, <2>2 DEF HostOk
  <2>5. OriginOk(base, back, hosts)
    BY <1>1, <2>2, <2>3 DEF OriginOk, SamePort
  <2>6. QED BY <2>4, <2>5
<1>3. CASE name \notin TsNetNames /\ PublicHost(name, hosts) # {}
  <2>1. PICK h \in PublicHost(name, hosts) : base = PublicBase(h)
    BY <1>3 DEF RemoteBase
  <2>2. h \in hosts /\ h.name = name
    BY <2>1 DEF PublicHost
  <2>3. base.scheme = "https" /\ base.name = name
    BY <2>1, <2>2 DEF PublicBase, Address
  <2>4. name \notin LoopbackNames \cup {NoName} /\ h.port \in Ports \cup {NoPort}
    BY <2>2 DEF PublicHosts, UsableHosts
  <2>5. base.port = IF h.port \in {0, 443} THEN NoPort ELSE h.port
    BY <2>1 DEF PublicBase, Address
  <2>6. SamePort(base.port, h.port, 443)
    <3>1. CASE h.port \in {0, 443}
      BY <2>5, <3>1 DEF SamePort, PortOr, NoPort
    <3>2. CASE h.port \notin {0, 443}
      BY <2>5, <3>2 DEF SamePort
    <3>3. QED BY <3>1, <3>2
  <2>7. /\ h \in PublicHost(base.name, hosts) /\ base.name # NoName
        /\ ~(LoopbackSide(back) \/ TsNetSide(back))
    BY <1>1, <1>3, <2>1, <2>3, <2>4 DEF LoopbackSide, TsNetSide
  <2>8. HostOk(back, hosts)
    BY <1>1, <2>7 DEF HostOk
  <2>9. OriginOk(base, back, hosts)
    BY <1>1, <2>2, <2>3, <2>6, <2>7 DEF OriginOk
  <2>10. QED BY <2>8, <2>9
<1>4. CASE name \notin TsNetNames /\ PublicHost(name, hosts) = {}
  <2>1. base = Address("http", ThisMachine, port)
    BY <1>4 DEF RemoteBase
  <2>2. base.scheme = "http" /\ base.name = ThisMachine /\ base.name \in LoopbackNames /\ base.name # NoName
    BY <2>1 DEF Address
  <2>3. HostOk(back, hosts)
    BY <1>1, <2>2 DEF HostOk
  <2>4. OriginOk(base, back, hosts)
    BY <1>1, <2>2 DEF OriginOk, LoopbackSide, TsNetSide
  <2>5. QED BY <2>3, <2>4
<1>5. QED BY <1>2, <1>3, <1>4
=============================================================================
