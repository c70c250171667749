---- MODULE Access ----
(* Requests, the files that decide about them and the commands that change *)
(* those files, all at once.  Connections of the server (web/handler.py)   *)
(* read people.json and tokens.json through a cache (security/access.py,   *)
(* FileCache) and record whoever changed something (security/people.py);   *)
(* `limn member` and `limn token` (administration/) rewrite the files from *)
(* other processes and append to the audit log; the machine's people may   *)
(* make people.json unusable for a while.                                  *)
EXTENDS AccessRules, SequencesExt, TLC

CONSTANTS Settings,      \* the run options a server may be started with
          Requests,      \* the requests that may arrive
          Listed,        \* people.json at first: login -> role field
          MemberSteps,   \* the member commands tried: [op, login, role]
          TokenSteps,    \* the token commands tried: [op, save, force, print, token]
          Saved,         \* tokens there at first; Saved \subseteq Tokens
          Conns, Shells, \* connections, and terminals an administrator uses
          MaxRequests, MaxCommands, MaxFaults, MaxBreaks,   \* bounds
          MaxEvents              \* ... and on all of these together

Free == "free"
ASSUME NamesAssumption ==
    /\ Conns \cap Shells = {} /\ Free \notin Conns \cup Shells
    /\ Saved \subseteq Tokens
    /\ \A m \in MemberSteps : m.op \in {"add", "remove", "role"}
    /\ \A t \in TokenSteps : t.op \in {"create", "revoke"}

VARIABLES settings,
          people,     \* people.json: [inode, mode, shape, rows]
          tokens,     \* tokens.json: [inode, rows]
          rolesCache, tokensCache,   \* FileCache: {} or {[key, value]}
          peopleLock, tokensLock,    \* .people.lock, .tokens.lock: who holds it
          conn, memo, \* connections; the logins record_person wrote lately
          shell,      \* the running commands
          tokenFile,  \* <instance>.token: {} or {token}
          audit,      \* audit.jsonl: its lines on members and those on tokens
          asked, commands, faults, breaks,   \* bounds
          peopleWas, tokensWas,  \* history: every version's reading
          truth,      \* history: the rows all completed changes make
          changes,    \* history: what was changed in either file, in its order
          known,      \* history: tokens printed or reported to someone
          adrift      \* history: tokens whose only copy a kill or another command took

requests == <<conn, memo, asked>>
books == <<people, peopleWas, truth>>
keys == <<tokens, tokensWas, tokenFile, known, adrift>>
vars == <<settings, people, tokens, rolesCache, tokensCache, peopleLock, tokensLock, conn, memo, shell,
          tokenFile, audit, asked, commands, faults, breaks, peopleWas, tokensWas, truth, changes, known, adrift>>

Due == asked + commands + faults + breaks < MaxEvents
Fault == faults < MaxFaults /\ Due /\ faults' = faults + 1

(* ---- the files ------------------------------------------------------------------ *)

(* load_people: what can be had of the file; a missing file lists no one.  *)
Reading(f) ==
    [usable |-> f.inode = 0 \/ (f.mode = "open" /\ f.shape = "people"),
     of |-> IF f.inode /= 0 /\ f.mode = "open" /\ f.shape = "people" THEN f.rows ELSE <<>>]

(* A mutant of StatKey: the mode and the time of its change are left out.  *)
StatKeyOfContent(f) == <<f.inode>>
(* _stat_key: what is at the path, its mode and when either was changed    *)
(* last (the clock is taken to tell any two changes apart).                *)
StatKey(f) == <<f.inode, f.mode, Len(peopleWas)>>

PutPeople(f) == people' = f /\ peopleWas' = Append(peopleWas, Reading(f))
Rewritten(rows) == [inode |-> people.inode + 1, mode |-> "open", shape |-> "people", rows |-> rows]
PutTokens(rows) ==
    /\ tokens' = [inode |-> tokens.inode + 1, rows |-> rows]
    /\ tokensWas' = Append(tokensWas, rows)

(* FileCache.get after its stat: the value, which is also what it keeps.   *)
FileCacheGet(cache, key, load) ==
    IF cache /= {} /\ \A e \in cache : e.key = key THEN cache ELSE {[key |-> key, value |-> load]}
ValueOf(cache) == (CHOOSE e \in cache : TRUE).value

(* ---- one request ------------------------------------------------------------------ *)

NoRequest == [frame |-> "none"]
Closed == [pc |-> "closed", req |-> NoRequest, unread |-> FALSE, key |-> <<>>, principal |-> {}, admitted |-> {},
           told |-> {}, sincePeople |-> 0, sinceTokens |-> 0, rows |-> <<>>]
Goto(c, pc) == conn' = [conn EXCEPT ![c].pc = pc]

(* A mutant of Arrive: the request before on this connection still lends   *)
(* its principal.                                                          *)
ArriveKeepingAdmitted(c) ==
    /\ conn[c].pc \in {"closed", "idle"} /\ asked < MaxRequests /\ Due /\ asked' = asked + 1
    /\ \E r \in Requests :
          conn' = [conn EXCEPT ![c] = [@ EXCEPT !.pc = "read", !.req = r, !.unread = r.frame /= "none",
                                                !.principal = {}, !.told = {}, !.sincePeople = Len(peopleWas),
                                                !.sinceTokens = Len(tokensWas)]]
    /\ UNCHANGED <<settings, books, keys, rolesCache, tokensCache, peopleLock, tokensLock, memo, shell, audit,
                   commands, faults, breaks, changes>>

(* A request, on a new connection or on one that stayed open (_run).       *)
Arrive(c) ==
    /\ conn[c].pc \in {"closed", "idle"} /\ asked < MaxRequests /\ Due /\ asked' = asked + 1
    /\ \E r \in Requests :
          conn' = [conn EXCEPT ![c] = [Closed EXCEPT !.pc = "read", !.req = r, !.unread = r.frame /= "none",
                                                     !.sincePeople = Len(peopleWas), !.sinceTokens = Len(tokensWas)]]
    /\ UNCHANGED <<settings, books, keys, rolesCache, tokensCache, peopleLock, tokensLock, memo, shell, audit,
                   commands, faults, breaks, changes>>

(* _send: an answer below 400 leaves the connection open, any other closes *)
(* it, whatever of the request was not read.                               *)
Refused(c) == conn' = [conn EXCEPT ![c].pc = "closed", ![c].unread = FALSE]
Answered(c) == Goto(c, "idle")
Unmoved == UNCHANGED <<settings, books, keys, peopleLock, tokensLock, shell, audit, asked, commands, faults, breaks, changes>>

(* _read_raw and the header checks: the body is read whole before anything *)
(* is answered, or the connection is closed.                               *)
ReadRaw(c) ==
    /\ conn[c].pc = "read"
    /\ \/ /\ Framed(conn[c].req) /\ SameOrigin(settings, conn[c].req)
          /\ conn' = [conn EXCEPT ![c].pc = "identify", ![c].unread = FALSE]
       \/ ~(Framed(conn[c].req) /\ SameOrigin(settings, conn[c].req)) /\ Refused(c)
    /\ Unmoved /\ UNCHANGED <<rolesCache, tokensCache, memo>>

(* The stat of the file a decision asks.                                   *)
Asks(c) == IF conn[c].pc = "identify" THEN FileAsked(settings, conn[c].req)
           ELSE IF conn[c].pc = "admit" THEN "people" ELSE "none"
Stat(c) ==
    /\ Asks(c) /= "none"
    /\ conn' = [conn EXCEPT ![c].key = IF Asks(c) = "people" THEN StatKey(people) ELSE <<tokens.inode>>,
                            ![c].pc = IF @ = "identify" THEN "look up" ELSE "look up member"]
    /\ Unmoved /\ UNCHANGED <<rolesCache, tokensCache, memo>>

(* identify with what the cache gives, then admit when it needs no file.   *)
Decide(c, who, listed) ==
    \/ who = {} /\ Refused(c)
    \/ \E p \in who :
          \/ /\ AsksMembers(settings, p)
             /\ conn' = [conn EXCEPT ![c].pc = "admit", ![c].principal = who]
          \/ /\ ~AsksMembers(settings, p) /\ Admits(settings, conn[c].req, p, listed)
             /\ conn' = [conn EXCEPT ![c].pc = "act", ![c].principal = who, ![c].admitted = who]
          \/ ~AsksMembers(settings, p) /\ ~Admits(settings, conn[c].req, p, listed) /\ Refused(c)

IdentifyAtOnce(c) ==
    /\ conn[c].pc = "identify" /\ Asks(c) = "none"
    /\ Decide(c, Identify(settings, conn[c].req, {}, Reading(people)), Reading(people))
    /\ Unmoved /\ UNCHANGED <<rolesCache, tokensCache, memo>>

IdentifyByToken(c) ==
    /\ conn[c].pc = "look up" /\ FileAsked(settings, conn[c].req) = "tokens"
    /\ tokensCache' = FileCacheGet(tokensCache, conn[c].key, tokens.rows)
    /\ Decide(c, Identify(settings, conn[c].req, ValueOf(tokensCache'), Reading(people)), Reading(people))
    /\ Unmoved /\ UNCHANGED <<rolesCache, memo>>

IdentifyByRole(c) ==
    /\ conn[c].pc = "look up" /\ FileAsked(settings, conn[c].req) = "people"
    /\ rolesCache' = FileCacheGet(rolesCache, conn[c].key, Reading(people))
    /\ Decide(c, Identify(settings, conn[c].req, {}, ValueOf(rolesCache')), ValueOf(rolesCache'))
    /\ Unmoved /\ UNCHANGED <<tokensCache, memo>>

(* admit under --members-only reads the roles once more.                   *)
AdmitMember(c) ==
    /\ conn[c].pc = "look up member"
    /\ rolesCache' = FileCacheGet(rolesCache, conn[c].key, Reading(people))
    /\ LET p == CHOOSE p \in conn[c].principal : TRUE
       IN \/ /\ Admits(settings, conn[c].req, p, ValueOf(rolesCache'))
             /\ conn' = [conn EXCEPT ![c].pc = "act", ![c].admitted = conn[c].principal]
          \/ ~Admits(settings, conn[c].req, p, ValueOf(rolesCache')) /\ Refused(c)
    /\ Unmoved /\ UNCHANGED <<tokensCache, memo>>

(* The route: refused by the role, done without a change, or done with one *)
(* and then recorded.                                                      *)
Act(c) ==
    /\ conn[c].pc = "act"
    /\ LET p == CHOOSE p \in conn[c].principal : TRUE
           r == conn[c].req
           may == IF r.post THEN MayPost(p, r.path) ELSE MayRead(r.path)
       IN \/ ~may /\ Refused(c)
          \/ may /\ Answered(c)
          \/ may /\ r.post /\ IsAgentActor(p) /\ Answered(c)
          \/ may /\ r.post /\ ~IsAgentActor(p) /\ Goto(c, "record")
    /\ Unmoved /\ UNCHANGED <<rolesCache, tokensCache, memo>>

(* An unexpected exception, at any step: a 500 whose text the admitted     *)
(* principal of this request decides about.                                *)
Fails(c) ==
    /\ conn[c].pc \in {"identify", "look up", "admit", "look up member", "act"} /\ Fault
    /\ conn' = [conn EXCEPT ![c].pc = "closed", ![c].unread = FALSE,
                            ![c].told = {p \in conn[c].admitted : SeesErrorDetail(p)}]
    /\ UNCHANGED <<settings, books, keys, rolesCache, tokensCache, peopleLock, tokensLock, memo, shell, audit,
                   asked, commands, breaks, changes>>

(* record_person: nothing to do for someone written lately; else the file  *)
(* is read again under its lock, and left alone when it cannot be used.    *)
Recorder(c) == CHOOSE p \in conn[c].principal : TRUE
RecordedRows(c, rows) ==
    LET p == Recorder(c)
    IN IF p.login \in DOMAIN rows THEN rows
       ELSE rows @@ (p.login :> IF p.via = "local-owner" THEN "owner" ELSE NoRole)

RecordPersonLately(c) ==
    /\ conn[c].pc = "record" /\ Recorder(c).login \in memo /\ Answered(c)
    /\ Unmoved /\ UNCHANGED <<rolesCache, tokensCache, memo>>

(* A mutant of RecordPerson: without .people.lock.                         *)
RecordPersonUnlocked(c) ==
    /\ conn[c].pc = "record" /\ Recorder(c).login \notin memo
    /\ \/ Reading(people).usable /\ conn' = [conn EXCEPT ![c].pc = "write", ![c].rows = Reading(people).of]
       \/ ~Reading(people).usable /\ Answered(c)
    /\ UNCHANGED <<settings, books, keys, rolesCache, tokensCache, peopleLock, tokensLock, memo, shell, audit,
                   asked, commands, faults, breaks, changes>>

RecordPerson(c) ==
    /\ conn[c].pc = "record" /\ Recorder(c).login \notin memo /\ peopleLock = Free
    /\ \/ /\ Reading(people).usable /\ peopleLock' = c
          /\ conn' = [conn EXCEPT ![c].pc = "write", ![c].rows = Reading(people).of]
       \/ ~Reading(people).usable /\ Answered(c) /\ UNCHANGED peopleLock
    /\ UNCHANGED <<settings, books, keys, rolesCache, tokensCache, tokensLock, memo, shell, audit,
                   asked, commands, faults, breaks, changes>>

Unlock(lock, who) == lock' = IF lock = who THEN Free ELSE lock
WritePerson(c) ==
    /\ conn[c].pc = "write" /\ Answered(c) /\ Unlock(peopleLock, c)
    /\ \/ /\ PutPeople(Rewritten(RecordedRows(c, conn[c].rows)))
          /\ truth' = RecordedRows(c, truth) /\ memo' = memo \cup {Recorder(c).login}
          /\ UNCHANGED faults
       \/ Fault /\ UNCHANGED <<books, memo>>
    /\ UNCHANGED <<settings, keys, rolesCache, tokensCache, tokensLock, shell, audit, asked, commands, breaks, changes>>

(* PEOPLE_TOUCH_S goes by.                                                 *)
MemoExpires ==
    /\ memo /= {} /\ memo' = {}
    /\ Unmoved /\ UNCHANGED <<conn, rolesCache, tokensCache>>

(* ---- limn member -------------------------------------------------------------------- *)

Idle == [pc |-> "idle", cmd |-> [op |-> "none"], rows |-> <<>>, line |-> <<>>, token |-> NoOne, saw |-> {}]
Shell(k, s) == shell' = [shell EXCEPT ![k] = s]
Kinds == {"members", "tokens"}   \* of lines: either file's are written under its lock
NewCommand == commands < MaxCommands /\ Due /\ commands' = commands + 1

(* member_add, member_remove, member_set_role: the rows they make and the  *)
(* audit line, none for a change that changes no role.                     *)
MemberRows(m, rows) ==
    CASE m.op = "add" -> rows @@ (m.login :> m.role)
      [] m.op = "remove" -> [l \in DOMAIN rows \ {m.login} |-> rows[l]]
      [] m.op = "role" -> [l \in DOMAIN rows |-> IF l = m.login THEN m.role ELSE rows[l]]
MemberLine(m, rows) ==
    CASE m.op = "add" -> <<<<"member_added", m.login, m.role>>>>
      [] m.op = "remove" /\ m.login \in DOMAIN rows -> <<<<"member_removed", m.login, RoleValue(rows[m.login])>>>>
      [] m.op = "role" /\ m.login \in DOMAIN rows /\ RoleValue(rows[m.login]) /= m.role ->
            <<<<"member_role", m.login, m.role, RoleValue(rows[m.login])>>>>
      [] OTHER -> <<>>
MemberRefuses(m) ==
    \/ ~Reading(people).usable
    \/ m.op = "add" /\ m.login \in DOMAIN Reading(people).of
    \/ m.op /= "add" /\ people.inode = 0

(* _people_update: read under the lock ...                                 *)
BeginMember(k) ==
    /\ shell[k].pc = "idle" /\ peopleLock = Free /\ NewCommand
    /\ \E m \in MemberSteps :
          \/ MemberRefuses(m) /\ UNCHANGED <<shell, peopleLock>>
          \/ /\ ~MemberRefuses(m) /\ peopleLock' = k
             /\ Shell(k, [Idle EXCEPT !.pc = "write member", !.cmd = m, !.rows = MemberRows(m, Reading(people).of),
                                      !.line = MemberLine(m, Reading(people).of)])
    /\ UNCHANGED <<settings, books, keys, requests, rolesCache, tokensCache, tokensLock, audit, faults, breaks, changes>>

(* ... written in one replacement ...                                      *)
WriteMember(k) ==
    /\ shell[k].pc = "write member"
    /\ \/ /\ PutPeople(Rewritten(shell[k].rows))
          /\ truth' = MemberRows(shell[k].cmd, truth)
          /\ changes' = [changes EXCEPT !["members"] = @ \o MemberLine(shell[k].cmd, truth)]
          /\ Shell(k, [shell[k] EXCEPT !.pc = "audit"])
          /\ UNCHANGED <<peopleLock, faults>>
       \/ /\ Fault /\ Unlock(peopleLock, k) /\ Shell(k, Idle)
          /\ UNCHANGED <<books, changes>>
    /\ UNCHANGED <<settings, keys, requests, rolesCache, tokensCache, tokensLock, audit, commands, breaks>>

(* ... and audited before the lock is let go (append_audit: a failure is   *)
(* only a warning).                                                        *)
Kind(cmd) == IF cmd.op \in {"create", "revoke", "undo"} THEN "tokens" ELSE "members"
AppendAudit(k) ==
    /\ shell[k].pc = "audit"
    /\ \/ audit' = [audit EXCEPT ![Kind(shell[k].cmd)] = @ \o shell[k].line] /\ UNCHANGED faults
       \/ shell[k].line /= <<>> /\ Fault /\ UNCHANGED audit
    /\ Unlock(peopleLock, k) /\ Unlock(tokensLock, k)
    /\ LET after == CASE shell[k].cmd.op = "create" /\ shell[k].cmd.save -> "token file"
                      [] shell[k].cmd.op = "revoke" -> "forget"
                      [] OTHER -> "idle"
       IN Shell(k, IF after = "idle" THEN Idle ELSE [shell[k] EXCEPT !.pc = after])
    /\ known' = IF shell[k].cmd.op = "create" /\ ~shell[k].cmd.save THEN known \cup {shell[k].token} ELSE known
    /\ UNCHANGED <<settings, books, requests, rolesCache, tokensCache, commands, breaks, changes,
                   tokens, tokensWas, tokenFile, adrift>>

(* ---- limn token --------------------------------------------------------------------------- *)

(* create_saved_token checks the token file before there is a token.       *)
SaveRefused(t) == IF t.op = "create" THEN t.save /\ tokenFile /= {} /\ ~t.force ELSE FALSE
BeginToken(k) ==
    /\ shell[k].pc = "idle" /\ NewCommand
    /\ \E t \in TokenSteps :
          \/ SaveRefused(t) /\ UNCHANGED shell
          \/ /\ ~SaveRefused(t)
             /\ Shell(k, [Idle EXCEPT !.pc = "lock tokens", !.cmd = t,
                                      !.saw = IF t.op = "create" /\ t.force THEN tokenFile ELSE {}])
    /\ UNCHANGED <<settings, books, keys, requests, rolesCache, tokensCache, peopleLock, tokensLock, audit,
                   faults, breaks, changes>>

(* token_create, token_revoke: the entries under the lock; revoking one    *)
(* that is not there ends the command.                                     *)
Fresh == Tokens \ UNION Range(tokensWas)
LockTokens(k) ==
    /\ shell[k].pc = "lock tokens" /\ tokensLock = Free
    /\ \/ /\ shell[k].cmd.op = "create" /\ Fresh /= {} /\ tokensLock' = k
          /\ LET t == CHOOSE t \in Fresh : TRUE
             IN Shell(k, [shell[k] EXCEPT !.pc = "write tokens", !.token = t,
                                          !.rows = tokens.rows \cup {t}, !.line = <<<<"token_created", t>>>>])
       \/ /\ shell[k].cmd.op \in {"revoke", "undo"} /\ shell[k].cmd.token \in tokens.rows /\ tokensLock' = k
          /\ LET t == shell[k].cmd.token
             IN Shell(k, [shell[k] EXCEPT !.pc = "write tokens", !.token = t,
                                          !.rows = tokens.rows \ {t}, !.line = <<<<"token_revoked", t>>>>])
       \/ /\ shell[k].cmd.op \in {"revoke", "undo"} /\ shell[k].cmd.token \notin tokens.rows
          /\ Shell(k, Idle) /\ UNCHANGED tokensLock
    /\ UNCHANGED <<settings, books, keys, requests, rolesCache, tokensCache, peopleLock, audit, commands,
                   faults, breaks, changes>>

WriteTokens(k) ==
    /\ shell[k].pc = "write tokens"
    /\ \/ /\ PutTokens(shell[k].rows) /\ changes' = [changes EXCEPT !["tokens"] = @ \o shell[k].line]
          /\ Shell(k, [shell[k] EXCEPT !.pc = "audit"]) /\ UNCHANGED <<tokensLock, faults, known>>
       \/ /\ Fault /\ Unlock(tokensLock, k) /\ Shell(k, Idle)
          /\ known' = IF shell[k].cmd.op = "undo" THEN known \cup {shell[k].token} ELSE known
          /\ UNCHANGED <<tokens, tokensWas, changes>>
    /\ UNCHANGED <<settings, books, requests, rolesCache, tokensCache, peopleLock, audit, commands, breaks,
                   tokenFile, adrift>>

(* write_token_file: with --force in place of what is there, else only     *)
(* where nothing is; a write that fails revokes the new token again.       *)
WriteTokenFile(k) ==
    /\ shell[k].pc = "token file"
    /\ LET t == shell[k].token
           undo == Shell(k, [Idle EXCEPT !.pc = "lock tokens", !.cmd = [op |-> "undo", token |-> t], !.token = t])
       IN \/ /\ shell[k].cmd.force \/ tokenFile = {}
             /\ tokenFile' = {t} /\ Shell(k, Idle)
             /\ adrift' = adrift \cup (tokenFile \ shell[k].saw)
             /\ known' = known \cup shell[k].saw \cup (IF shell[k].cmd.print THEN {t} ELSE {})
             /\ UNCHANGED faults
          \/ ~shell[k].cmd.force /\ tokenFile /= {} /\ undo /\ UNCHANGED <<tokenFile, known, adrift, faults>>
          \/ Fault /\ undo /\ UNCHANGED <<tokenFile, known, adrift>>
    /\ UNCHANGED <<settings, books, requests, rolesCache, tokensCache, peopleLock, tokensLock, audit, commands,
                   breaks, changes, tokens, tokensWas>>

(* forget_saved_token: reads the file, and removes it if it held the token *)
(* just revoked; another command may have replaced it in between.          *)
ReadTokenFile(k) ==
    /\ shell[k].pc = "forget"
    /\ Shell(k, IF tokenFile = {shell[k].token} THEN [shell[k] EXCEPT !.pc = "unlink"] ELSE Idle)
    /\ UNCHANGED <<settings, books, keys, requests, rolesCache, tokensCache, peopleLock, tokensLock, audit, commands,
                   faults, breaks, changes>>
UnlinkTokenFile(k) ==
    /\ shell[k].pc = "unlink"
    /\ tokenFile' = {} /\ adrift' = adrift \cup (tokenFile \ {shell[k].token}) /\ Shell(k, Idle)
    /\ UNCHANGED <<settings, books, requests, rolesCache, tokensCache, peopleLock, tokensLock, audit, commands,
                   faults, breaks, changes, tokens, tokensWas, known>>

(* A command is killed; the operating system lets go of its locks.         *)
Kill(k) ==
    /\ shell[k].pc /= "idle" /\ Fault
    /\ Unlock(peopleLock, k) /\ Unlock(tokensLock, k) /\ Shell(k, Idle)
    /\ adrift' = adrift \cup ({shell[k].token} \cap tokens.rows)
    /\ UNCHANGED <<settings, books, requests, rolesCache, tokensCache, audit, commands, breaks, changes,
                   tokens, tokensWas, tokenFile, known>>

(* ---- the machine's people, and the whole ------------------------------------------------------ *)

(* people.json is closed to the server or opened to it (chmod), truncated, *)
(* or put back as it was.                                                  *)
ClosePeople ==
    /\ people.inode /= 0 /\ people.mode = "open" /\ breaks < MaxBreaks /\ Due /\ breaks' = breaks + 1
    /\ PutPeople([people EXCEPT !.mode = "closed"]) /\ UNCHANGED truth
    /\ UNCHANGED <<settings, keys, requests, rolesCache, tokensCache, peopleLock, tokensLock, shell, audit,
                   commands, faults, changes>>
OpenPeople ==
    /\ people.mode = "closed"
    /\ PutPeople([people EXCEPT !.mode = "open"]) /\ UNCHANGED truth
    /\ UNCHANGED <<settings, keys, requests, rolesCache, tokensCache, peopleLock, tokensLock, shell, audit,
                   commands, faults, breaks, changes>>
(* Someone's editor saves a file that is no people file, and mends it.     *)
Mangle ==
    /\ people.inode /= 0 /\ people.shape = "people" /\ peopleLock = Free /\ breaks < MaxBreaks /\ Due /\ breaks' = breaks + 1
    /\ PutPeople([Rewritten(people.rows) EXCEPT !.shape = "other"]) /\ UNCHANGED truth
    /\ UNCHANGED <<settings, keys, requests, rolesCache, tokensCache, peopleLock, tokensLock, shell, audit,
                   commands, faults, changes>>
Mend ==
    /\ people.shape = "other" /\ peopleLock = Free
    /\ PutPeople(Rewritten(people.rows)) /\ UNCHANGED truth
    /\ UNCHANGED <<settings, keys, requests, rolesCache, tokensCache, peopleLock, tokensLock, shell, audit,
                   commands, faults, breaks, changes>>

Init ==
    /\ settings \in Settings
    /\ \/ people = [inode |-> 1, mode |-> "open", shape |-> "people", rows |-> Listed]
       \/ people = [inode |-> 0, mode |-> "open", shape |-> "people", rows |-> <<>>]
    /\ tokens = [inode |-> 1, rows |-> Saved]
    /\ rolesCache = {} /\ tokensCache = {} /\ peopleLock = Free /\ tokensLock = Free
    /\ conn = [c \in Conns |-> Closed] /\ memo = {}
    /\ shell = [k \in Shells |-> Idle] /\ tokenFile \in {{}} \cup {{t} : t \in Saved}
    /\ audit = [kind \in Kinds |-> <<>>] /\ asked = 0 /\ commands = 0 /\ faults = 0 /\ breaks = 0
    /\ peopleWas = <<Reading(people)>> /\ tokensWas = <<Saved>>
    /\ truth = people.rows /\ changes = [kind \in Kinds |-> <<>>] /\ known = Saved /\ adrift = {}

RequestStep(c) ==
    \/ Arrive(c) \/ ReadRaw(c) \/ Stat(c)
    \/ IdentifyAtOnce(c) \/ IdentifyByToken(c) \/ IdentifyByRole(c) \/ AdmitMember(c)
    \/ Act(c) \/ Fails(c) \/ RecordPersonLately(c) \/ RecordPerson(c) \/ WritePerson(c)
CommandStep(k) ==
    \/ BeginMember(k) \/ WriteMember(k) \/ AppendAudit(k)
    \/ BeginToken(k) \/ LockTokens(k) \/ WriteTokens(k) \/ WriteTokenFile(k)
    \/ ReadTokenFile(k) \/ UnlinkTokenFile(k) \/ Kill(k)
Next ==
    \/ \E c \in Conns : RequestStep(c)
    \/ \E k \in Shells : CommandStep(k)
    \/ MemoExpires \/ ClosePeople \/ OpenPeople \/ Mangle \/ Mend
Spec == Init /\ [][Next]_vars

(* ---- properties ---------------------------------------------------------------------------------- *)

TypeOK ==
    /\ settings \in Settings /\ tokens.rows \subseteq Tokens /\ tokenFile \subseteq Tokens
    /\ peopleLock \in {Free} \cup Conns \cup Shells /\ tokensLock \in {Free} \cup Shells
    /\ \A c \in Conns : conn[c].admitted \subseteq conn[c].principal /\ Cardinality(conn[c].principal) <= 1

(* Whoever a request is taken for, with which role and as a member or not, *)
(* the files said so at some moment since it arrived: no change made       *)
(* before is missed, however the stat and the load of another request, the *)
(* commands and a chmod fall in between (security/access.py, FileCache:    *)
(* "take effect on the next request without a restart").                   *)
AnswersAreCurrent ==
    \A c \in Conns : \A p \in conn[c].principal :
        LET peopleSince == {peopleWas[v] : v \in conn[c].sincePeople..Len(peopleWas)}
            tokensSince == {tokensWas[v] : v \in conn[c].sinceTokens..Len(tokensWas)}
        IN /\ p.via = "header" => \E was \in peopleSince : p.role = PersonRole(was, p.login)
           /\ p.via = "token" => \E was \in tokensSince : p.login \in was
           /\ (conn[c].admitted /= {} /\ AsksMembers(settings, p)) => \E was \in peopleSince : IsMember(was, p.login)

(* Requests on one connection do not run into each other: one that stays   *)
(* open has nothing of the last request left unread, and the text of an    *)
(* exception goes out only as this request's own principal may see it      *)
(* (web/handler.py, _read_raw, _send, _run).                               *)
RequestsStayApart ==
    \A c \in Conns :
        /\ conn[c].pc = "idle" => ~conn[c].unread
        /\ conn[c].told \subseteq conn[c].principal
        /\ conn[c].unread => conn[c].principal = {}

(* No change to people.json is lost or made up: the rows there are what    *)
(* all commands and recorded visits, one after the other, make of the      *)
(* first ones, through broken spells too; and the audit log has the        *)
(* changes in the order their file had them, all of them unless a step     *)
(* failed (security/people.py, record_person; administration/             *)
(* member_state.py, _people_update; token_state.py).                       *)
ChangesAreKept ==
    /\ people.rows = truth
    /\ \A kind \in Kinds :
          IF faults = 0 /\ \A k \in Shells : shell[k].pc /= "audit"
          THEN audit[kind] = changes[kind]
          ELSE Range(audit[kind]) \subseteq Range(changes[kind])

(* No token is valid that nobody holds: it was printed, or reported, or is *)
(* in the token file - even when its file could not be written or another  *)
(* command wrote it first - unless its command was killed or another one   *)
(* replaced or removed the file meanwhile (administration/tokens.py,       *)
(* create_saved_token).                                                    *)
TokensAreHeld ==
    tokens.rows \subseteq known \cup adrift \cup tokenFile \cup {shell[k].token : k \in Shells}

(* Together: what the files and the audit log hold is what was done.       *)
RecordsHold == TypeOK /\ ChangesAreKept /\ TokensAreHeld
====
