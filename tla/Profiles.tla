------------------------------- MODULE Profiles -------------------------------
(***************************************************************************)
(* Profiles of config-hub, the rows created and deleted with them, their   *)
(* distribution tokens, and the endpoint that serves a configuration to    *)
(* the holder of a token.  Handlers take no lock.  Only CreateProfile's    *)
(* and DeleteProfile's writes share a transaction; every other statement   *)
(* is a step of its own, and db.Save writes back the whole row that the    *)
(* handler read first.                                                     *)
(*                                                                         *)
(* Sources: server/handler/profile.go, token.go and sub_endpoint.go,       *)
(* server/middleware/jwt.go.                                               *)
(***************************************************************************)
EXTENDS FiniteSets

CONSTANTS
    Profiles,  \* profile ids (AUTOINCREMENT: an id is used once)
    Tokens,    \* token ids; the raw token is as unique as its id
    Clients,   \* request slots: how many HTTP requests run at a time
    None,
    AloneOn,   \* profiles on which a change of the profile or its tokens runs alone
    DbErrors   \* may a statement fail (database is locked, disk full)?

\* Two of a profile's settings: landing has default:false, fake_ip default:true.
Settings == [landing : BOOLEAN, fake_ip : BOOLEAN]
\* A payload's pointer fields: None is an omitted one.
Payload == [landing : BOOLEAN \cup {None}, fake_ip : BOOLEAN \cup {None}]
Token == [profile : Profiles, revoked : BOOLEAN]

Kinds == {"update", "delete", "issue", "revoke", "serve"}
PCs == {"idle", "save", "commit", "lookup", "build"}
Request == [kind : Kinds \cup {None}, pc : PCs, profile : Profiles \cup {None},
            token : Tokens \cup {None}, copy : Settings \cup Token \cup {None}]
Idle == [kind |-> None, pc |-> "idle", profile |-> None, token |-> None, copy |-> None]

ASSUME ProfilesAssumption ==
    /\ None \notin Profiles \cup Tokens \cup Kinds \cup Settings \cup Token \cup BOOLEAN
    /\ AloneOn \subseteq Profiles
    /\ DbErrors \in BOOLEAN

VARIABLES
    profile,  \* the profiles table
    seeded,   \* profiles that have their default proxy groups and rules
    token,    \* the tokens table
    proc,     \* the requests in flight
    life,     \* whether a profile id is unused, in use, or was deleted
    issued,   \* token ids that were handed out
    wanted    \* the settings the answered creates and updates add up to

vars == <<profile, seeded, token, proc, life, issued, wanted>>

-----------------------------------------------------------------------------

MayFail(violatesForeignKey) == DbErrors \/ violatesForeignKey

\* Mutant: the payload is copied field by field, omitted ones included.
MergedUnchecked(settings, payload) == [f \in DOMAIN settings |-> payload[f]]

\* Omitted fields keep their value.
Merged(settings, payload) ==
    [f \in DOMAIN settings |-> IF payload[f] = None THEN settings[f] ELSE payload[f]]

\* Create: a false bool in a column with default:true is taken for unset.
GormCreated(payload) == [landing |-> payload.landing = TRUE, fake_ip |-> TRUE]

\* Save updates every column, and creates the row when there is none.
Stored(p, settings) == IF profile[p] = None THEN GormCreated(settings) ELSE settings

\* Which requests the environment lets run side by side on one profile.
MayStart(p, kind) ==
    p \in AloneOn => \A c \in Clients : proc[c].profile = p => {kind, proc[c].kind} = {"serve"}

Start(c, kind, pc, p, t, copy) ==
    /\ proc[c].pc = "idle"
    /\ MayStart(p, kind)
    /\ proc' = [proc EXCEPT ![c] =
                   [kind |-> kind, pc |-> pc, profile |-> p, token |-> t, copy |-> copy]]

Finish(c) == proc' = [proc EXCEPT ![c] = Idle]
At(c, kind, pc) == proc[c].kind = kind /\ proc[c].pc = pc

-----------------------------------------------------------------------------
(* profile.go                                                              *)

\* The profile, its default groups and rules are inserted in one transaction.
CreateProfile(p, payload) ==
    /\ life[p] = "unused"
    /\ profile' = [profile EXCEPT ![p] = GormCreated(payload)]
    /\ seeded' = seeded \cup {p}
    /\ life' = [life EXCEPT ![p] = "used"]
    /\ wanted' = [wanted EXCEPT ![p] = GormCreated(payload)]
    /\ UNCHANGED <<token, proc, issued>>

UpdateProfileRead(c, p) ==
    /\ profile[p] # None
    /\ Start(c, "update", "save", p, None, profile[p])
    /\ UNCHANGED <<profile, seeded, token, life, issued, wanted>>

\* Mutant: omitted fields are written as their zero values.
UpdateProfileZeroes(c, payload) ==
    LET p == proc[c].profile IN
    /\ At(c, "update", "save")
    /\ profile' = [profile EXCEPT ![p] = [landing |-> payload.landing = TRUE, fake_ip |-> payload.fake_ip = TRUE]]
    /\ wanted' = [wanted EXCEPT ![p] = IF @ = None THEN None ELSE Merged(@, payload)]
    /\ Finish(c)
    /\ UNCHANGED <<seeded, token, life, issued>>

\* A profile that was deleted meanwhile is created again, without the rest.
UpdateProfileSave(c, payload) ==
    LET p == proc[c].profile IN
    /\ At(c, "update", "save")
    /\ profile' = [profile EXCEPT ![p] = Stored(p, Merged(proc[c].copy, payload))]
    /\ wanted' = [wanted EXCEPT ![p] = IF @ = None THEN None ELSE Merged(@, payload)]
    /\ Finish(c)
    /\ UNCHANGED <<seeded, token, life, issued>>

UpdateProfileFails(c) ==
    /\ At(c, "update", "save")
    /\ MayFail(FALSE)
    /\ Finish(c)
    /\ UNCHANGED <<profile, seeded, token, life, issued, wanted>>

DeleteProfileRead(c, p) ==
    /\ profile[p] # None
    /\ Start(c, "delete", "commit", p, None, None)
    /\ UNCHANGED <<profile, seeded, token, life, issued, wanted>>

\* Mutant: the tokens are not deleted with the profile.
DeleteKeepsTokens(c) ==
    LET p == proc[c].profile IN
    /\ At(c, "delete", "commit")
    /\ seeded' = seeded \ {p}
    /\ profile' = [profile EXCEPT ![p] = None]
    /\ life' = [life EXCEPT ![p] = "deleted"]
    /\ wanted' = [wanted EXCEPT ![p] = None]
    /\ Finish(c)
    /\ UNCHANGED <<token, issued>>

\* Associations, tokens, rules, groups and the profile go in one transaction.
DeleteProfileCommit(c) ==
    LET p == proc[c].profile IN
    /\ At(c, "delete", "commit")
    /\ token' = [t \in Tokens |-> IF token[t] # None /\ token[t].profile = p THEN None ELSE token[t]]
    /\ seeded' = seeded \ {p}
    /\ profile' = [profile EXCEPT ![p] = None]
    /\ life' = [life EXCEPT ![p] = "deleted"]
    /\ wanted' = [wanted EXCEPT ![p] = None]
    /\ Finish(c)
    /\ UNCHANGED issued

\* One statement fails and all of them are rolled back.
DeleteProfileRollback(c) ==
    /\ At(c, "delete", "commit")
    /\ MayFail(FALSE)
    /\ Finish(c)
    /\ UNCHANGED <<profile, seeded, token, life, issued, wanted>>

-----------------------------------------------------------------------------
(* token.go                                                                *)

\* Mutant: a token is created without looking for its profile.
CreateTokenUnchecked(c, p) ==
    /\ life[p] # "unused"
    /\ Start(c, "issue", "save", p, None, None)
    /\ UNCHANGED <<profile, seeded, token, life, issued, wanted>>

CreateTokenRead(c, p) ==
    /\ profile[p] # None
    /\ Start(c, "issue", "save", p, None, None)
    /\ UNCHANGED <<profile, seeded, token, life, issued, wanted>>

CreateTokenSave(c, t) ==
    /\ At(c, "issue", "save")
    /\ t \notin issued
    /\ issued' = issued \cup {t}
    /\ token' = [token EXCEPT ![t] = [profile |-> proc[c].profile, revoked |-> FALSE]]
    /\ Finish(c)
    /\ UNCHANGED <<profile, seeded, life, wanted>>

CreateTokenFails(c) ==
    /\ At(c, "issue", "save")
    /\ MayFail(profile[proc[c].profile] = None)
    /\ Finish(c)
    /\ UNCHANGED <<profile, seeded, token, life, issued, wanted>>

\* A token that is revoked already is left as it is.
RevokeTokenRead(c, p, t) ==
    /\ token[t] = [profile |-> p, revoked |-> FALSE]
    /\ Start(c, "revoke", "save", p, t, token[t])
    /\ UNCHANGED <<profile, seeded, token, life, issued, wanted>>

\* Mutant: the update names the profile and not the token.
RevokeTokensSave(c) ==
    /\ At(c, "revoke", "save")
    /\ token' = [t \in Tokens |-> IF token[t] # None /\ token[t].profile = proc[c].profile
                                   THEN [token[t] EXCEPT !.revoked = TRUE] ELSE token[t]]
    /\ Finish(c)
    /\ UNCHANGED <<profile, seeded, life, issued, wanted>>

RevokeTokenSave(c) ==
    /\ At(c, "revoke", "save")
    /\ token' = [token EXCEPT ![proc[c].token] = [proc[c].copy EXCEPT !.revoked = TRUE]]
    /\ Finish(c)
    /\ UNCHANGED <<profile, seeded, life, issued, wanted>>

RevokeTokenFails(c) ==
    /\ At(c, "revoke", "save")
    /\ MayFail(profile[proc[c].profile] = None)
    /\ Finish(c)
    /\ UNCHANGED <<profile, seeded, token, life, issued, wanted>>

-----------------------------------------------------------------------------
(* GET /sub/:profileId?token=                                              *)

\* The middleware accepts a token of any profile and hands on nothing the
\* handler uses.
SubTokenAuth(c, p, t) ==
    /\ token[t] # None /\ ~token[t].revoked
    /\ Start(c, "serve", "lookup", p, t, None)
    /\ UNCHANGED <<profile, seeded, token, life, issued, wanted>>

\* Mutant: the handler trusts the middleware's look at revoked.
SubLookupUnchecked(c) ==
    LET r == token[proc[c].token] IN
    /\ At(c, "serve", "lookup")
    /\ IF r # None /\ r.profile = proc[c].profile
         THEN proc' = [proc EXCEPT ![c] = [@ EXCEPT !.pc = "build", !.copy = r]]
         ELSE Finish(c)
    /\ UNCHANGED <<profile, seeded, token, life, issued, wanted>>

\* Mutant: the handler takes a token of any profile.
SubLookupAnyProfile(c) ==
    LET r == token[proc[c].token] IN
    /\ At(c, "serve", "lookup")
    /\ IF r # None /\ ~r.revoked
         THEN proc' = [proc EXCEPT ![c] = [@ EXCEPT !.pc = "build", !.copy = r]]
         ELSE Finish(c)
    /\ UNCHANGED <<profile, seeded, token, life, issued, wanted>>

\* The handler looks the token up again, as a token of this profile.
SubLookup(c) ==
    LET r == token[proc[c].token] IN
    /\ At(c, "serve", "lookup")
    /\ IF r = [profile |-> proc[c].profile, revoked |-> FALSE]
         THEN proc' = [proc EXCEPT ![c] = [@ EXCEPT !.pc = "build", !.copy = r]]
         ELSE Finish(c)
    /\ UNCHANGED <<profile, seeded, token, life, issued, wanted>>

\* BuildConfig fails when the profile is gone or has no subscription.
SubBuild(c) ==
    /\ At(c, "serve", "build")
    /\ \/ /\ profile[proc[c].profile] # None
          /\ proc' = [proc EXCEPT ![c].pc = "save"]
       \/ Finish(c)
    /\ UNCHANGED <<profile, seeded, token, life, issued, wanted>>

\* last_used_at is set in the copy, the copy saved, the configuration sent.
SubSave(c) ==
    /\ At(c, "serve", "save")
    /\ \/ token' = [token EXCEPT ![proc[c].token] = proc[c].copy]
       \/ MayFail(profile[proc[c].profile] = None) /\ UNCHANGED token
    /\ Finish(c)
    /\ UNCHANGED <<profile, seeded, life, issued, wanted>>

-----------------------------------------------------------------------------

\* Requests in flight are lost; nothing else is held in memory.
Restart ==
    /\ proc' = [c \in Clients |-> Idle]
    /\ UNCHANGED <<profile, seeded, token, life, issued, wanted>>

Init ==
    /\ profile = [p \in Profiles |-> None]
    /\ seeded = {}
    /\ token = [t \in Tokens |-> None]
    /\ proc = [c \in Clients |-> Idle]
    /\ life = [p \in Profiles |-> "unused"]
    /\ issued = {}
    /\ wanted = [p \in Profiles |-> None]

Arrive(c, p) ==
    \/ UpdateProfileRead(c, p)
    \/ DeleteProfileRead(c, p)
    \/ CreateTokenRead(c, p)
    \/ \E t \in Tokens : RevokeTokenRead(c, p, t)
    \/ \E t \in Tokens : SubTokenAuth(c, p, t)

Continue(c) ==
    \/ \E payload \in Payload : UpdateProfileSave(c, payload)
    \/ UpdateProfileFails(c)
    \/ DeleteProfileCommit(c)
    \/ DeleteProfileRollback(c)
    \/ \E t \in Tokens : CreateTokenSave(c, t)
    \/ CreateTokenFails(c)
    \/ RevokeTokenSave(c)
    \/ RevokeTokenFails(c)
    \/ SubLookup(c)
    \/ SubBuild(c)
    \/ SubSave(c)

Next ==
    \/ \E p \in Profiles, payload \in Payload : CreateProfile(p, payload)
    \/ \E c \in Clients, p \in Profiles : Arrive(c, p)
    \/ \E c \in Clients : Continue(c)
    \/ Restart

Spec == Init /\ [][Next]_vars

-----------------------------------------------------------------------------
(* Properties.                                                             *)

TypeOK ==
    /\ profile \in [Profiles -> Settings \cup {None}]
    /\ seeded \subseteq Profiles
    /\ token \in [Tokens -> Token \cup {None}]
    /\ proc \in [Clients -> Request]
    /\ life \in [Profiles -> {"unused", "used", "deleted"}]
    /\ issued \subseteq Tokens
    /\ wanted \in [Profiles -> Settings \cup {None}]

\* When changes of a profile run alone, a partial update changes the fields it
\* names and no others, across requests that fail and restarts in mid-request.
UpdatesAddUp == \A p \in AloneOn : profile[p] = wanted[p]

\* When changes of a profile run alone, the cascade is complete: a profile
\* exists with its groups and rules or not at all, and each token's profile
\* exists (docs/API.md:626), whichever statement fails and wherever it dies.
NoOrphans ==
    /\ \A p \in AloneOn : profile[p] # None <=> p \in seeded
    /\ \A t \in Tokens : token[t] # None /\ token[t].profile \in AloneOn =>
          profile[token[t].profile] # None

\* A profile is created with the fake_ip the client sent, and with false when
\* it sent none (docs/API.md:506).
CreatedAsAsked ==
    [][\A p \in Profiles, payload \in Payload :
         CreateProfile(p, payload) => profile'[p].fake_ip = (payload.fake_ip = TRUE)]_vars

\* A revoked token is not valid again ("revoked at once", docs/API.md:794).
RevokedStaysRevoked ==
    [][\A t \in Tokens :
         /\ token[t] # None /\ token[t].revoked
         /\ token'[t] # None
         => token'[t].revoked]_vars

\* A token that was revoked or deleted and that no request past its lookup is
\* using: it opens no configuration.
Dead(t) ==
    /\ t \in issued
    /\ token[t] = None \/ token[t].revoked
    /\ \A c \in Clients : proc[c].token = t => proc[c].pc \notin {"build", "save"} \/ proc[c].kind # "serve"

\* Whatever overlaps, fails or crashes, a dead token stays dead: once the
\* requests that read it unrevoked have ended, no configuration is served to it.
RevocationIsFinal == [][\A t \in Tokens : Dead(t) => Dead(t)']_vars

\* A deleted profile, its groups, rules and tokens, when no request that read
\* the profile or one of its tokens is still to write.
ProfileGone(p) ==
    /\ life[p] = "deleted"
    /\ profile[p] = None /\ p \notin seeded
    /\ \A t \in Tokens : token[t] # None => token[t].profile # p
    /\ \A c \in Clients : proc[c].profile = p => proc[c].pc \in {"commit", "lookup"}

\* Whatever overlaps, fails or crashes, nothing brings them back.
ProfileDeletionIsFinal == [][\A p \in Profiles : ProfileGone(p) => ProfileGone(p)']_vars

\* Where changes run alone, a configuration is sent to the holder of a token
\* that opens this very profile when it is sent, not only when the middleware
\* or the handler looked (docs/API.md:794).
ServedToHolders ==
    [][\A c \in Clients :
         SubSave(c) /\ proc[c].profile \in AloneOn =>
            /\ token[proc[c].token] = [profile |-> proc[c].profile, revoked |-> FALSE]
            /\ profile[proc[c].profile] # None]_vars
=============================================================================
