----------------------------- MODULE EditForms ------------------------------
(***************************************************************************)
(* EditForms: the forms and dialogs of the web console over the rows they  *)
(* create, save and delete: channels (ChannelCreateForm.tsx), credentials  *)
(* (CredentialCreateForm.tsx) and configs (ConfigCreateForm.tsx), with the *)
(* handlers that answer them (api/channels.py, credentials.py, configs.py).*)
(*                                                                         *)
(* A form is prefilled from a row when it is opened and may stay open, in  *)
(* a tab nobody looks at, while the row is saved or deleted elsewhere and  *)
(* its id given to another row.  Secrets are shown masked, and a masked    *)
(* value sent back stands for what is stored.  The handlers of channels    *)
(* and configs run in threads: what they read may have changed when they   *)
(* commit.  All rows are of one owner.                                     *)
(***************************************************************************)
EXTENDS Naturals, FiniteSets

CONSTANTS Forms,    \* forms and dialogs open at a time, in any tab
          MaxChannel, MaxCredential, MaxConfig,  \* bounds: the largest ids
          Requests, \* bound: requests sent
          Secrets,  \* webhook URLs and tokens
          Keys,     \* API keys; a key's fingerprint is the key itself here
          Images,   \* images, each of one OCI account
          Gone      \* no such row

VARIABLES
    channels,     \* channels[i]: NotificationChannel
    credentials,  \* credentials[i]: OciCredential
    configs,      \* configs[i]: InstanceConfig with its links to channels
    form,         \* form[f]: a form or dialog and its request
    requests,     \* the requests sent so far
    saved,        \* history: saved[i] is what the last save of config i asked for
    mixed         \* history: rows a save has mixed with a row it did not show

tables == <<channels, credentials, configs>>
vars == <<tables, form, requests, saved, mixed>>

ChannelIds == 1..MaxChannel
CredentialIds == 1..MaxCredential
ConfigIds == 1..MaxConfig
Types == {"discord", "ntfy"}  \* their secrets are webhook_url, required, and token, optional
Blank == ""
Mask == "***"                 \* mask_secret, mask_fingerprint: what a response shows

ASSUME EditFormsAssumption ==
    /\ {MaxChannel, MaxCredential, MaxConfig} \subseteq Nat \ {0} /\ Requests \in Nat
    /\ {Blank, Mask} \cap (Secrets \cup Keys \cup Images) = {}

\* config_enc has the fields of one type, the one in field, whose secret it holds; the
\* column type should say the same.
Channel == [type : Types, field : Types, secret : Secrets \cup {Blank, Mask}]
Credential == [fingerprint : Keys, key : Keys]
Config == [credential : CredentialIds, image : Images, channels : SUBSET ChannelIds]

ASSUME GoneAssumption == Gone \notin Channel \cup Credential \cup Config

Rows(table) == CASE table = "channel"    -> channels
                 [] table = "credential" -> credentials
                 [] table = "config"     -> configs

Existing(rows) == {i \in DOMAIN rows : rows[i] # Gone}

Closed == [at |-> "closed", op |-> "create", table |-> "channel", id |-> 0,
           body |-> Gone, was |-> Gone, found |-> Gone]

BodyOf(table) ==
    CASE table = "channel"    -> [type : Types, secret : Secrets \cup {Blank, Mask}]
      [] table = "credential" -> [fingerprint : Keys \cup {Blank, Mask}, key : Keys \cup {Blank}]
      [] table = "config"     -> [credential : 0..MaxCredential, image : Images \cup {Blank},
                                  channels : SUBSET ChannelIds]

FormOK(x) ==
    /\ x.at \in {"open", "sent", "found", "linked", "done"}
    /\ x.op \in {"create", "save", "delete"}
    /\ x.table \in {"channel", "credential", "config"} /\ x.id \in Nat
    /\ x.body \in BodyOf(x.table)

TypeOK ==
    /\ channels \in [ChannelIds -> Channel \cup {Gone}]
    /\ credentials \in [CredentialIds -> Credential \cup {Gone}]
    /\ configs \in [ConfigIds -> Config \cup {Gone}] /\ saved \in [ConfigIds -> Config \cup {Gone}]
    /\ \A f \in Forms : form[f] = Closed \/ FormOK(form[f])
    /\ requests \in 0..Requests
    /\ mixed \subseteq {"channel", "credential", "config"} \X Nat

\* One row of each table, and no form open.
Init ==
    /\ \E ty \in Types, s \in Secrets :
          channels = [i \in ChannelIds |->
                         IF i = 1 THEN [type |-> ty, field |-> ty, secret |-> s] ELSE Gone]
    /\ \E k \in Keys :
          credentials = [i \in CredentialIds |->
                            IF i = 1 THEN [fingerprint |-> k, key |-> k] ELSE Gone]
    /\ \E m \in Images :
          configs = [i \in ConfigIds |->
                        IF i = 1 THEN [credential |-> 1, image |-> m, channels |-> {1}] ELSE Gone]
    /\ form = [f \in Forms |-> Closed] /\ requests = 0
    /\ saved = configs /\ mixed = {}

-----------------------------------------------------------------------------
(* Opening and filling a form                                              *)

Masked(v) == IF v = Blank THEN Blank ELSE Mask

\* Mutant: the fingerprint is shown as it is.
Unmasked(v) == v

MaskedFingerprint(v) == Masked(v)

\* The values an edit form starts with, from the row as the list shows it.  The form
\* takes the fields of the row's type, and leaves them empty if the config has none.
PrefilledChannel(c) ==
    [type |-> c.type, secret |-> IF c.field = c.type THEN Masked(c.secret) ELSE Blank]
PrefilledCredential(c) == [fingerprint |-> MaskedFingerprint(c.fingerprint), key |-> Blank]
PrefilledConfig(c) == c

Prefilled(table, row) ==
    CASE table = "channel"    -> PrefilledChannel(row)
      [] table = "credential" -> PrefilledCredential(row)
      [] table = "config"     -> PrefilledConfig(row)

Empty(table) ==
    CASE table = "channel"    -> [type |-> "discord", secret |-> Blank]
      [] table = "credential" -> [fingerprint |-> Blank, key |-> Blank]
      [] table = "config"     -> [credential |-> 0, image |-> Blank, channels |-> {}]

Opened(f, x) ==
    /\ form[f].at = "closed"
    /\ form' = [form EXCEPT ![f] = x]
    /\ UNCHANGED <<tables, requests, saved, mixed>>

OpenCreate(f, table) ==
    Opened(f, [Closed EXCEPT !.at = "open", !.table = table, !.body = Empty(table)])

\* Edit or Delete is clicked on a row.
OpenRow(f, op, table, i) ==
    LET row == Rows(table)[i] IN
    /\ row # Gone
    /\ Opened(f, [at |-> "open", op |-> op, table |-> table, id |-> i,
                  body |-> Prefilled(table, row), was |-> row, found |-> Gone])

\* What the fields of a form offer next to what they hold.

\* A new channel's type; when it is changed, the config starts again.
TypeChoices(x) == IF x.op = "create" THEN Types ELSE {x.body.type}

\* A secret is typed, or the field emptied.
SecretChoices(x) == {x.body.secret, Blank} \cup Secrets

\* OCI's configuration preview is pasted: the fingerprint, not the key.
FingerprintChoices(x) == {x.body.fingerprint} \cup Keys

KeyChoices(x) == {x.body.key} \cup Keys

CredentialChoices(x) == {x.body.credential} \cup Existing(credentials)

\* From the credential's list, or by hand: the image of the credential chosen
\* before stays in its field.
ImageChoices(x) == {x.body.image} \cup Images

\* Existing channels are ticked and unticked; a link to another one stays, hidden.
ChannelChoices(x) ==
    {(x.body.channels \ Existing(channels)) \cup ticked : ticked \in SUBSET Existing(channels)}

\* Cancelled, or its row has left the list.
Close(f) ==
    /\ form[f].at = "open"
    /\ form' = [form EXCEPT ![f] = Closed]
    /\ UNCHANGED <<tables, requests, saved, mixed>>

-----------------------------------------------------------------------------
(* Sending it                                                              *)

\* channelCreateSchema, and channelEditSchema, under which a secret may be kept.
ChannelAccepted(op, b) == op = "create" /\ b.type = "discord" => b.secret # Blank

\* credentialCreateSchema asks for a key, credentialEditSchema does not.
CredentialAccepted(op, b) == b.fingerprint # Blank /\ (op = "create" => b.key # Blank)

ConfigAccepted(b) == b.credential # 0 /\ b.image # Blank

\* The user pairs keys and fingerprints rightly: a new fingerprint comes with its
\* key, and a key sent alone is that of the fingerprint the form was opened on.
RightPair(x, b) ==
    \/ b.key = Blank /\ b = PrefilledCredential(x.was)
    \/ b.key # Blank /\ b.key = IF b.fingerprint = Mask THEN x.was.fingerprint ELSE b.fingerprint

Filling(f, table) == form[f].at = "open" /\ form[f].table = table /\ form[f].op # "delete"

Sent(f, body) ==
    /\ requests < Requests /\ requests' = requests + 1
    /\ form' = [form EXCEPT ![f].at = "sent", ![f].body = body]
    /\ UNCHANGED <<tables, saved, mixed>>

SubmitChannel(f) ==
    /\ Filling(f, "channel")
    /\ \E ty \in TypeChoices(form[f]), s \in SecretChoices(form[f]) :
          LET b == [type |-> ty, secret |-> s] IN
          ChannelAccepted(form[f].op, b) /\ Sent(f, b)

SubmitCredential(f) ==
    /\ Filling(f, "credential")
    /\ \E fp \in FingerprintChoices(form[f]), k \in KeyChoices(form[f]) :
          LET b == [fingerprint |-> fp, key |-> k] IN
          /\ CredentialAccepted(form[f].op, b) /\ RightPair(form[f], b)
          /\ Sent(f, b)

\* Every field is sent, changed or not.
SubmitConfig(f) ==
    /\ Filling(f, "config")
    /\ \E i \in CredentialChoices(form[f]), m \in ImageChoices(form[f]),
          linked \in ChannelChoices(form[f]) :
          LET b == [credential |-> i, image |-> m, channels |-> linked] IN
          ConfigAccepted(b) /\ Sent(f, b)

ConfirmDelete(f) == form[f].at = "open" /\ form[f].op = "delete" /\ Sent(f, form[f].body)

\* The form closes, or is reset.
Answered(f) ==
    /\ form[f].at = "done"
    /\ form' = [form EXCEPT ![f] = Closed]
    /\ UNCHANGED <<tables, requests, saved, mixed>>

\* Refused, or the answer lost: an error is shown and the form stays as it is,
\* to be sent again.
Failed(f) ==
    /\ form[f].at \in {"sent", "found", "linked", "done"}
    /\ form' = [form EXCEPT ![f].at = "open", ![f].found = Gone]
    /\ UNCHANGED <<tables, requests, saved, mixed>>

-----------------------------------------------------------------------------
(* The handlers                                                            *)

Handles(f, at, op, table) == form[f].at = at /\ form[f].op = op /\ form[f].table = table

Done(f) == form' = [form EXCEPT ![f].at = "done"] /\ UNCHANGED requests

\* What a handler reads is kept by its session until it commits.
Found(f, row) ==
    /\ form' = [form EXCEPT ![f].at = "found", ![f].found = row]
    /\ UNCHANGED <<tables, requests, saved, mixed>>

\* A new row's id follows the largest in use: SQLite reuses those at the top.
IsNextId(i, rows) ==
    /\ \A j \in DOMAIN rows : j >= i => rows[j] = Gone
    /\ i > 1 => rows[i - 1] # Gone

CreateChannel(f, i) ==
    /\ Handles(f, "sent", "create", "channel") /\ IsNextId(i, channels)
    /\ channels' = [channels EXCEPT ![i] =
           [type |-> form[f].body.type, field |-> form[f].body.type, secret |-> form[f].body.secret]]
    /\ mixed' = mixed \ {<<"channel", i>>}
    /\ Done(f) /\ UNCHANGED <<credentials, configs, saved>>

FindChannel(f) ==
    /\ Handles(f, "sent", "save", "channel") /\ channels[form[f].id] # Gone
    /\ Found(f, channels[form[f].id])

\* Mutants: only a mask, only a blank stands for the stored secret.
OnlyMask(s) == s = Mask
OnlyBlank(s) == s = Blank

\* _is_unchanged_secret
IsUnchanged(s) == s \in {Blank, Mask}

\* _merge_kept_secrets, for a channel whose type is still the form's: the secret is kept
\* if the stored config has one for that type.
Merged(b, c) ==
    IF b.type = c.type /\ IsUnchanged(b.secret) /\ c.field = b.type THEN c.secret ELSE b.secret

\* What the row becomes: the config is written whole, as the handler merged it with what
\* it had read, and the type only if it differs from what was read.
Rewritten(b, c, row) ==
    [type   |-> IF b.type = c.type THEN row.type ELSE b.type,
     field  |-> b.type,
     secret |-> Merged(b, c)]

\* A row is as its form has it when a secret was typed and the type is the form's, and
\* may not be when the row had another type or has changed since it was read.
SaveChannel(f) ==
    LET i == form[f].id  b == form[f].body  c == form[f].found  row == channels[i]
        typed == b.secret \in Secrets
        retyped == Rewritten(b, c, row).type # b.type IN
    /\ Handles(f, "found", "save", "channel") /\ row # Gone
    /\ channels' = [channels EXCEPT ![i] = Rewritten(b, c, row)]
    /\ mixed' = IF typed /\ ~retyped THEN mixed \ {<<"channel", i>>}
                ELSE IF retyped \/ b.type # c.type \/ c # row THEN mixed \cup {<<"channel", i>>}
                ELSE mixed
    /\ Done(f) /\ UNCHANGED <<credentials, configs, saved>>

\* The channel goes with its links.
DeleteChannel(f) ==
    LET i == form[f].id
        Unlinked(c) == IF c = Gone THEN Gone ELSE [c EXCEPT !.channels = @ \ {i}] IN
    /\ Handles(f, "sent", "delete", "channel") /\ channels[i] # Gone
    /\ channels' = [channels EXCEPT ![i] = Gone]
    /\ configs' = [j \in ConfigIds |-> Unlinked(configs[j])]
    /\ saved' = [j \in ConfigIds |-> Unlinked(saved[j])]
    /\ Done(f) /\ UNCHANGED <<credentials, mixed>>

CreateCredential(f, i) ==
    /\ Handles(f, "sent", "create", "credential") /\ IsNextId(i, credentials)
    /\ credentials' = [credentials EXCEPT ![i] = form[f].body]
    /\ mixed' = mixed \ {<<"credential", i>>}
    /\ Done(f) /\ UNCHANGED <<channels, configs, saved>>

\* Mutant: what is sent is stored.
Taken(submitted, existing) == submitted

\* _kept: a value with a star in it stands for the stored one.
Kept(submitted, existing) == IF submitted = Mask THEN existing ELSE submitted

\* update_credential, a coroutine: reading and committing are one step.
SaveCredential(f) ==
    LET i == form[f].id  b == form[f].body  c == credentials[i] IN
    /\ Handles(f, "sent", "save", "credential") /\ c # Gone
    /\ credentials' = [credentials EXCEPT ![i] =
           [fingerprint |-> Kept(b.fingerprint, c.fingerprint),
            key |-> IF b.key = Blank THEN c.key ELSE b.key]]
    /\ mixed' = IF b.fingerprint # Mask THEN mixed \ {<<"credential", i>>}
                ELSE IF b.key # Blank /\ form[f].was.fingerprint # c.fingerprint
                     THEN mixed \cup {<<"credential", i>>}
                ELSE mixed
    /\ Done(f) /\ UNCHANGED <<channels, configs, saved>>

\* A credential a config refers to is not deleted: credential_id may not be null.
DeleteCredential(f) ==
    LET i == form[f].id IN
    /\ Handles(f, "sent", "delete", "credential") /\ credentials[i] # Gone
    /\ \A j \in Existing(configs) : configs[j].credential # i
    /\ credentials' = [credentials EXCEPT ![i] = Gone]
    /\ Done(f) /\ UNCHANGED <<channels, configs, saved, mixed>>

\* _get_or_404, _require_credential and _resolve_channels
FindConfig(f) ==
    LET b == form[f].body IN
    /\ \/ Handles(f, "sent", "create", "config") /\ Found(f, Gone)
       \/ /\ Handles(f, "sent", "save", "config") /\ configs[form[f].id] # Gone
          /\ Found(f, configs[form[f].id])
    /\ credentials[b.credential] # Gone /\ b.channels \subseteq Existing(channels)

\* Mutant: the database does not enforce foreign keys.
Unchecked(credential, linked) == TRUE

\* PRAGMA foreign_keys=ON
ForeignKeysHold(credential, linked) ==
    credentials[credential] # Gone /\ linked \subseteq Existing(channels)

CreateConfig(f, i) ==
    LET b == form[f].body IN
    /\ Handles(f, "found", "create", "config") /\ IsNextId(i, configs)
    /\ ForeignKeysHold(b.credential, b.channels)
    /\ configs' = [configs EXCEPT ![i] = b] /\ saved' = [saved EXCEPT ![i] = b]
    /\ mixed' = mixed \ {<<"config", i>>}
    /\ Done(f) /\ UNCHANGED <<channels, credentials>>

\* Mutant: only the fields changed in the form are sent.
OnlyDirty(x, row) ==
    [credential |-> IF x.body.credential # x.was.credential THEN x.body.credential ELSE row.credential,
     image      |-> IF x.body.image # x.was.image THEN x.body.image ELSE row.image,
     channels   |-> x.body.channels]

LinksOf(row) == IF row = Gone THEN {} ELSE row.channels

\* Setting the links loads those there are.  Columns that differ are flushed first, and
\* then the database is locked until the commit; if none does, others may still write.
LoadLinks(f) ==
    LET x == form[f] IN
    /\ Handles(f, "found", "save", "config")
    /\ x.body.credential = x.found.credential /\ x.body.image = x.found.image
    /\ form' = [form EXCEPT ![f].at = "linked",
                             ![f].found = [x.found EXCEPT !.channels = LinksOf(configs[x.id])]]
    /\ UNCHANGED <<tables, requests, saved, mixed>>

\* The links the session compares those it is asked for with.
Loaded(x, row) == IF x.at = "linked" THEN x.found.channels ELSE row.channels

\* The session writes the columns that differ from what it read, removes the links
\* that are not asked for and adds those that are new.
Updated(x, row) ==
    [credential |-> IF x.body.credential # x.found.credential THEN x.body.credential ELSE row.credential,
     image      |-> IF x.body.image # x.found.image THEN x.body.image ELSE row.image,
     channels   |-> (row.channels \ (Loaded(x, row) \ x.body.channels))
                       \cup (x.body.channels \ Loaded(x, row))]

\* Another request has written the config since this one read it.
Overlapped(x, row) ==
    \/ x.found.credential # row.credential \/ x.found.image # row.image
    \/ Loaded(x, row) # row.channels

\* A link to remove that is gone, or one to add that is there, is an error.
SaveConfig(f) ==
    LET x == form[f]  row == configs[x.id] IN
    /\ Handles(f, "found", "save", "config") \/ Handles(f, "linked", "save", "config")
    /\ row # Gone
    /\ (Loaded(x, row) \ x.body.channels) \subseteq row.channels
    /\ (x.body.channels \ Loaded(x, row)) \cap row.channels = {}
    /\ ForeignKeysHold(Updated(x, row).credential, x.body.channels \ Loaded(x, row))
    /\ configs' = [configs EXCEPT ![x.id] = Updated(x, row)]
    /\ saved' = [saved EXCEPT ![x.id] = x.body]
    /\ mixed' = IF Overlapped(x, row) THEN mixed \cup {<<"config", x.id>>}
                                      ELSE mixed \ {<<"config", x.id>>}
    /\ Done(f) /\ UNCHANGED <<channels, credentials>>

DeleteConfig(f) ==
    LET i == form[f].id IN
    /\ Handles(f, "sent", "delete", "config") /\ configs[i] # Gone
    /\ configs' = [configs EXCEPT ![i] = Gone] /\ saved' = [saved EXCEPT ![i] = Gone]
    /\ Done(f) /\ UNCHANGED <<channels, credentials, mixed>>

-----------------------------------------------------------------------------
Submit(f) == SubmitChannel(f) \/ SubmitCredential(f) \/ SubmitConfig(f) \/ ConfirmDelete(f)

Handle(f) ==
    \/ FindChannel(f) \/ SaveChannel(f) \/ DeleteChannel(f)
    \/ SaveCredential(f) \/ DeleteCredential(f)
    \/ FindConfig(f) \/ LoadLinks(f) \/ SaveConfig(f) \/ DeleteConfig(f)
    \/ \E i \in ChannelIds : CreateChannel(f, i)
    \/ \E i \in CredentialIds : CreateCredential(f, i)
    \/ \E i \in ConfigIds : CreateConfig(f, i)

Next ==
    \E f \in Forms :
        \/ \E table \in {"channel", "credential", "config"} :
               \/ OpenCreate(f, table)
               \/ \E op \in {"save", "delete"}, i \in DOMAIN Rows(table) : OpenRow(f, op, table, i)
        \/ Close(f) \/ Submit(f) \/ Answered(f) \/ Failed(f)
        \/ Handle(f)

Spec == Init /\ [][Next]_vars

-----------------------------------------------------------------------------
(* Properties                                                              *)

\* A config of the channel's own type, with a secret unless none is required.
Real(c) ==
    /\ c.field = c.type
    /\ \/ c.secret \in Secrets
       \/ c.type = "ntfy" /\ c.secret = Blank

\* No mask, no blank where a secret is required and no config of another type is ever
\* what a channel has, however stale the form that was saved.  Two ways remain, and
\* mixed names their rows: a form of another type saved, with nothing typed, over the
\* channel that was given its channel's id (channels.py takes the masked value then),
\* and a save that overlaps another write of the row: it writes back the secret it had
\* read or, with a secret typed, leaves the config of its own type in a row that has
\* another by now.
SecretIsReal ==
    \A i \in Existing(channels) : <<"channel", i>> \in mixed \/ Real(channels[i])

\* A save in which no secret was typed leaves the stored secret alone, however stale
\* its form, but for the rows that mixed names.
UntypedSecretKept ==
    [][\A f \in Forms : SaveChannel(f) =>
          LET i == form[f].id IN
          \/ form[f].body.secret \in Secrets
          \/ channels'[i].secret = channels[i].secret
          \/ <<"channel", i>> \in mixed']_vars

\* A credential's key is the one its fingerprint names, although forms opened
\* before a change of key are saved after it.  The exception: a key alone, uploaded
\* again for the fingerprint the form was opened on, after that one was replaced.
KeyMatchesIdentity ==
    \A i \in Existing(credentials) :
        <<"credential", i>> \in mixed \/ credentials[i].key = credentials[i].fingerprint

\* A config never refers to a credential or channel that is gone, although both
\* are checked before the commit and may be deleted in between.
ReferencesExist ==
    \A i \in Existing(configs) :
        /\ credentials[configs[i].credential] # Gone
        /\ configs[i].channels \subseteq Existing(channels)

\* A config is as one save asked for, never half one's credential and half
\* another's image or channels, unless that save overlapped another write.
SaveIsWhole ==
    \A i \in Existing(configs) : <<"config", i>> \in mixed \/ configs[i] = saved[i]
=============================================================================
