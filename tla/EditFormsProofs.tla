--------------------------- MODULE EditFormsProofs ---------------------------
(* Theorems of EditForms, for any forms, ids, secrets, keys and images and   *)
(* any number of requests.                                                   *)
EXTENDS EditForms, TLAPS

USE EditFormsAssumption, GoneAssumption
USE DEF tables

-----------------------------------------------------------------------------
(* What a form holds                                                       *)

Tables == {"channel", "credential", "config"}

IdsOf(table) == CASE table = "channel"    -> ChannelIds
                  [] table = "credential" -> CredentialIds
                  [] table = "config"     -> ConfigIds

RowOf(table) == CASE table = "channel"    -> Channel
                  [] table = "credential" -> Credential
                  [] table = "config"     -> Config

Form(at, op, table, id, body, was, found) ==
    [at : {at}, op : {op}, table : {table}, id : {id}, body : {body}, was : {was},
     found : {found}]

IsForm(x) == x \in Form(x.at, x.op, x.table, x.id, x.body, x.was, x.found)

\* What the schemas let through, of a form that creates or saves.
Accepted(x) ==
    /\ x.table = "channel" => ChannelAccepted(x.op, x.body)
    /\ x.table = "credential" => CredentialAccepted(x.op, x.body) /\ RightPair(x, x.body)
    /\ x.table = "config" => ConfigAccepted(x.body)

\* A form that creates holds no masked value: nothing was shown to it.
NoMask(x) ==
    /\ x.table = "channel" => x.body.secret # Mask
    /\ x.table = "credential" => x.body.fingerprint # Mask

OpenedRight(x) ==
    /\ x.op \in {"create", "save", "delete"} /\ x.table \in Tables /\ x.id \in Nat
    /\ x.body \in BodyOf(x.table)
    /\ x.op = "create" => NoMask(x)
    /\ x.op # "create" => x.id \in IdsOf(x.table) /\ x.was \in RowOf(x.table)

Right(x) ==
    \/ x = Closed
    \/ /\ x.at \in {"open", "sent", "found", "linked", "done"} /\ OpenedRight(x)
       /\ x.at # "open" /\ x.op # "delete" => Accepted(x)
       /\ x.at \in {"found", "linked"} /\ x.op = "save" => x.found \in RowOf(x.table)

FormsOK == form = [g \in Forms |-> form[g]] /\ \A g \in Forms : IsForm(form[g]) /\ Right(form[g])

RowsOK ==
    /\ channels \in [ChannelIds -> Channel \cup {Gone}]
    /\ credentials \in [CredentialIds -> Credential \cup {Gone}]
    /\ configs \in [ConfigIds -> Config \cup {Gone}]

HistoryOK ==
    /\ saved \in [ConfigIds -> Config \cup {Gone}]
    /\ mixed \subseteq Tables \X Nat

\* A masked value, an empty field and the values themselves are told apart.
LEMMA Literals ==
    /\ Blank # Mask
    /\ Blank \notin Secrets /\ Mask \notin Secrets /\ Blank \notin Keys /\ Mask \notin Keys
    /\ Blank \notin Images
BY DEF Blank, Mask

LEMMA TypesFollow == FormsOK /\ RowsOK /\ HistoryOK /\ requests \in 0..Requests => TypeOK
BY DEF TypeOK, FormsOK, RowsOK, HistoryOK, Right, FormOK, OpenedRight, Tables

-----------------------------------------------------------------------------
(* Forms                                                                   *)

LEMMA OneForm ==
    ASSUME FormsOK, NEW f \in Forms, NEW y, IsForm(y), Right(y), form' = [form EXCEPT ![f] = y]
    PROVE  FormsOK'
<1>1. form' = [g \in Forms |-> IF g = f THEN y ELSE form[g]]
      BY DEF FormsOK
<1>2. \A g \in Forms : IsForm(form'[g]) /\ Right(form'[g])
      BY <1>1 DEF FormsOK
<1>3. form' = [g \in Forms |-> form'[g]]
      BY <1>1
<1> QED BY <1>2, <1>3 DEF FormsOK

LEMMA ClosedForm == IsForm(Closed) /\ Right(Closed)
BY DEF IsForm, Form, Closed, Right

\* The forms that requests go through, field by field.
LEMMA Fields ==
    ASSUME NEW x, IsForm(x), NEW a, NEW v
    PROVE  /\ [x EXCEPT !.at = a] \in Form(a, x.op, x.table, x.id, x.body, x.was, x.found)
           /\ [x EXCEPT !.at = a, !.body = v]
                  \in Form(a, x.op, x.table, x.id, v, x.was, x.found)
           /\ [x EXCEPT !.at = a, !.found = v]
                  \in Form(a, x.op, x.table, x.id, x.body, x.was, v)
<1>1. [x EXCEPT !.at = a] \in Form(a, x.op, x.table, x.id, x.body, x.was, x.found)
      BY DEF IsForm, Form
<1>2. [x EXCEPT !.at = a, !.body = v] \in Form(a, x.op, x.table, x.id, v, x.was, x.found)
      BY DEF IsForm, Form
<1>3. [x EXCEPT !.at = a, !.found = v] \in Form(a, x.op, x.table, x.id, x.body, x.was, v)
      BY DEF IsForm, Form
<1> QED BY <1>1, <1>2, <1>3

LEMMA NewFields ==
    ASSUME NEW x, IsForm(x), NEW a, NEW t, NEW v
    PROVE  [x EXCEPT !.at = a, !.table = t, !.body = v]
               \in Form(a, x.op, t, x.id, v, x.was, x.found)
BY DEF IsForm, Form

\* A form opened on nothing.
LEMMA EmptyForm ==
    ASSUME NEW table \in Tables
    PROVE  LET y == [Closed EXCEPT !.at = "open", !.table = table, !.body = Empty(table)]
           IN  IsForm(y) /\ Right(y)
<1> DEFINE y == [Closed EXCEPT !.at = "open", !.table = table, !.body = Empty(table)]
<1>1. y \in Form("open", "create", table, 0, Empty(table), Gone, Gone)
  <2>1. Closed.op = "create" /\ Closed.id = 0 /\ Closed.was = Gone /\ Closed.found = Gone
        BY DEF Closed
  <2> QED BY <2>1, ClosedForm, NewFields
<1> HIDE DEF y
<1>2. Empty(table) \in BodyOf(table) /\ NoMask(y)
  <2>1. CASE table = "channel"
    <3>1. Empty(table) = [type |-> "discord", secret |-> Blank]
          BY <2>1 DEF Empty
    <3> QED BY <1>1, <2>1, <3>1, Literals DEF BodyOf, Types, NoMask, Form
  <2>2. CASE table = "credential"
    <3>1. Empty(table) = [fingerprint |-> Blank, key |-> Blank]
          BY <2>2 DEF Empty
    <3> QED BY <1>1, <2>2, <3>1, Literals DEF BodyOf, NoMask, Form
  <2>3. CASE table = "config"
        BY <1>1, <2>3 DEF Empty, BodyOf, NoMask, Form
  <2> QED BY <2>1, <2>2, <2>3 DEF Tables
<1>3. IsForm(y)
      BY <1>1 DEF IsForm, Form
<1>4. Right(y)
      BY <1>1, <1>2 DEF Right, OpenedRight, Form
<1> QED BY <1>3, <1>4 DEF y

\* A form opened on a row is prefilled as its fields take it.
LEMMA RowForm ==
    ASSUME NEW table \in Tables, NEW op \in {"save", "delete"}, NEW i \in IdsOf(table),
           NEW row \in RowOf(table)
    PROVE  LET y == [at |-> "open", op |-> op, table |-> table, id |-> i,
                     body |-> Prefilled(table, row), was |-> row, found |-> Gone]
           IN  IsForm(y) /\ Right(y)
<1> DEFINE y == [at |-> "open", op |-> op, table |-> table, id |-> i,
                 body |-> Prefilled(table, row), was |-> row, found |-> Gone]
<1>1. i \in Nat
      BY DEF IdsOf, ChannelIds, CredentialIds, ConfigIds, Tables
<1>2. Prefilled(table, row) \in BodyOf(table)
  <2>1. CASE table = "channel"
        BY <2>1 DEF Prefilled, PrefilledChannel, Masked, BodyOf, RowOf, Channel
  <2>2. CASE table = "credential"
        BY <2>2 DEF Prefilled, PrefilledCredential, MaskedFingerprint, Masked, BodyOf
  <2>3. CASE table = "config"
        BY <2>3 DEF Prefilled, PrefilledConfig, BodyOf, RowOf, Config, CredentialIds
  <2> QED BY <2>1, <2>2, <2>3 DEF Tables
<1>3. IsForm(y) /\ Right(y)
      BY <1>1, <1>2 DEF IsForm, Form, Right, OpenedRight
<1> QED BY <1>3

\* A form sent with other values in its fields, as long as the schemas take them.
LEMMA SentForm ==
    ASSUME NEW x, IsForm(x), Right(x), x.at = "open", NEW b \in BodyOf(x.table),
           LET y == [x EXCEPT !.at = "sent", !.body = b]
           IN  (x.op = "create" => NoMask(y)) /\ (x.op # "delete" => Accepted(y))
    PROVE  LET y == [x EXCEPT !.at = "sent", !.body = b] IN IsForm(y) /\ Right(y)
<1> DEFINE y == [x EXCEPT !.at = "sent", !.body = b]
<1>1. y \in Form("sent", x.op, x.table, x.id, b, x.was, x.found)
      BY Fields
<1>2. x.at # "closed" /\ OpenedRight(x)
      BY DEF Right, Closed
<1>3. (x.op = "create" => NoMask(y)) /\ (x.op # "delete" => Accepted(y))
      OBVIOUS
<1> HIDE DEF y
<1>4. IsForm(y)
      BY <1>1 DEF IsForm, Form
<1>5. y.at = "sent" /\ OpenedRight(y)
      BY <1>1, <1>2, <1>3 DEF OpenedRight, Form
<1>6. Right(y)
      BY <1>1, <1>3, <1>5 DEF Right, Form
<1> QED BY <1>4, <1>6 DEF y

\* A form moved on by its handler, or opened again by an error.
LEMMA MovedForm ==
    ASSUME NEW x, IsForm(x), Right(x), NEW a \in {"open", "found", "linked", "done"},
           x.at \in {"sent", "found", "linked", "done"}
    PROVE  /\ a \in {"open", "done"} => IsForm([x EXCEPT !.at = a]) /\ Right([x EXCEPT !.at = a])
           /\ \A v : (a \in {"found", "linked"} /\ x.op = "save" => v \in RowOf(x.table))
                        => /\ IsForm([x EXCEPT !.at = a, !.found = v])
                           /\ Right([x EXCEPT !.at = a, !.found = v])
<1>1. /\ OpenedRight(x) /\ x # Closed
      /\ x.op # "delete" => Accepted(x)
      BY DEF Right, Closed
<1>2. ASSUME NEW v, a \in {"found", "linked"} /\ x.op = "save" => v \in RowOf(x.table)
      PROVE  /\ IsForm([x EXCEPT !.at = a, !.found = v])
             /\ Right([x EXCEPT !.at = a, !.found = v])
  <2> DEFINE y == [x EXCEPT !.at = a, !.found = v]
  <2>1. y \in Form(a, x.op, x.table, x.id, x.body, x.was, v)
        BY Fields
  <2> HIDE DEF y
  <2>2. IsForm(y) /\ OpenedRight(y) /\ (x.op # "delete" => Accepted(y))
        BY <1>1, <2>1 DEF IsForm, Form, OpenedRight, NoMask, Accepted, RightPair
  <2>3. Right(y)
        BY <1>2, <2>1, <2>2 DEF Right, Form
  <2> QED BY <2>2, <2>3 DEF y
<1>3. ASSUME a \in {"open", "done"}
      PROVE  IsForm([x EXCEPT !.at = a]) /\ Right([x EXCEPT !.at = a])
  <2> DEFINE y == [x EXCEPT !.at = a]
  <2>1. y \in Form(a, x.op, x.table, x.id, x.body, x.was, x.found)
        BY Fields
  <2> HIDE DEF y
  <2>2. IsForm(y) /\ OpenedRight(y) /\ (x.op # "delete" => Accepted(y))
        BY <1>1, <2>1 DEF IsForm, Form, OpenedRight, NoMask, Accepted, RightPair
  <2>3. Right(y)
        BY <1>3, <2>1, <2>2 DEF Right, Form
  <2> QED BY <2>2, <2>3 DEF y
<1> QED BY <1>2, <1>3

\* To change fields of one form is to put another form in its place.
LEMMA Inside ==
    ASSUME FormsOK, NEW f \in Forms, NEW a, NEW v
    PROVE  /\ [form EXCEPT ![f].at = a] = [form EXCEPT ![f] = [form[f] EXCEPT !.at = a]]
           /\ [form EXCEPT ![f].at = a, ![f].body = v]
                 = [form EXCEPT ![f] = [form[f] EXCEPT !.at = a, !.body = v]]
           /\ [form EXCEPT ![f].at = a, ![f].found = v]
                 = [form EXCEPT ![f] = [form[f] EXCEPT !.at = a, !.found = v]]
<1>1. [form EXCEPT ![f].at = a] = [form EXCEPT ![f] = [form[f] EXCEPT !.at = a]]
      OBVIOUS
<1>2. [form EXCEPT ![f].at = a, ![f].body = v]
          = [form EXCEPT ![f] = [form[f] EXCEPT !.at = a, !.body = v]]
      BY DEF FormsOK
<1>3. [form EXCEPT ![f].at = a, ![f].found = v]
          = [form EXCEPT ![f] = [form[f] EXCEPT !.at = a, !.found = v]]
      BY DEF FormsOK
<1> QED BY <1>1, <1>2, <1>3

LEMMA CreateOpens ==
    ASSUME FormsOK, NEW f \in Forms, NEW table \in Tables, OpenCreate(f, table)
    PROVE  FormsOK'
BY OneForm, EmptyForm DEF OpenCreate, Opened

LEMMA RowOpens ==
    ASSUME FormsOK, RowsOK, NEW f \in Forms, NEW table \in Tables, NEW op \in {"save", "delete"},
           NEW i \in DOMAIN Rows(table), OpenRow(f, op, table, i)
    PROVE  FormsOK'
<1>1. i \in IdsOf(table) /\ Rows(table)[i] \in RowOf(table)
  <2>1. CASE table = "channel"
        BY <2>1 DEF Rows, RowsOK, IdsOf, RowOf, OpenRow
  <2>2. CASE table = "credential"
        BY <2>2 DEF Rows, RowsOK, IdsOf, RowOf, OpenRow
  <2>3. CASE table = "config"
        BY <2>3 DEF Rows, RowsOK, IdsOf, RowOf, OpenRow
  <2> QED BY <2>1, <2>2, <2>3 DEF Tables
<1> DEFINE y == [at |-> "open", op |-> op, table |-> table, id |-> i,
                 body |-> Prefilled(table, Rows(table)[i]), was |-> Rows(table)[i], found |-> Gone]
<1>2. IsForm(y) /\ Right(y)
      BY <1>1, RowForm
<1>3. form' = [form EXCEPT ![f] = y]
      BY DEF OpenRow, Opened
<1> QED
  <2> HIDE DEF y
  <2> QED BY <1>2, <1>3, OneForm

LEMMA Closes ==
    ASSUME FormsOK, NEW f \in Forms, Close(f) \/ Answered(f)
    PROVE  FormsOK'
BY OneForm, ClosedForm DEF Close, Answered

LEMMA Sends ==
    ASSUME FormsOK, NEW f \in Forms, form[f].at = "open", NEW b \in BodyOf(form[f].table),
           Sent(f, b),
           LET y == [form[f] EXCEPT !.at = "sent", !.body = b]
           IN  (form[f].op = "create" => NoMask(y)) /\ (form[f].op # "delete" => Accepted(y))
    PROVE  FormsOK'
<1> DEFINE y == [form[f] EXCEPT !.at = "sent", !.body = b]
<1>1. IsForm(form[f]) /\ Right(form[f])
      BY DEF FormsOK
<1>2. IsForm(y) /\ Right(y)
      BY <1>1, SentForm
<1>3. form' = [form EXCEPT ![f] = y]
      BY Inside DEF Sent
<1> QED
  <2> HIDE DEF y
  <2> QED BY <1>2, <1>3, OneForm

\* Each form's fields are sent with what the form and the schema allow.
LEMMA Submits ==
    ASSUME FormsOK, RowsOK, NEW f \in Forms, Submit(f)
    PROVE  FormsOK'
<1> DEFINE x == form[f]
           y(b) == [x EXCEPT !.at = "sent", !.body = b]
<1>1. IsForm(x) /\ Right(x)
      BY DEF FormsOK
<1>2. x.at = "open" /\ OpenedRight(x)
      BY <1>1 DEF Submit, SubmitChannel, SubmitCredential, SubmitConfig, ConfirmDelete, Filling,
                  Right, Closed
<1>3. ASSUME NEW b
      PROVE  /\ y(b).op = x.op /\ y(b).table = x.table /\ y(b).body = b /\ y(b).was = x.was
      BY <1>1, Fields DEF Form
<1>4. CASE SubmitChannel(f)
  <2>1. PICK ty \in TypeChoices(x), s \in SecretChoices(x) :
            ChannelAccepted(x.op, [type |-> ty, secret |-> s]) /\ Sent(f, [type |-> ty, secret |-> s])
        BY <1>4 DEF SubmitChannel
  <2> DEFINE b == [type |-> ty, secret |-> s]
  <2>2. /\ x.table = "channel" /\ x.op # "delete"
        /\ x.body \in [type : Types, secret : Secrets \cup {Blank, Mask}]
        BY <1>2, <1>4 DEF SubmitChannel, Filling, OpenedRight, BodyOf
  <2>3. b \in BodyOf(x.table)
        BY <2>1, <2>2 DEF BodyOf, TypeChoices, SecretChoices
  <2>4. x.op = "create" => b.secret # Mask
        BY <1>2, <2>1, <2>2, Literals DEF SecretChoices, OpenedRight, NoMask
  <2>5. x.op = "create" => NoMask(y(b))
        BY <1>3, <2>2, <2>4 DEF NoMask
  <2>6. Accepted(y(b))
        BY <1>3, <2>1, <2>2 DEF Accepted
  <2>7. Sent(f, b)
        BY <2>1
  <2> HIDE DEF b
  <2> QED BY <1>2, <2>3, <2>5, <2>6, <2>7, Sends
<1>5. CASE SubmitCredential(f)
  <2>1. PICK fp \in FingerprintChoices(x), k \in KeyChoices(x) :
            LET b == [fingerprint |-> fp, key |-> k] IN
            CredentialAccepted(x.op, b) /\ RightPair(x, b) /\ Sent(f, b)
        BY <1>5 DEF SubmitCredential
  <2> DEFINE b == [fingerprint |-> fp, key |-> k]
  <2>2. x.table = "credential" /\ x.op # "delete" /\ x.body \in BodyOf("credential")
        BY <1>2, <1>5 DEF SubmitCredential, Filling, OpenedRight
  <2>3. b \in BodyOf(x.table)
        BY <2>1, <2>2 DEF BodyOf, FingerprintChoices, KeyChoices
  <2>4. x.op = "create" => b.fingerprint # Mask
        BY <1>2, <2>1, <2>2, Literals DEF FingerprintChoices, OpenedRight, NoMask
  <2>5. x.op = "create" => NoMask(y(b))
        BY <1>3, <2>2, <2>4 DEF NoMask
  <2>6. Accepted(y(b))
        BY <1>3, <2>1, <2>2 DEF Accepted, RightPair
  <2>7. Sent(f, b)
        BY <2>1
  <2> HIDE DEF b
  <2> QED BY <1>2, <2>3, <2>5, <2>6, <2>7, Sends
<1>6. CASE SubmitConfig(f)
  <2>1. PICK i \in CredentialChoices(x), m \in ImageChoices(x), linked \in ChannelChoices(x) :
            LET b == [credential |-> i, image |-> m, channels |-> linked] IN
            ConfigAccepted(b) /\ Sent(f, b)
        BY <1>6 DEF SubmitConfig
  <2> DEFINE b == [credential |-> i, image |-> m, channels |-> linked]
  <2>2. x.table = "config" /\ x.op # "delete" /\ x.body \in BodyOf("config")
        BY <1>2, <1>6 DEF SubmitConfig, Filling, OpenedRight
  <2>3. b \in BodyOf(x.table)
    <3>1. x.body \in [credential : 0..MaxCredential, image : Images \cup {Blank},
                      channels : SUBSET ChannelIds]
          BY <2>2 DEF BodyOf
    <3>2. Existing(credentials) \subseteq 0..MaxCredential /\ Existing(channels) \subseteq ChannelIds
          BY DEF Existing, RowsOK, CredentialIds
    <3>3. i \in 0..MaxCredential /\ m \in Images \cup {Blank} /\ linked \in SUBSET ChannelIds
          BY <2>1, <3>1, <3>2 DEF CredentialChoices, ImageChoices, ChannelChoices
    <3> QED BY <2>2, <3>3 DEF BodyOf
  <2>5. x.op = "create" => NoMask(y(b))
        BY <1>3, <2>2 DEF NoMask
  <2>6. Accepted(y(b))
        BY <1>3, <2>1, <2>2 DEF Accepted
  <2>7. Sent(f, b)
        BY <2>1
  <2> HIDE DEF b
  <2> QED BY <1>2, <2>3, <2>5, <2>6, <2>7, Sends
<1>7. CASE ConfirmDelete(f)
  <2>1. x.op = "delete" /\ Sent(f, x.body) /\ x.body \in BodyOf(x.table)
        BY <1>2, <1>7 DEF ConfirmDelete, OpenedRight
  <2> QED BY <1>2, <2>1, Sends
<1> QED BY <1>4, <1>5, <1>6, <1>7 DEF Submit

\* A request fails, or its handler has read what it needs or is done.
LEMMA Moves ==
    ASSUME FormsOK, NEW f \in Forms, form[f].at \in {"sent", "found", "linked", "done"},
           \/ form' = [form EXCEPT ![f].at = "done"]
           \/ form' = [form EXCEPT ![f].at = "open", ![f].found = Gone]
           \/ \E a \in {"found", "linked"} : \E v :
                 /\ form' = [form EXCEPT ![f].at = a, ![f].found = v]
                 /\ form[f].op = "save" => v \in RowOf(form[f].table)
    PROVE  FormsOK'
<1>1. IsForm(form[f]) /\ Right(form[f])
      BY DEF FormsOK
<1>2. CASE form' = [form EXCEPT ![f].at = "done"]
  <2> DEFINE y == [form[f] EXCEPT !.at = "done"]
  <2>1. IsForm(y) /\ Right(y)
        BY <1>1, MovedForm
  <2>2. form' = [form EXCEPT ![f] = y]
        BY <1>2, Inside
  <2> HIDE DEF y
  <2> QED BY <2>1, <2>2, OneForm
<1>3. CASE form' = [form EXCEPT ![f].at = "open", ![f].found = Gone]
  <2> DEFINE y == [form[f] EXCEPT !.at = "open", !.found = Gone]
  <2>1. IsForm(y) /\ Right(y)
        BY <1>1, MovedForm
  <2>2. form' = [form EXCEPT ![f] = y]
        BY <1>3, Inside
  <2> HIDE DEF y
  <2> QED BY <2>1, <2>2, OneForm
<1>4. ASSUME NEW a \in {"found", "linked"}, NEW v,
             form' = [form EXCEPT ![f].at = a, ![f].found = v],
             form[f].op = "save" => v \in RowOf(form[f].table)
      PROVE  FormsOK'
  <2> DEFINE y == [form[f] EXCEPT !.at = a, !.found = v]
  <2>1. IsForm(y) /\ Right(y)
        BY <1>1, <1>4, MovedForm
  <2>2. [form EXCEPT ![f].at = a, ![f].found = v] = [form EXCEPT ![f] = y]
        BY Inside
  <2> HIDE DEF y
  <2>3. form' = [form EXCEPT ![f] = y]
        BY <1>4, <2>2
  <2> QED BY <2>1, <2>3, OneForm
<1> QED BY <1>2, <1>3, <1>4

\* The steps that are not a handler's leave every row alone.
Quiet(f) ==
    \/ \E table \in Tables :
          \/ OpenCreate(f, table)
          \/ \E op \in {"save", "delete"}, i \in DOMAIN Rows(table) : OpenRow(f, op, table, i)
    \/ Close(f) \/ Submit(f) \/ Answered(f) \/ Failed(f)

LEMMA QuietForms ==
    ASSUME FormsOK, RowsOK, NEW f \in Forms, Quiet(f)
    PROVE  FormsOK' /\ UNCHANGED <<tables, saved, mixed>>
<1>1. FormsOK'
      BY CreateOpens, RowOpens, Closes, Submits, Moves DEF Quiet, Failed
<1>2. UNCHANGED <<tables, saved, mixed>>
      BY DEF Quiet, OpenCreate, OpenRow, Opened, Close, Submit, SubmitChannel, SubmitCredential,
             SubmitConfig, ConfirmDelete, Sent, Answered, Failed
<1> QED BY <1>1, <1>2

\* What the request of a form is, by its place and its table.
LEMMA Request ==
    ASSUME FormsOK, NEW f \in Forms, form[f].at \in {"sent", "found", "linked"}
    PROVE  /\ form[f].id \in Nat /\ form[f].body \in BodyOf(form[f].table)
           /\ form[f].op = "create" => NoMask(form[f])
           /\ form[f].op # "create" => /\ form[f].id \in IdsOf(form[f].table)
                                       /\ form[f].was \in RowOf(form[f].table)
           /\ form[f].op # "delete" => Accepted(form[f])
           /\ form[f].at \in {"found", "linked"} /\ form[f].op = "save"
                  => form[f].found \in RowOf(form[f].table)
BY DEF FormsOK, Right, OpenedRight, Closed

LEMMA LinksLoaded ==
    ASSUME FormsOK, RowsOK, NEW f \in Forms, LoadLinks(f)
    PROVE  FormsOK'
<1> DEFINE x == form[f]
           v == [x.found EXCEPT !.channels = LinksOf(configs[x.id])]
<1>1. x.at = "found" /\ x.op = "save" /\ x.table = "config"
      BY DEF LoadLinks, Handles
<1>2. x.id \in ConfigIds /\ x.found \in Config
      BY <1>1, Request DEF IdsOf, RowOf
<1>3. LinksOf(configs[x.id]) \subseteq ChannelIds
      BY <1>2 DEF LinksOf, RowsOK, Config
<1>4. v \in RowOf(x.table)
      BY <1>1, <1>2, <1>3 DEF Config, RowOf
<1>5. form' = [form EXCEPT ![f].at = "linked", ![f].found = v]
      BY DEF LoadLinks
<1> HIDE DEF v
<1> QED BY <1>1, <1>4, <1>5, Moves

LEMMA HandledForms ==
    ASSUME FormsOK, RowsOK, NEW f \in Forms, Handle(f)
    PROVE  FormsOK'
<1>1. CASE FindChannel(f)
  <2>1. channels[form[f].id] \in Channel
        BY <1>1, Request DEF FindChannel, Handles, RowsOK, IdsOf
  <2> QED BY <1>1, <2>1, Moves DEF FindChannel, Found, Handles, RowOf
<1>2. CASE FindConfig(f)
  <2>1. form[f].op = "save" => configs[form[f].id] \in Config
        BY <1>2, Request DEF FindConfig, Handles, RowsOK, IdsOf
  <2> QED BY <1>2, <2>1, Moves DEF FindConfig, Found, Handles, RowOf
<1>3. CASE \/ SaveChannel(f) \/ DeleteChannel(f) \/ SaveCredential(f) \/ DeleteCredential(f)
           \/ SaveConfig(f) \/ DeleteConfig(f)
      BY <1>3, Moves DEF SaveChannel, DeleteChannel, SaveCredential, DeleteCredential, SaveConfig,
                         DeleteConfig, Handles, Done
<1>4. CASE \/ \E i \in ChannelIds : CreateChannel(f, i)
           \/ \E i \in CredentialIds : CreateCredential(f, i)
           \/ \E i \in ConfigIds : CreateConfig(f, i)
      BY <1>4, Moves DEF CreateChannel, CreateCredential, CreateConfig, Handles, Done
<1> QED BY <1>1, <1>2, <1>3, <1>4, LinksLoaded DEF Handle

-----------------------------------------------------------------------------
(* Rows                                                                    *)

Sound ==
    /\ RowsOK /\ HistoryOK
    /\ SecretIsReal /\ KeyMatchesIdentity /\ ReferencesExist /\ SaveIsWhole

LEMMA SoundKept == Sound /\ UNCHANGED <<tables, saved, mixed>> => Sound'
BY DEF Sound, RowsOK, HistoryOK, SecretIsReal, KeyMatchesIdentity, ReferencesExist, SaveIsWhole,
       Existing

\* The history says of one row only what it did not say before.
OnlyOf(p) ==
    /\ mixed' \subseteq mixed \cup {p}
    /\ mixed \ {p} \subseteq mixed'

LEMMA ChannelWritten ==
    ASSUME Sound, NEW i \in ChannelIds, NEW c \in Channel, channels' = [channels EXCEPT ![i] = c],
           UNCHANGED <<credentials, configs, saved>>, OnlyOf(<<"channel", i>>),
           <<"channel", i>> \in mixed' \/ Real(c)
    PROVE  Sound'
<1>1. /\ channels' \in [ChannelIds -> Channel \cup {Gone}]
      /\ channels'[i] = c /\ c # Gone
      /\ \A j \in ChannelIds : j # i => channels'[j] = channels[j]
      /\ Existing(channels) \subseteq Existing(channels')
      BY DEF Sound, RowsOK, Existing
<1>2. RowsOK' /\ HistoryOK'
  <2>1. <<"channel", i>> \in Tables \X Nat
        BY DEF Tables, ChannelIds
  <2> QED BY <1>1, <2>1 DEF Sound, RowsOK, HistoryOK, OnlyOf
<1>3. SecretIsReal'
  <2> SUFFICES ASSUME NEW j \in ChannelIds, channels'[j] # Gone
               PROVE  <<"channel", j>> \in mixed' \/ Real(channels'[j])
      BY <1>1 DEF SecretIsReal, Existing
  <2>1. CASE j = i
        BY <1>1, <2>1
  <2>2. CASE j # i
    <3>1. <<"channel", j>> # <<"channel", i>> /\ j \in Existing(channels)
          BY <1>1, <2>2 DEF Existing, Sound, RowsOK
    <3> QED BY <1>1, <2>2, <3>1 DEF Sound, SecretIsReal, OnlyOf
  <2> QED BY <2>1, <2>2
<1>4. KeyMatchesIdentity' /\ SaveIsWhole'
  <2>1. \A j : <<"credential", j>> # <<"channel", i>> /\ <<"config", j>> # <<"channel", i>>
        OBVIOUS
  <2> QED BY <2>1 DEF Sound, KeyMatchesIdentity, SaveIsWhole, OnlyOf, Existing
<1>5. ReferencesExist'
      BY <1>1 DEF Sound, ReferencesExist, Existing
<1> QED BY <1>2, <1>3, <1>4, <1>5 DEF Sound

LEMMA CredentialWritten ==
    ASSUME Sound, NEW i \in CredentialIds, NEW c \in Credential,
           credentials' = [credentials EXCEPT ![i] = c],
           UNCHANGED <<channels, configs, saved>>, OnlyOf(<<"credential", i>>),
           <<"credential", i>> \in mixed' \/ c.key = c.fingerprint
    PROVE  Sound'
<1>1. /\ credentials' \in [CredentialIds -> Credential \cup {Gone}]
      /\ credentials'[i] = c /\ c # Gone
      /\ \A j \in CredentialIds : j # i => credentials'[j] = credentials[j]
      BY DEF Sound, RowsOK
<1>2. RowsOK' /\ HistoryOK'
  <2>1. <<"credential", i>> \in Tables \X Nat
        BY DEF Tables, CredentialIds
  <2> QED BY <1>1, <2>1 DEF Sound, RowsOK, HistoryOK, OnlyOf
<1>3. KeyMatchesIdentity'
  <2> SUFFICES ASSUME NEW j \in CredentialIds, credentials'[j] # Gone
               PROVE  <<"credential", j>> \in mixed' \/ credentials'[j].key = credentials'[j].fingerprint
      BY <1>1 DEF KeyMatchesIdentity, Existing
  <2>1. CASE j = i
        BY <1>1, <2>1
  <2>2. CASE j # i
    <3>1. <<"credential", j>> # <<"credential", i>> /\ j \in Existing(credentials)
          BY <1>1, <2>2 DEF Existing, Sound, RowsOK
    <3> QED BY <1>1, <2>2, <3>1 DEF Sound, KeyMatchesIdentity, OnlyOf
  <2> QED BY <2>1, <2>2
<1>4. SecretIsReal' /\ SaveIsWhole'
  <2>1. \A j : <<"channel", j>> # <<"credential", i>> /\ <<"config", j>> # <<"credential", i>>
        OBVIOUS
  <2> QED BY <2>1 DEF Sound, SecretIsReal, SaveIsWhole, OnlyOf, Existing
<1>5. ReferencesExist'
  <2>1. \A j \in Existing(configs) : configs[j].credential \in CredentialIds
        BY DEF Sound, RowsOK, Existing, Config
  <2> QED BY <1>1, <2>1 DEF Sound, ReferencesExist, Existing
<1> QED BY <1>2, <1>3, <1>4, <1>5 DEF Sound

LEMMA ConfigWritten ==
    ASSUME Sound, NEW i \in ConfigIds, NEW c \in Config, NEW b \in Config,
           configs' = [configs EXCEPT ![i] = c], saved' = [saved EXCEPT ![i] = b],
           UNCHANGED <<channels, credentials>>, OnlyOf(<<"config", i>>),
           credentials[c.credential] # Gone, c.channels \subseteq Existing(channels),
           <<"config", i>> \in mixed' \/ c = b
    PROVE  Sound'
<1>1. /\ configs' \in [ConfigIds -> Config \cup {Gone}] /\ saved' \in [ConfigIds -> Config \cup {Gone}]
      /\ configs'[i] = c /\ c # Gone /\ saved'[i] = b
      /\ \A j \in ConfigIds : j # i => configs'[j] = configs[j] /\ saved'[j] = saved[j]
      BY DEF Sound, RowsOK, HistoryOK
<1>2. RowsOK' /\ HistoryOK'
  <2>1. <<"config", i>> \in Tables \X Nat
        BY DEF Tables, ConfigIds
  <2> QED BY <1>1, <2>1 DEF Sound, RowsOK, HistoryOK, OnlyOf
<1>3. \A j : <<"channel", j>> # <<"config", i>> /\ <<"credential", j>> # <<"config", i>>
      OBVIOUS
<1>4. SecretIsReal' /\ KeyMatchesIdentity'
      BY <1>3 DEF Sound, SecretIsReal, KeyMatchesIdentity, OnlyOf, Existing
<1>5. ASSUME NEW j \in ConfigIds, configs'[j] # Gone
      PROVE  /\ <<"config", j>> \in mixed' \/ configs'[j] = saved'[j]
             /\ credentials[configs'[j].credential] # Gone
             /\ configs'[j].channels \subseteq Existing(channels)
  <2>1. CASE j = i
        BY <1>1, <2>1
  <2>2. CASE j # i
    <3>1. <<"config", j>> # <<"config", i>> /\ j \in Existing(configs)
          BY <1>1, <1>5, <2>2 DEF Existing, Sound, RowsOK
    <3> QED BY <1>1, <2>2, <3>1 DEF Sound, SaveIsWhole, ReferencesExist, OnlyOf
  <2> QED BY <2>1, <2>2
<1>6. Existing(configs)' \subseteq ConfigIds /\ \A j \in Existing(configs)' : configs'[j] # Gone
      BY <1>1 DEF Existing
<1>7. SaveIsWhole'
      BY <1>5, <1>6 DEF SaveIsWhole
<1>8. ReferencesExist'
  <2>1. Existing(channels)' = Existing(channels) /\ credentials' = credentials
        BY DEF Existing
  <2> QED BY <1>5, <1>6, <2>1 DEF ReferencesExist
<1> QED BY <1>2, <1>4, <1>7, <1>8 DEF Sound

-----------------------------------------------------------------------------
(* The handlers                                                            *)

LEMMA ChannelCreated ==
    ASSUME Sound, FormsOK, NEW f \in Forms, NEW i \in ChannelIds, CreateChannel(f, i)
    PROVE  Sound'
<1> DEFINE b == form[f].body
           new == [type |-> b.type, field |-> b.type, secret |-> b.secret]
<1>1. /\ b \in [type : Types, secret : Secrets \cup {Blank, Mask}]
      /\ b.secret # Mask /\ (b.type = "discord" => b.secret # Blank)
      BY Request DEF CreateChannel, Handles, BodyOf, NoMask, Accepted, ChannelAccepted
<1>2. new \in Channel /\ Real(new)
  <2>1. new \in Channel /\ new.type = b.type /\ new.field = b.type /\ new.secret = b.secret
        BY <1>1 DEF Channel
  <2>2. \/ b.secret \in Secrets
        \/ b.type = "ntfy" /\ b.secret = Blank
        BY <1>1 DEF Types
  <2> HIDE DEF new
  <2> QED BY <2>1, <2>2 DEF Real
<1>3. /\ channels' = [channels EXCEPT ![i] = new] /\ OnlyOf(<<"channel", i>>)
      /\ UNCHANGED <<credentials, configs, saved>>
      BY DEF CreateChannel, OnlyOf
<1> HIDE DEF new
<1> QED BY <1>2, <1>3, ChannelWritten

LEMMA ChannelSaved ==
    ASSUME Sound, FormsOK, NEW f \in Forms, SaveChannel(f)
    PROVE  /\ Sound'
           /\ LET i == form[f].id IN
              \/ form[f].body.secret \in Secrets
              \/ channels'[i].secret = channels[i].secret
              \/ <<"channel", i>> \in mixed'
<1> DEFINE i == form[f].id
           b == form[f].body
           c == form[f].found
           row == channels[i]
           new == Rewritten(b, c, row)
           p == <<"channel", i>>
<1>1. /\ i \in ChannelIds /\ c \in Channel /\ row \in Channel
      /\ b \in [type : Types, secret : Secrets \cup {Blank, Mask}]
      BY Request DEF SaveChannel, Handles, BodyOf, IdsOf, RowOf, Sound, RowsOK
<1>2. /\ channels' = [channels EXCEPT ![i] = new]
      /\ UNCHANGED <<credentials, configs, saved>> /\ OnlyOf(p)
      BY DEF SaveChannel, OnlyOf
<1>3. /\ new.type = (IF b.type = c.type THEN row.type ELSE b.type)
      /\ new.field = b.type /\ new.secret = Merged(b, c) /\ new \in Channel
      BY <1>1 DEF Rewritten, Merged, Channel
<1>4. \/ p \in mixed'
      \/ b.secret \in Secrets /\ Real(new)
      \/ new = row /\ Real(row)
  <2>1. CASE b.secret \in Secrets /\ new.type = b.type
    <3>1. new.secret = b.secret
          BY <1>1, <1>3, <2>1, Literals DEF Merged, IsUnchanged
    <3> QED BY <1>3, <2>1, <3>1 DEF Real
  <2>2. CASE ~(b.secret \in Secrets /\ new.type = b.type)
             /\ (new.type # b.type \/ b.type # c.type \/ c # row)
        BY <2>2, Zenon DEF SaveChannel
  <2>3. CASE b.secret \notin Secrets /\ b.type = c.type /\ c = row /\ p \notin mixed
    <3>1. Real(row)
      <4>1. i \in Existing(channels)
            BY <1>1 DEF Existing, Sound, RowsOK
      <4> QED BY <2>3, <4>1 DEF Sound, SecretIsReal
    <3>2. Merged(b, c) = row.secret
          BY <1>1, <2>3, <3>1 DEF Merged, IsUnchanged, Real
    <3>3. new.type = row.type /\ new.field = row.field /\ new.secret = row.secret
          BY <1>3, <2>3, <3>1, <3>2 DEF Real
    <3>4. new = row
          BY <1>1, <1>3, <3>3 DEF Channel
    <3> QED BY <3>1, <3>4
  <2>4. CASE b.secret \notin Secrets /\ b.type = c.type /\ c = row /\ p \in mixed
        BY <2>4 DEF SaveChannel
  <2> HIDE DEF new, p, b, c, row
  <2> QED BY <2>1, <2>2, <2>3, <2>4
<1>5. channels'[i] = new
      BY <1>1, <1>2 DEF Sound, RowsOK
<1>6. Sound'
  <2>1. p \in mixed' \/ Real(new)
        BY <1>4
  <2> HIDE DEF i, new
  <2> QED BY <1>1, <1>2, <1>3, <2>1, ChannelWritten
<1> QED BY <1>4, <1>5, <1>6

LEMMA ChannelDeleted ==
    ASSUME Sound, FormsOK, NEW f \in Forms, DeleteChannel(f)
    PROVE  Sound'
<1> DEFINE i == form[f].id
           Unlinked(c) == IF c = Gone THEN Gone ELSE [c EXCEPT !.channels = @ \ {i}]
<1>1. i \in ChannelIds
      BY Request DEF DeleteChannel, Handles, IdsOf
<1>2. /\ channels' = [channels EXCEPT ![i] = Gone]
      /\ configs' = [j \in ConfigIds |-> Unlinked(configs[j])]
      /\ saved' = [j \in ConfigIds |-> Unlinked(saved[j])]
      /\ UNCHANGED <<credentials, mixed>>
      BY DEF DeleteChannel
<1>3. ASSUME NEW c \in Config
      PROVE  /\ Unlinked(c) \in Config /\ Unlinked(c) # Gone
             /\ Unlinked(c).credential = c.credential /\ Unlinked(c).channels = c.channels \ {i}
      BY DEF Config
<1> HIDE DEF i
<1>4. RowsOK' /\ HistoryOK'
      BY <1>1, <1>2, <1>3 DEF Sound, RowsOK, HistoryOK
<1>5. \A j \in ConfigIds : configs'[j] # Gone => configs[j] \in Config /\ configs'[j] = Unlinked(configs[j])
      BY <1>2 DEF Sound, RowsOK
<1>6. /\ \A j \in ChannelIds : channels'[j] # Gone => channels'[j] = channels[j]
      /\ DOMAIN channels = ChannelIds /\ DOMAIN channels' = ChannelIds
      /\ Existing(channels)' = Existing(channels) \ {i}
      /\ DOMAIN configs = ConfigIds /\ DOMAIN configs' = ConfigIds
      BY <1>1, <1>2 DEF Sound, RowsOK, Existing
<1>7. SecretIsReal'
      BY <1>2, <1>6 DEF Sound, SecretIsReal, Existing
<1>8. KeyMatchesIdentity'
      BY <1>2 DEF Sound, KeyMatchesIdentity, Existing
<1>9. ASSUME NEW j \in ConfigIds, configs'[j] # Gone
      PROVE  /\ <<"config", j>> \in mixed' \/ configs'[j] = saved'[j]
             /\ credentials'[configs'[j].credential] # Gone
             /\ configs'[j].channels \subseteq Existing(channels)'
  <2>1. configs[j] \in Config /\ configs'[j] = Unlinked(configs[j]) /\ saved'[j] = Unlinked(saved[j])
        BY <1>2, <1>5, <1>9
  <2>2. j \in Existing(configs)
        BY <1>6, <2>1 DEF Existing
  <2>3. <<"config", j>> \in mixed' \/ configs'[j] = saved'[j]
        BY <1>2, <2>1, <2>2 DEF Sound, SaveIsWhole
  <2>4. credentials[configs[j].credential] # Gone /\ configs[j].channels \subseteq Existing(channels)
        BY <2>2 DEF Sound, ReferencesExist
  <2>5. /\ configs'[j].credential = configs[j].credential
        /\ configs'[j].channels = configs[j].channels \ {i}
        BY <1>3, <2>1
  <2> HIDE DEF Unlinked
  <2>6. credentials'[configs'[j].credential] # Gone
        BY <1>2, <2>4, <2>5
  <2>7. configs'[j].channels \subseteq Existing(channels)'
        BY <1>6, <2>4, <2>5
  <2> QED BY <2>3, <2>6, <2>7
<1>10. SaveIsWhole' /\ ReferencesExist'
  <2>1. \A j \in Existing(configs)' : j \in ConfigIds /\ configs'[j] # Gone
        BY <1>6 DEF Existing
  <2>2. SaveIsWhole'
        BY <1>9, <2>1 DEF SaveIsWhole
  <2>3. ReferencesExist'
        BY <1>9, <2>1 DEF ReferencesExist
  <2> QED BY <2>2, <2>3
<1> QED BY <1>4, <1>7, <1>8, <1>10 DEF Sound

LEMMA CredentialCreated ==
    ASSUME Sound, FormsOK, NEW f \in Forms, NEW i \in CredentialIds, CreateCredential(f, i)
    PROVE  Sound'
<1> DEFINE b == form[f].body
<1>1. /\ b \in BodyOf("credential") /\ b.fingerprint # Mask
      /\ b.fingerprint # Blank /\ b.key # Blank /\ b.key = b.fingerprint
      BY Request DEF CreateCredential, Handles, NoMask, Accepted, CredentialAccepted, RightPair
<1>2. b \in Credential
      BY <1>1 DEF BodyOf, Credential
<1> QED BY <1>1, <1>2, CredentialWritten DEF CreateCredential, OnlyOf

LEMMA CredentialSaved ==
    ASSUME Sound, FormsOK, NEW f \in Forms, SaveCredential(f)
    PROVE  Sound'
<1> DEFINE i == form[f].id
           b == form[f].body
           was == form[f].was
           c == credentials[i]
           new == [fingerprint |-> Kept(b.fingerprint, c.fingerprint),
                   key |-> IF b.key = Blank THEN c.key ELSE b.key]
<1>1. /\ i \in CredentialIds /\ b \in BodyOf("credential") /\ c \in Credential
      /\ was \in Credential /\ b.fingerprint # Blank /\ RightPair(form[f], b)
      BY Request DEF SaveCredential, Handles, IdsOf, RowOf, Accepted, CredentialAccepted, Sound, RowsOK
<1>2. \/ b.key = Blank /\ b.fingerprint = Mask
      \/ b.key \in Keys /\ b.fingerprint = Mask /\ b.key = was.fingerprint
      \/ b.key \in Keys /\ b.fingerprint \in Keys /\ b.key = b.fingerprint
  <2>1. MaskedFingerprint(was.fingerprint) = Mask
        BY <1>1, Literals DEF MaskedFingerprint, Masked, Credential
  <2>2. /\ b.key = Blank => b.fingerprint = Mask
        /\ b.key # Blank => b.key = IF b.fingerprint = Mask THEN was.fingerprint ELSE b.fingerprint
        BY <1>1, <2>1 DEF RightPair, PrefilledCredential
  <2> QED BY <1>1, <2>2 DEF BodyOf
<1>3. new \in Credential
      BY <1>1, <1>2, Literals DEF Kept, Credential
<1>4. credentials' = [credentials EXCEPT ![i] = new]
      BY DEF SaveCredential
<1>5. OnlyOf(<<"credential", i>>)
      BY DEF SaveCredential, OnlyOf
<1>6. <<"credential", i>> \in mixed' \/ new.key = new.fingerprint
  <2>1. CASE b.key = Blank /\ b.fingerprint = Mask
    <3>1. new.key = c.key /\ new.fingerprint = c.fingerprint /\ mixed' = mixed
          BY <2>1 DEF Kept, SaveCredential
    <3>2. i \in Existing(credentials)
          BY <1>1 DEF Existing, Sound, RowsOK
    <3> QED BY <3>1, <3>2 DEF Sound, KeyMatchesIdentity
  <2>2. CASE b.key \in Keys /\ b.fingerprint = Mask /\ b.key = was.fingerprint
    <3>1. new.key = was.fingerprint /\ new.fingerprint = c.fingerprint
          BY <2>2, Literals DEF Kept
    <3>2. was.fingerprint # c.fingerprint => <<"credential", i>> \in mixed'
          BY <2>2, Literals DEF SaveCredential
    <3> QED BY <3>1, <3>2
  <2>3. CASE b.key \in Keys /\ b.fingerprint \in Keys /\ b.key = b.fingerprint
        BY <2>3, Literals DEF Kept
  <2> QED BY <1>2, <2>1, <2>2, <2>3
<1>7. UNCHANGED <<channels, configs, saved>>
      BY DEF SaveCredential
<1> HIDE DEF i, new
<1> QED BY <1>1, <1>3, <1>4, <1>5, <1>6, <1>7, CredentialWritten

LEMMA CredentialDeleted ==
    ASSUME Sound, FormsOK, NEW f \in Forms, DeleteCredential(f)
    PROVE  Sound'
<1> DEFINE i == form[f].id
<1>1. i \in CredentialIds
      BY Request DEF DeleteCredential, Handles, IdsOf
<1>2. /\ credentials' = [credentials EXCEPT ![i] = Gone]
      /\ UNCHANGED <<channels, configs, saved, mixed>>
      /\ \A j \in Existing(configs) : configs[j].credential # i
      BY DEF DeleteCredential
<1> HIDE DEF i
<1>3. RowsOK' /\ HistoryOK'
      BY <1>1, <1>2 DEF Sound, RowsOK, HistoryOK
<1>4. SecretIsReal' /\ SaveIsWhole'
      BY <1>2 DEF Sound, SecretIsReal, SaveIsWhole, Existing
<1>5. /\ DOMAIN credentials = CredentialIds /\ DOMAIN credentials' = CredentialIds
      /\ \A j \in CredentialIds : credentials'[j] = IF j = i THEN Gone ELSE credentials[j]
      BY <1>2 DEF Sound, RowsOK
<1>6. KeyMatchesIdentity'
      BY <1>2, <1>5 DEF Sound, KeyMatchesIdentity, Existing
<1>7. ReferencesExist'
  <2>1. \A j \in Existing(configs) : configs[j].credential \in CredentialIds
        BY DEF Sound, RowsOK, Existing, Config
  <2> QED BY <1>2, <1>5, <2>1 DEF Sound, ReferencesExist, Existing
<1> QED BY <1>3, <1>4, <1>6, <1>7 DEF Sound

LEMMA ConfigCreated ==
    ASSUME Sound, FormsOK, NEW f \in Forms, NEW i \in ConfigIds, CreateConfig(f, i)
    PROVE  Sound'
<1> DEFINE b == form[f].body
<1>1. b \in BodyOf("config") /\ ConfigAccepted(b)
      BY Request DEF CreateConfig, Handles, Accepted
<1>2. b \in Config
      BY <1>1 DEF BodyOf, ConfigAccepted, Config, CredentialIds
<1> QED BY <1>2, ConfigWritten DEF CreateConfig, ForeignKeysHold, OnlyOf

\* What a save leaves of a row that nobody else has written is what it asked for.
LEMMA ConfigSaved ==
    ASSUME Sound, FormsOK, NEW f \in Forms, SaveConfig(f)
    PROVE  Sound'
<1> DEFINE x == form[f]
           i == x.id
           row == configs[i]
           had == Loaded(x, row)
           new == Updated(x, row)
<1>1. /\ i \in ConfigIds /\ x.body \in Config /\ x.found \in Config /\ row \in Config
      /\ had \subseteq ChannelIds
  <2>1. i \in ConfigIds /\ x.body \in BodyOf("config") /\ ConfigAccepted(x.body) /\ x.found \in Config
        BY Request DEF SaveConfig, Handles, IdsOf, RowOf, Accepted
  <2>2. x.body \in Config
        BY <2>1 DEF BodyOf, ConfigAccepted, Config, CredentialIds
  <2>3. row \in Config
        BY <2>1 DEF SaveConfig, Sound, RowsOK
  <2> QED BY <2>1, <2>2, <2>3 DEF Loaded, Config
<1>2. /\ new.credential = (IF x.body.credential # x.found.credential THEN x.body.credential
                                                                  ELSE row.credential)
      /\ new.image = (IF x.body.image # x.found.image THEN x.body.image ELSE row.image)
      /\ new.channels = (row.channels \ (had \ x.body.channels)) \cup (x.body.channels \ had)
      /\ new \in Config
      BY <1>1 DEF Updated, Config
<1>3. /\ configs' = [configs EXCEPT ![i] = new] /\ saved' = [saved EXCEPT ![i] = x.body]
      /\ UNCHANGED <<channels, credentials>> /\ OnlyOf(<<"config", i>>)
      /\ credentials[new.credential] # Gone
      /\ x.body.channels \ had \subseteq Existing(channels)
      BY DEF SaveConfig, ForeignKeysHold, OnlyOf
<1>4. new.channels \subseteq Existing(channels)
  <2>1. i \in Existing(configs)
        BY <1>1 DEF Existing, Sound, RowsOK
  <2>2. row.channels \subseteq Existing(channels)
        BY <2>1 DEF Sound, ReferencesExist
  <2> QED BY <1>2, <1>3, <2>2
<1>5. <<"config", i>> \in mixed' \/ new = x.body
  <2>1. CASE Overlapped(x, row)
        BY <2>1 DEF SaveConfig
  <2>2. CASE ~Overlapped(x, row)
    <3>1. x.found.credential = row.credential /\ x.found.image = row.image /\ had = row.channels
          BY <2>2 DEF Overlapped
    <3>2. /\ new.credential = x.body.credential /\ new.image = x.body.image
          /\ new.channels = x.body.channels
          BY <1>2, <3>1
    <3>3. new \in Config /\ x.body \in Config
          BY <1>1, <1>2
    <3> HIDE DEF new
    <3> QED BY <3>2, <3>3 DEF Config
  <2> QED BY <2>1, <2>2
<1> HIDE DEF new, i
<1> QED BY <1>1, <1>2, <1>3, <1>4, <1>5, ConfigWritten

LEMMA ConfigDeleted ==
    ASSUME Sound, FormsOK, NEW f \in Forms, DeleteConfig(f)
    PROVE  Sound'
<1> DEFINE i == form[f].id
<1>1. i \in ConfigIds
      BY Request DEF DeleteConfig, Handles, IdsOf
<1>2. /\ configs' = [configs EXCEPT ![i] = Gone] /\ saved' = [saved EXCEPT ![i] = Gone]
      /\ UNCHANGED <<channels, credentials, mixed>>
      BY DEF DeleteConfig
<1> HIDE DEF i
<1>3. RowsOK' /\ HistoryOK'
      BY <1>1, <1>2 DEF Sound, RowsOK, HistoryOK
<1>4. SecretIsReal' /\ KeyMatchesIdentity'
      BY <1>2 DEF Sound, SecretIsReal, KeyMatchesIdentity, Existing
<1>5. /\ DOMAIN configs = ConfigIds /\ DOMAIN configs' = ConfigIds
      /\ \A j \in ConfigIds : /\ configs'[j] = IF j = i THEN Gone ELSE configs[j]
                              /\ saved'[j] = IF j = i THEN Gone ELSE saved[j]
      BY <1>2 DEF Sound, RowsOK, HistoryOK
<1>6. SaveIsWhole'
      BY <1>2, <1>5 DEF Sound, SaveIsWhole, Existing
<1>7. ReferencesExist'
      BY <1>2, <1>5 DEF Sound, ReferencesExist, Existing
<1> QED BY <1>3, <1>4, <1>6, <1>7 DEF Sound

LEMMA HandledSound ==
    ASSUME Sound, FormsOK, NEW f \in Forms, Handle(f)
    PROVE  Sound'
<1>1. CASE FindChannel(f) \/ FindConfig(f) \/ LoadLinks(f)
      BY <1>1, SoundKept DEF FindChannel, FindConfig, LoadLinks, Found
<1>2. CASE SaveChannel(f) \/ DeleteChannel(f) \/ \E i \in ChannelIds : CreateChannel(f, i)
      BY <1>2, ChannelSaved, ChannelDeleted, ChannelCreated
<1>3. CASE SaveCredential(f) \/ DeleteCredential(f) \/ \E i \in CredentialIds : CreateCredential(f, i)
      BY <1>3, CredentialSaved, CredentialDeleted, CredentialCreated
<1>4. CASE SaveConfig(f) \/ DeleteConfig(f) \/ \E i \in ConfigIds : CreateConfig(f, i)
      BY <1>4, ConfigSaved, ConfigDeleted, ConfigCreated
<1> QED BY <1>1, <1>2, <1>3, <1>4 DEF Handle

-----------------------------------------------------------------------------
(* The theorems                                                            *)

\* What the pages hold and send is what their fields and schemas let through, and the
\* rows keep what the handlers are to keep of them.
Consistent == FormsOK /\ Sound /\ requests \in 0..Requests

LEMMA InitConsistent == Init => Consistent
<1> SUFFICES ASSUME Init PROVE Consistent
    OBVIOUS
<1>1. FormsOK
      BY ClosedForm DEF Init, FormsOK
<1>2. PICK ty \in Types, s \in Secrets :
          channels = [i \in ChannelIds |->
                         IF i = 1 THEN [type |-> ty, field |-> ty, secret |-> s] ELSE Gone]
      BY DEF Init
<1>3. PICK k \in Keys :
          credentials = [i \in CredentialIds |->
                            IF i = 1 THEN [fingerprint |-> k, key |-> k] ELSE Gone]
      BY DEF Init
<1>4. PICK m \in Images :
          configs = [i \in ConfigIds |->
                        IF i = 1 THEN [credential |-> 1, image |-> m, channels |-> {1}] ELSE Gone]
      BY DEF Init
<1>5. 1 \in ChannelIds /\ 1 \in CredentialIds /\ 1 \in ConfigIds
      BY DEF ChannelIds, CredentialIds, ConfigIds
<1>6. /\ [type |-> ty, field |-> ty, secret |-> s] \in Channel /\ [fingerprint |-> k, key |-> k] \in Credential
      /\ [credential |-> 1, image |-> m, channels |-> {1}] \in Config
      BY <1>2, <1>3, <1>4, <1>5 DEF Channel, Credential, Config
<1>7. RowsOK /\ HistoryOK
  <2>1. channels \in [ChannelIds -> Channel \cup {Gone}]
        BY <1>2, <1>6
  <2>2. credentials \in [CredentialIds -> Credential \cup {Gone}]
        BY <1>3, <1>6
  <2>3. configs \in [ConfigIds -> Config \cup {Gone}] /\ saved = configs /\ mixed = {}
        BY <1>4, <1>6 DEF Init
  <2> QED BY <2>1, <2>2, <2>3 DEF RowsOK, HistoryOK
<1>8. SecretIsReal
  <2>1. ASSUME NEW i \in Existing(channels) PROVE Real(channels[i])
    <3>1. channels[i] = [type |-> ty, field |-> ty, secret |-> s]
          BY <1>2, <2>1 DEF Existing
    <3>2. channels[i].field = channels[i].type /\ channels[i].secret \in Secrets
          BY <3>1
    <3> QED BY <3>2 DEF Real
  <2> QED BY <2>1 DEF SecretIsReal
<1>9. KeyMatchesIdentity
      BY <1>3 DEF KeyMatchesIdentity, Existing
<1>10. ReferencesExist
  <2>1. 1 \in Existing(channels) /\ credentials[1] # Gone
        BY <1>2, <1>3, <1>5, <1>6 DEF Existing
  <2>2. \A i \in Existing(configs) : configs[i].credential = 1 /\ configs[i].channels = {1}
        BY <1>4 DEF Existing
  <2> QED BY <2>1, <2>2 DEF ReferencesExist
<1>11. SaveIsWhole /\ requests \in 0..Requests
  <2>1. saved = configs /\ requests = 0
        BY DEF Init
  <2> QED BY <2>1 DEF SaveIsWhole
<1> QED BY <1>1, <1>7, <1>8, <1>9, <1>10, <1>11 DEF Consistent, Sound

LEMMA NextConsistent == Consistent /\ [Next]_vars => Consistent'
<1> SUFFICES ASSUME Consistent, [Next]_vars PROVE Consistent'
    OBVIOUS
<1>1. FormsOK /\ Sound /\ RowsOK /\ requests \in 0..Requests
      BY DEF Consistent, Sound
<1>2. ASSUME NEW f \in Forms, Quiet(f) PROVE Consistent'
  <2>1. FormsOK' /\ Sound'
        BY <1>1, <1>2, QuietForms, SoundKept
  <2>2. requests' = requests \/ (requests < Requests /\ requests' = requests + 1)
        BY <1>2 DEF Quiet, OpenCreate, OpenRow, Opened, Close, Submit, SubmitChannel,
              SubmitCredential, SubmitConfig, ConfirmDelete, Sent, Answered, Failed
  <2>3. requests' \in 0..Requests
        BY <1>1, <2>2
  <2> QED BY <2>1, <2>3 DEF Consistent
<1>3. ASSUME NEW f \in Forms, Handle(f) PROVE Consistent'
  <2>1. FormsOK' /\ Sound'
        BY <1>1, <1>3, HandledForms, HandledSound
  <2>2. requests' = requests
        BY <1>3 DEF Handle, FindChannel, SaveChannel, DeleteChannel, SaveCredential,
              DeleteCredential, FindConfig, LoadLinks, SaveConfig, DeleteConfig, CreateChannel,
              CreateCredential, CreateConfig, Found, Done
  <2> QED BY <1>1, <2>1, <2>2 DEF Consistent
<1>4. CASE UNCHANGED vars
  <2>1. Sound'
        BY <1>1, <1>4, SoundKept DEF vars
  <2>2. FormsOK'
        BY <1>1, <1>4 DEF vars, FormsOK
  <2> QED BY <1>1, <1>4, <2>1, <2>2 DEF Consistent, vars
<1>5. Next => \E f \in Forms : Quiet(f) \/ Handle(f)
      BY DEF Next, Quiet, Tables
<1> QED BY <1>2, <1>3, <1>4, <1>5

\* Every reachable state is consistent: the forms' requests are what the schemas
\* let through, and the rows keep what each save has promised them.
THEOREM AlwaysConsistent == Spec => []Consistent
BY InitConsistent, NextConsistent, PTL DEF Spec

\* Rows, forms and what is told of them keep their types, whatever the schemas let
\* through (schemas/channel.py, schemas/credential.py, schemas/config.py).
THEOREM TypeCorrect == Spec => []TypeOK
<1>1. Consistent => TypeOK
      BY TypesFollow DEF Consistent, Sound
<1> QED BY AlwaysConsistent, <1>1, PTL

\* No mask, no blank where a secret is required and no config of another type is ever what
\* a channel has, whatever forms were open while rows were saved, deleted and made again,
\* but for the rows that mixed names: those saved over a channel of another type with
\* nothing typed, or by a save that another write overlapped (_merge_kept_secrets and
\* update_channel of api/channels.py).
THEOREM SecretsReal == Spec => []SecretIsReal
<1>1. Consistent => SecretIsReal
      BY DEF Consistent, Sound
<1> QED BY AlwaysConsistent, <1>1, PTL

\* A credential's key stays that of its fingerprint, but for a key uploaded alone for
\* a fingerprint replaced since (update_credential of api/credentials.py).
THEOREM KeysMatch == Spec => []KeyMatchesIdentity
<1>1. Consistent => KeyMatchesIdentity
      BY DEF Consistent, Sound
<1> QED BY AlwaysConsistent, <1>1, PTL

\* A config never refers to a channel or credential that is gone, in whatever order it
\* is saved and they are deleted (api/configs.py, the foreign keys).
THEOREM NoDanglingReference == Spec => []ReferencesExist
<1>1. Consistent => ReferencesExist
      BY DEF Consistent, Sound
<1> QED BY AlwaysConsistent, <1>1, PTL

\* A config is as one save asked for in all its fields and links, unless that save
\* overlapped another write of the config (update_config).
THEOREM SavesWhole == Spec => []SaveIsWhole
<1>1. Consistent => SaveIsWhole
      BY DEF Consistent, Sound
<1> QED BY AlwaysConsistent, <1>1, PTL

\* A save in which no secret was typed leaves the stored one alone, or its row is one of
\* those that mixed names: the stored config had no secret of the form's type, or had
\* changed since it was read.
THEOREM SecretsKept == Spec => UntypedSecretKept
<1> DEFINE Kept1 == \A f \in Forms : SaveChannel(f) =>
              LET i == form[f].id IN
              \/ form[f].body.secret \in Secrets
              \/ channels'[i].secret = channels[i].secret
              \/ <<"channel", i>> \in mixed'
<1>1. Consistent /\ [Next]_vars => [Kept1]_vars
      BY ChannelSaved DEF Consistent
<1>2. Spec => [][Kept1]_vars
      BY AlwaysConsistent, <1>1, PTL DEF Spec
<1> QED BY <1>2 DEF UntypedSecretKept
=============================================================================
