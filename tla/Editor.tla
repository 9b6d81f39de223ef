------------------------------- MODULE Editor -------------------------------
(***************************************************************************)
(* The device list and the editor: what is typed, how it is read            *)
(* (parse_endpoint, save, validate), what is stored, and what the form and  *)
(* the list show of it.  The repository is taken as it presents itself to   *)
(* these callbacks: update() commits the whole change or fails.             *)
(*                                                                          *)
(* A text is modelled by what its readers tell apart.  Host names with      *)
(* brackets in them resolve nowhere and are left out.  A callback whose     *)
(* reading or update fails changes nothing but the message it shows.        *)
(***************************************************************************)
EXTENDS Naturals, Sequences

CONSTANTS
  Ids,       \* ProfileId
  Names,     \* servers known by name or IPv4 address
  V6,        \* servers known by IPv6 address: their host text holds colons
  NoText     \* an empty field, None

DefaultPort == 3389
Ports == {0, DefaultPort, 3390}
NotANumber == 65536   \* a port field that is no u16

Hosts == Names \cup V6
BadHost == "spaces, slashes or colons"

\* An empty field is no host, port, domain or device.
ASSUME NoTextAssumption ==
  NoText \notin Hosts \cup Ids \cup {BadHost, "domain"} /\ NoText \notin Ports \cup {NotANumber}
ASSUME HostsAssumption == BadHost \notin Hosts

\* host, [host], host:port or [host]:port.  An IPv6 address that is followed by
\* a port without brackets is the text of another address.
HostTexts ==
  {t \in [host : Hosts \cup {BadHost, NoText}, bracketed : BOOLEAN, port : Ports \cup {NoText}] :
     t.host \in V6 /\ ~ t.bracketed => t.port = NoText}

\* The user field, cut at its backslashes.
Users == {<<>>, <<"user">>, <<"domain", "user">>}

\* The password a user types in the editor of a device is that device's.
Passwords == Ids \cup {NoText}

DeviceRecords ==
  [host : Hosts, port : Ports \ {0}, domain : {NoText, "domain"}, username : {<<"user">>},
   favorite : BOOLEAN, remember : BOOLEAN, password : Passwords]

NoDevice == [host |-> NoText, port |-> DefaultPort, domain |-> NoText, username |-> <<>>,
             favorite |-> FALSE, remember |-> FALSE, password |-> NoText]

VARIABLES
  devices,        \* the catalogue: a function from the ids in it
  page,           \* list, editor, session or settings
  draft,          \* AppModel.draft, the device save() will write
  shown,          \* the device whose fields the form shows
  passwordField,  \* MainWindow.password
  rows,           \* the rows of the list
  favoritesOnly, search,   \* the filters: search is a host, or NoText
  ownPassword     \* history: every launch was given the password of its device

editorVars == <<devices, page, draft, shown, passwordField, rows, favoritesOnly, search, ownPassword>>

Row(id, device) == [id |-> id, host |-> device.host, port |-> device.port,
                    favorite |-> device.favorite]

EditorTypeOK ==
  /\ DOMAIN devices \subseteq Ids /\ \A id \in DOMAIN devices : devices[id] \in DeviceRecords
  /\ page \in {"list", "editor", "session", "settings"}
  /\ draft \in Ids \cup {NoText} /\ shown \in Ids \cup {NoText}
  /\ passwordField \in Passwords
  /\ rows \subseteq {Row(id, d) : id \in Ids, d \in DeviceRecords}
  /\ favoritesOnly \in BOOLEAN /\ search \in Hosts \cup {NoText}
  /\ ownPassword \in BOOLEAN

EditorInit ==
  /\ devices = [id \in {} |-> NoDevice]
  /\ page = "list" /\ draft = NoText /\ shown = NoText /\ passwordField = NoText
  /\ rows = {} /\ favoritesOnly = FALSE /\ search = NoText
  /\ ownPassword = TRUE

-----------------------------------------------------------------------------
(* Reading the fields.                                                     *)

Failure == [ok |-> FALSE]
Success(value) == [ok |-> TRUE, value |-> value]

\* parse_endpoint(), with validate_endpoint_host() and parse_endpoint_port().
ParseEndpoint(text) ==
  IF text.host \in {BadHost, NoText} \/ text.port = 0
    THEN Failure
    ELSE Success([host |-> text.host,
                  port |-> IF text.port = NoText THEN DefaultPort ELSE text.port])

MutantPortOf(field, inline) == inline

\* The port field counts unless it shows the default.
PortOf(field, inline) == IF field = DefaultPort THEN inline ELSE field

\* split_once at the first backslash.
Domain(user) == IF Len(user) > 1 THEN Head(user) ELSE NoText
Username(user) == IF Len(user) > 1 THEN Tail(user) ELSE user

\* ConnectionProfile::validate() for what save() has read.  A desktop size that
\* is refused is one more way to fail, taken in Save.
Valid(device) == device.host \in Hosts /\ device.port # 0 /\ device.username # <<>>

\* save(), up to the update: form holds the host, port and user fields and the
\* checkbox; a password is kept only if the user asked for it.
Read(form, password, favorite) ==
  LET endpoint == ParseEndpoint(form.host) IN
  IF ~ endpoint.ok \/ form.port = NotANumber
    THEN Failure
    ELSE LET device == [host |-> endpoint.value.host,
                        port |-> PortOf(form.port, endpoint.value.port),
                        domain |-> Domain(form.user), username |-> Username(form.user),
                        favorite |-> favorite, remember |-> form.remember,
                        password |-> IF form.remember THEN password ELSE NoText] IN
         IF Valid(device) THEN Success(device) ELSE Failure

\* The texts the user may leave in the fields.
Forms == [host : HostTexts, port : Ports \cup {NotANumber}, user : Users, remember : BOOLEAN]

\* The devices save() can read from the fields.
Readings ==
  [password \in Passwords |-> [favorite \in BOOLEAN |->
     {result.value : result \in {r \in {Read(form, password, favorite) : form \in Forms} : r.ok}}]]

\* edit(): the fields of a device, the host without brackets.
FormOf(device) ==
  [host |-> [host |-> device.host, bracketed |-> FALSE, port |-> NoText],
   port |-> device.port,
   user |-> IF device.domain = NoText THEN device.username ELSE <<device.domain>> \o device.username,
   remember |-> device.remember]

-----------------------------------------------------------------------------
(* The callbacks.                                                          *)

\* refresh(): search looks at the name and the user of a device as well.
RowsOf(catalog, favorites, text) ==
  {Row(id, catalog[id]) :
     id \in {i \in DOMAIN catalog : /\ favorites => catalog[i].favorite
                                    /\ text = NoText \/ catalog[i].host = text}}

\* update() succeeds; refresh() follows.
Commit(catalog) ==
  /\ devices' = catalog
  /\ rows' = RowsOf(catalog, favoritesOnly, search)

MutantOpenEditor(id, device) ==
  /\ page' = "editor" /\ shown' = id /\ passwordField' = device.password
  /\ draft' = IF device = NoDevice /\ draft # NoText THEN draft ELSE id

\* edit(), for a new device or one of the list.
OpenEditor(id, device) ==
  /\ page' = "editor" /\ shown' = id /\ passwordField' = device.password
  /\ draft' = id

NewDevice ==
  /\ page = "list"
  /\ \E id \in Ids \ DOMAIN devices : OpenEditor(id, NoDevice)
  /\ UNCHANGED <<devices, rows, favoritesOnly, search, ownPassword>>

EditDevice(id) ==
  /\ page = "list"
  /\ OpenEditor(id, devices[id])
  /\ UNCHANGED <<devices, rows, favoritesOnly, search, ownPassword>>

LeaveEditor ==
  /\ page = "editor"
  /\ page' = "list" /\ passwordField' = NoText
  /\ UNCHANGED <<devices, draft, shown, rows, favoritesOnly, search, ownPassword>>

TypePassword ==
  /\ page = "editor"
  /\ passwordField' \in {NoText, shown}
  /\ UNCHANGED <<devices, page, draft, shown, rows, favoritesOnly, search, ownPassword>>

Favorite(id) == id \in DOMAIN devices /\ devices[id].favorite

With(catalog, id, device) ==
  [i \in DOMAIN catalog \cup {id} |-> IF i = id THEN device ELSE catalog[i]]

\* launch() that succeeds shows the session and empties the field.
Launch(id, password) ==
  /\ page' = "session" /\ passwordField' = NoText
  /\ ownPassword' = (ownPassword /\ password = id)

\* on_save_device(false)
Save ==
  /\ page = "editor"
  /\ \E device \in Readings[passwordField][Favorite(draft)] : Commit(With(devices, draft, device))
  /\ page' = "list" /\ passwordField' = NoText
  /\ UNCHANGED <<draft, shown, favoritesOnly, search, ownPassword>>

\* on_save_device(true): the thread of the session may not start, and the
\* editor stays, with the device saved.
SaveAndConnect ==
  /\ page = "editor" /\ passwordField # NoText
  /\ \E device \in Readings[passwordField][Favorite(draft)] : Commit(With(devices, draft, device))
  /\ \/ Launch(draft, passwordField)
     \/ UNCHANGED <<page, passwordField, ownPassword>>
  /\ UNCHANGED <<draft, shown, favoritesOnly, search>>

\* on_connect_device: with no password stored, the editor asks for one.
ConnectDevice(id) ==
  /\ page = "list"
  /\ IF devices[id].password # NoText
       THEN Launch(id, devices[id].password) /\ UNCHANGED <<draft, shown>>
       ELSE OpenEditor(id, devices[id]) /\ UNCHANGED ownPassword
  /\ UNCHANGED <<devices, rows, favoritesOnly, search>>

ToggleFavorite(id) ==
  /\ page = "list"
  /\ Commit([devices EXCEPT ![id].favorite = ~ @])
  /\ UNCHANGED <<page, draft, shown, passwordField, favoritesOnly, search, ownPassword>>

DeleteDevice(id) ==
  /\ page = "list"
  /\ Commit([i \in DOMAIN devices \ {id} |-> devices[i]])
  /\ UNCHANGED <<page, draft, shown, passwordField, favoritesOnly, search, ownPassword>>

MutantRowsAfterFilter(favorites, text) == rows

\* on_filter_changed
RowsAfterFilter(favorites, text) == RowsOf(devices, favorites, text)

\* navigate(): the settings page leaves the filters as they are.
Navigate(target) ==
  /\ page \in {"list", "settings"}
  /\ IF target = "settings"
       THEN page' = "settings" /\ UNCHANGED <<favoritesOnly, rows>>
       ELSE /\ page' = "list" /\ favoritesOnly' = (target = "favorites")
            /\ rows' = RowsAfterFilter(favoritesOnly', search)
  /\ UNCHANGED <<devices, draft, shown, passwordField, search, ownPassword>>

Search(text) ==
  /\ page = "list"
  /\ search' = text
  /\ rows' = RowsAfterFilter(favoritesOnly, text)
  /\ UNCHANGED <<devices, page, draft, shown, passwordField, favoritesOnly, ownPassword>>

\* stop()
Stop ==
  /\ page = "session"
  /\ page' = "list" /\ passwordField' = NoText
  /\ rows' = RowsOf(devices, favoritesOnly, search)
  /\ UNCHANGED <<devices, draft, shown, favoritesOnly, search, ownPassword>>

EditorNext ==
  \/ NewDevice \/ TypePassword \/ LeaveEditor \/ Save \/ SaveAndConnect
  \/ \E id \in DOMAIN devices :
       EditDevice(id) \/ ConnectDevice(id) \/ ToggleFavorite(id) \/ DeleteDevice(id)
  \/ Stop
  \/ \E target \in {"all", "favorites", "settings"} : Navigate(target)
  \/ \E text \in Hosts \cup {NoText} : Search(text)

EditorSpec == EditorInit /\ [][EditorNext]_editorVars

-----------------------------------------------------------------------------
(* Properties.                                                             *)

\* A stored device can be opened and saved again, and stays what it is: what
\* edit() writes into the fields, save() reads back.
ReopenKeepsDevice ==
  \A id \in DOMAIN devices :
    LET d == devices[id] IN Read(FormOf(d), d.password, d.favorite) = Success(d)

\* A password is stored for, and sent to, the device whose form it was typed in,
\* though save() writes the device that another variable names; the field all
\* editors share holds one only while the form of its device is shown.
OwnPassword ==
  /\ \A id \in DOMAIN devices : devices[id].password \in {id, NoText}
  /\ ownPassword
  /\ passwordField # NoText => page = "editor" /\ passwordField = shown

\* The list shows the catalogue as it is, under the filters as they are.
ListIsCurrent == page = "list" => rows = RowsOf(devices, favoritesOnly, search)

=============================================================================
