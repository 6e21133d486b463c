------------------------------ MODULE Settings ------------------------------
(***************************************************************************)
(* Session settings: the properties of AppController that                  *)
(* SettingsDialog.qml edits, the store they are saved in (QSettings),      *)
(* Impl::settings in the engine, and the settings of libtorrent's session. *)
(*                                                                         *)
(* Saving takes three steps of the UI thread: the store, Impl::settings,   *)
(* libtorrent's session; the process may be killed between any two.  The   *)
(* worker reads Impl::settings without a lock when it sets the upload      *)
(* limit of a torrent.  Writing the store is atomic (QSettings).           *)
(*                                                                         *)
(* enable_dht stands for the four switches of its kind, appearance_mode    *)
(* for the accent colour as well, proxy_host for the user name and the     *)
(* password, which travel with it.                                         *)
(***************************************************************************)
EXTENDS Integers

CONSTANTS
    Kbps,       \* rate limits the user enters (at most 102400: in bytes they are an int)
    Port,       \* ports the user enters
    Host,       \* proxy hosts
    NoHost,     \* the empty host
    Blank,      \* a host of spaces
    MaxEdits    \* bound: values entered

ASSUME KbpsAssumption == Kbps \subseteq Nat
ASSUME PortAssumption == Port \subseteq 1 .. 65535
ASSUME HostAssumption == NoHost \notin Host /\ Blank \notin Host /\ Blank # NoHost
ASSUME EditsAssumption == MaxEdits \in Nat

VARIABLES
    app,           \* the process runs
    sheet,         \* the settings sheet is open
    ui,            \* where the UI thread is in applySessionSettings
    props,         \* AppController's properties
    store,         \* QSettings
    settings,      \* Impl::settings
    session,       \* the settings of libtorrent's session
    session_file,  \* those in session.dat
    reading,       \* the upload_rate_limit the worker has read and not yet used
    limit,         \* the upload limit of a torrent
    edits,         \* values entered
    edited,        \* the properties edited since the sheet was opened
    saved          \* every upload limit the store has had

vars == <<app, sheet, ui, props, store, settings, session, session_file, reading, limit, edits, edited, saved>>

Hosts == Host \cup {NoHost, Blank}

ListenPort == 1024 .. 65535

Types == 0 .. 2
kProxyTypeNone == 0

Properties ==
    [download : Kbps \cup {0}, upload : Kbps \cup {0}, listen_port : ListenPort, enable_dht : BOOLEAN,
     proxy_enabled : BOOLEAN, proxy_type : Types, proxy_host : Hosts, proxy_port : ListenPort,
     appearance_mode : 0 .. 2]

Field == {"download", "upload", "listen_port", "enable_dht", "proxy_enabled", "proxy_type", "proxy_host",
          "proxy_port", "appearance_mode"}

Rate == {1024 * k : k \in Kbps \cup {0}}

SessionSettings ==
    [download_rate_limit : Rate, upload_rate_limit : Rate, listen_port : ListenPort, enable_dht : BOOLEAN,
     proxy_type : Types, proxy_host : Host \cup {NoHost}, proxy_port : ListenPort]

Unlimited == -1
StoppedLimit == 1
NotReading == -1

TypeOK ==
    /\ app \in BOOLEAN /\ sheet \in BOOLEAN
    /\ ui \in {"free", "stored", "assigned"}
    /\ props \in Properties /\ store \in Properties
    /\ settings \in SessionSettings
    /\ session \in SessionSettings /\ session_file \in SessionSettings
    /\ reading \in Rate \cup {NotReading}
    /\ limit \in (Rate \ {0}) \cup {Unlimited, StoppedLimit}
    /\ edits \in 0 .. MaxEdits /\ edited \subseteq Field
    /\ saved \subseteq Rate

-----------------------------------------------------------------------------
(* Clamping and converting *)

clampPortNowhere(port) == port

clampPort(port) == IF port \in ListenPort THEN port ELSE 6881

\* A limit cannot be entered below 0, nor a type or a mode out of range.
clampKbps(kbps) == IF kbps < 0 THEN 0 ELSE kbps

BytesOf(kbps) == IF kbps > 0 THEN kbps * 1024 ELSE 0

Trimmed(host) == IF host = Blank THEN NoHost ELSE host

engineSettingsFromProperties(p) ==
    LET proxied == p.proxy_enabled /\ Trimmed(p.proxy_host) # NoHost
    IN  [download_rate_limit |-> BytesOf(p.download),
         upload_rate_limit |-> BytesOf(p.upload),
         listen_port |-> p.listen_port,
         enable_dht |-> p.enable_dht,
         proxy_type |-> IF proxied THEN p.proxy_type ELSE kProxyTypeNone,
         proxy_host |-> IF proxied THEN Trimmed(p.proxy_host) ELSE NoHost,
         proxy_port |-> IF proxied THEN p.proxy_port ELSE 1080]

\* All the rest is in range when it comes from the properties.
clamp_settings(s) == [s EXCEPT !.listen_port = clampPort(@)]

AppliedProxyKept(old, s) ==
    IF s.proxy_type = kProxyTypeNone \/ s.proxy_host = NoHost
    THEN [s EXCEPT !.proxy_type = old.proxy_type, !.proxy_host = old.proxy_host, !.proxy_port = old.proxy_port]
    ELSE s

\* apply_settings_to_session: without a proxy the session's host and port stay what they were.
Applied(old, s) ==
    IF s.proxy_type = kProxyTypeNone \/ s.proxy_host = NoHost
    THEN [s EXCEPT !.proxy_type = kProxyTypeNone, !.proxy_host = old.proxy_host, !.proxy_port = old.proxy_port]
    ELSE s

\* loadSessionSettingsFromStore; appearance and type are clamped when they are set.
Loaded(st) ==
    [st EXCEPT !.download = clampKbps(@), !.upload = clampKbps(@), !.listen_port = clampPort(@),
               !.proxy_port = clampPort(@)]

\* applySessionSettings.
Clamped(p) == [p EXCEPT !.download = clampKbps(@), !.upload = clampKbps(@), !.listen_port = clampPort(@)]

-----------------------------------------------------------------------------
(* Starting: the constructor of AppController, and start() *)

Fresh ==
    [download |-> 0, upload |-> 0, listen_port |-> 6881, enable_dht |-> TRUE, proxy_enabled |-> FALSE,
     proxy_type |-> 0, proxy_host |-> NoHost, proxy_port |-> 1080, appearance_mode |-> 0]

Init ==
    /\ app = FALSE /\ sheet = FALSE /\ ui = "free"
    /\ props = Fresh /\ store = Fresh
    /\ settings = engineSettingsFromProperties(Fresh)
    /\ session = engineSettingsFromProperties(Fresh) /\ session_file = engineSettingsFromProperties(Fresh)
    /\ reading = NotReading
    /\ limit = Unlimited
    /\ edits = 0 /\ edited = {} /\ saved = {0}

\* The session starts with the settings of session.dat; the torrents with the limits of their
\* resume data.
Start ==
    /\ ~app
    /\ app' = TRUE
    /\ props' = Loaded(store)
    /\ settings' = clamp_settings(engineSettingsFromProperties(props'))
    /\ session' = Applied(session_file, settings')
    /\ UNCHANGED <<sheet, ui, store, session_file, reading, limit, edits, edited, saved>>

\* Nothing is left of the process but the store and session.dat.
Stop ==
    /\ app' = FALSE /\ sheet' = FALSE /\ ui' = "free" /\ reading' = NotReading
    /\ UNCHANGED <<props, store, settings, session, limit, edits, edited, saved>>

Shutdown ==
    /\ app /\ ui = "free" /\ reading = NotReading
    /\ session_file' = session
    /\ Stop

Crash == app /\ UNCHANGED session_file /\ Stop

-----------------------------------------------------------------------------
(* The settings sheet *)

OpenAsLeft ==
    /\ app /\ ui = "free" /\ ~sheet
    /\ sheet' = TRUE
    /\ edited' = {}
    /\ UNCHANGED <<app, ui, props, store, settings, session, session_file, reading, limit, edits, saved>>

\* onOpened: whatever was edited and not saved is read over.
Open ==
    /\ app /\ ui = "free" /\ ~sheet
    /\ sheet' = TRUE
    /\ props' = Loaded(store)
    /\ edited' = {}
    /\ UNCHANGED <<app, ui, store, settings, session, session_file, reading, limit, edits, saved>>

\* The properties keep what was edited; nobody reads them before they are loaded again.
Cancel ==
    /\ app /\ ui = "free" /\ sheet
    /\ sheet' = FALSE
    /\ UNCHANGED <<app, ui, props, store, settings, session, session_file, reading, limit, edits, edited, saved>>

\* The setters, one for each property.
Enter(name, p) ==
    /\ app /\ ui = "free" /\ sheet /\ edits < MaxEdits
    /\ p # props
    /\ props' = p
    /\ edits' = edits + 1
    /\ edited' = edited \cup {name}
    /\ UNCHANGED <<app, sheet, ui, store, settings, session, session_file, reading, limit, saved>>

EditLimits ==
    \E k \in Kbps :
        \/ Enter("download", [props EXCEPT !.download = clampKbps(k)])
        \/ Enter("upload", [props EXCEPT !.upload = clampKbps(k)])

\* The number row raises what is entered to its minimum, the port field does not.
RowPort(n) == IF n < 1024 THEN 1024 ELSE n

EditNetwork ==
    \/ \E n \in Port : Enter("listen_port", [props EXCEPT !.listen_port = clampPort(RowPort(n))])
    \/ Enter("enable_dht", [props EXCEPT !.enable_dht = ~@])

\* The rest of the proxy can be edited while the proxy is switched on.
EditProxy ==
    \/ Enter("proxy_enabled", [props EXCEPT !.proxy_enabled = ~@])
    \/ /\ props.proxy_enabled
       /\ \/ \E type \in {1, 2} : Enter("proxy_type", [props EXCEPT !.proxy_type = type])
          \/ \E h \in Hosts : Enter("proxy_host", [props EXCEPT !.proxy_host = h])
          \/ \E n \in Port : Enter("proxy_port", [props EXCEPT !.proxy_port = clampPort(n)])

EditAppearance == \E mode \in 0 .. 2 : Enter("appearance_mode", [props EXCEPT !.appearance_mode = mode])

Edit == EditLimits \/ EditNetwork \/ EditProxy \/ EditAppearance

\* saveAndClose, first applySessionSettings up to persistSessionSettings ...
Save ==
    /\ app /\ ui = "free" /\ sheet
    /\ ui' = "stored"
    /\ props' = Clamped(props)
    /\ store' = props'
    /\ saved' = saved \cup {BytesOf(store'.upload)}
    /\ UNCHANGED <<app, sheet, settings, session, session_file, reading, limit, edits, edited>>

\* ... then set_session_settings: Impl::settings, without the mutex ...
Assign ==
    /\ ui = "stored"
    /\ ui' = "assigned"
    /\ settings' = clamp_settings(engineSettingsFromProperties(props))
    /\ UNCHANGED <<app, sheet, props, store, session, session_file, reading, limit, edits, edited, saved>>

\* ... and libtorrent's session; the sheet is closed.
Apply ==
    /\ ui = "assigned"
    /\ ui' = "free"
    /\ session' = Applied(session, settings)
    /\ sheet' = FALSE
    /\ UNCHANGED <<app, props, store, settings, session_file, reading, limit, edits, edited, saved>>

-----------------------------------------------------------------------------
(* The worker: resuming and stopping a torrent *)

\* apply_per_torrent_upload_limit reads the global limit, a plain int, and sets the torrent's.
ReadLimit ==
    /\ app /\ reading = NotReading
    /\ reading' = settings.upload_rate_limit
    /\ UNCHANGED <<app, sheet, ui, props, store, settings, session, session_file, limit, edits, edited, saved>>

SetLimitInKilobytes ==
    /\ reading # NotReading
    /\ limit' = IF reading > 0 THEN reading \div 1024 ELSE Unlimited
    /\ reading' = NotReading
    /\ UNCHANGED <<app, sheet, ui, props, store, settings, session, session_file, edits, edited, saved>>

SetLimit ==
    /\ reading # NotReading
    /\ limit' = IF reading > 0 THEN reading ELSE Unlimited
    /\ reading' = NotReading
    /\ UNCHANGED <<app, sheet, ui, props, store, settings, session, session_file, edits, edited, saved>>

StopSeeding ==
    /\ app /\ reading = NotReading
    /\ limit' = StoppedLimit
    /\ UNCHANGED <<app, sheet, ui, props, store, settings, session, session_file, reading, edits, edited, saved>>

Next ==
    \/ Start \/ Shutdown \/ Crash
    \/ Open \/ Cancel \/ Edit
    \/ Save \/ Assign \/ Apply
    \/ ReadLimit \/ SetLimit \/ StopSeeding

Spec == Init /\ [][Next]_vars

-----------------------------------------------------------------------------
(* Properties *)

\* What the stored settings ask of libtorrent's session: a proxy if one is switched on, has a
\* type and a host; else no proxy, whatever host the session still remembers.
Follows(s, st) ==
    /\ s.download_rate_limit = 1024 * st.download
    /\ s.upload_rate_limit = 1024 * st.upload
    /\ s.listen_port = st.listen_port
    /\ s.enable_dht = st.enable_dht
    /\ IF st.proxy_enabled /\ st.proxy_type # kProxyTypeNone /\ st.proxy_host \in Host
       THEN s.proxy_type = st.proxy_type /\ s.proxy_host = st.proxy_host /\ s.proxy_port = st.proxy_port
       ELSE s.proxy_type = kProxyTypeNone

\* Whenever no save is under way, libtorrent's session does what the store says: after a save, a
\* cancelled edit, a restart with an older session.dat, and a crash in the middle of a save
\* (app_controller.cpp, lines 194-238 and 280-317; session_manager.cpp, lines 217-236 and 431-447).
SessionFollowsStore == app /\ ui = "free" => Follows(session, store)

\* A save changes nothing the user did not edit since the sheet was opened: edits cancelled
\* earlier do not come back (SettingsDialog.qml, line 13).
SaveStoresEdits == [][\A f \in Field : store'[f] # store[f] => f \in edited]_vars

\* A torrent is only ever limited to a rate the user has saved, also when the worker reads the
\* settings in the middle of a save (session_manager.cpp, lines 471-483 and 1115-1121).
ThrottledAsSaved == limit \in (saved \ {0}) \cup {Unlimited, StoppedLimit}

=============================================================================
