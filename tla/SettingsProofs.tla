--------------------------- MODULE SettingsProofs ---------------------------
(***************************************************************************)
(* Proofs about Settings, for every set of limits, ports and hosts and any *)
(* number of edits, saves, restarts and crashes.                           *)
(***************************************************************************)
EXTENDS Settings, TLAPS

-----------------------------------------------------------------------------
(* Clamping and converting *)

\* A limit the properties hold is a number, and clamping does not change it.
LEMMA KbpsFacts ==
    ASSUME NEW k \in Kbps \cup {0}
    PROVE  k \in Nat /\ clampKbps(k) = k /\ BytesOf(k) = 1024 * k /\ BytesOf(k) \in Rate
<1>1. k \in Nat
  BY KbpsAssumption
<1>2. clampKbps(k) = k /\ BytesOf(k) = 1024 * k
  BY <1>1 DEF clampKbps, BytesOf
<1> QED
  BY <1>1, <1>2 DEF Rate

\* A port is clamped into range, and one in range is not changed.
LEMMA ClampPortInRange ==
    \A n : /\ clampPort(n) \in ListenPort
           /\ n \in ListenPort => clampPort(n) = n
<1>1. 6881 \in ListenPort
  BY DEF ListenPort
<1> QED
  BY <1>1 DEF clampPort

\* Properties in range are what loading them gives, and what saving them stores.
LEMMA LoadedSame ==
    ASSUME NEW p \in Properties
    PROVE  Loaded(p) = p /\ Clamped(p) = p
<1>1. clampKbps(p.download) = p.download /\ clampKbps(p.upload) = p.upload
  BY KbpsFacts DEF Properties
<1>2. clampPort(p.listen_port) = p.listen_port /\ clampPort(p.proxy_port) = p.proxy_port
  BY ClampPortInRange DEF Properties
<1> QED
  BY <1>1, <1>2 DEF Loaded, Clamped, Properties

\* The engine gets settings in range, and clamps none of them.
LEMMA EngineType ==
    ASSUME NEW p \in Properties
    PROVE  /\ engineSettingsFromProperties(p) \in SessionSettings
           /\ clamp_settings(engineSettingsFromProperties(p)) = engineSettingsFromProperties(p)
<1>1. BytesOf(p.download) \in Rate /\ BytesOf(p.upload) \in Rate
  BY KbpsFacts DEF Properties
<1>2. Trimmed(p.proxy_host) \in Host \cup {NoHost}
  BY DEF Properties, Hosts, Trimmed
<1>3. 1080 \in ListenPort /\ kProxyTypeNone \in Types
  BY DEF ListenPort, kProxyTypeNone, Types
<1>4. engineSettingsFromProperties(p) \in SessionSettings
  BY <1>1, <1>2, <1>3 DEF engineSettingsFromProperties, SessionSettings, Properties
<1>5. engineSettingsFromProperties(p).listen_port \in ListenPort
  BY DEF engineSettingsFromProperties, Properties
<1> QED
  BY <1>4, <1>5, ClampPortInRange DEF clamp_settings, SessionSettings

\* libtorrent's session gets settings in range.
LEMMA AppliedType ==
    ASSUME NEW old \in SessionSettings, NEW s \in SessionSettings
    PROVE  Applied(old, s) \in SessionSettings
<1>1. kProxyTypeNone \in Types
  BY DEF kProxyTypeNone, Types
<1> QED
  BY <1>1 DEF Applied, SessionSettings

\* Applied to libtorrent's session, the settings of the properties p do what p says, whatever the
\* session had before.
LEMMA AppliedFollows ==
    ASSUME NEW old \in SessionSettings, NEW p \in Properties
    PROVE  Follows(Applied(old, engineSettingsFromProperties(p)), p)
<1> DEFINE e == engineSettingsFromProperties(p)
           a == Applied(old, e)
<1>1. e \in SessionSettings
  BY EngineType
<1>2. /\ a.download_rate_limit = e.download_rate_limit
      /\ a.upload_rate_limit = e.upload_rate_limit
      /\ a.listen_port = e.listen_port
      /\ a.enable_dht = e.enable_dht
  BY <1>1 DEF Applied, SessionSettings
<1>3. /\ e.download_rate_limit = 1024 * p.download
      /\ e.upload_rate_limit = 1024 * p.upload
      /\ e.listen_port = p.listen_port
      /\ e.enable_dht = p.enable_dht
  BY KbpsFacts DEF engineSettingsFromProperties, Properties
<1>4. CASE p.proxy_enabled /\ p.proxy_type # kProxyTypeNone /\ p.proxy_host \in Host
  <2>1. Trimmed(p.proxy_host) = p.proxy_host /\ p.proxy_host # NoHost
    BY <1>4, HostAssumption DEF Trimmed
  <2>2. e.proxy_type = p.proxy_type /\ e.proxy_host = p.proxy_host /\ e.proxy_port = p.proxy_port
    BY <1>4, <2>1 DEF engineSettingsFromProperties
  <2>3. a = e
    BY <1>4, <2>1, <2>2 DEF Applied
  <2> QED
    BY <1>3, <1>4, <2>2, <2>3 DEF Follows
<1>5. CASE ~(p.proxy_enabled /\ p.proxy_type # kProxyTypeNone /\ p.proxy_host \in Host)
  <2>1. p.proxy_host \notin Host => Trimmed(p.proxy_host) = NoHost
    BY DEF Trimmed, Properties, Hosts
  <2>2. e.proxy_type = kProxyTypeNone \/ e.proxy_host = NoHost
    BY <1>5, <2>1 DEF engineSettingsFromProperties
  <2>3. a.proxy_type = kProxyTypeNone
    BY <1>1, <2>2 DEF Applied, SessionSettings
  <2> QED
    BY <1>2, <1>3, <1>5, <2>3 DEF Follows
<1> QED
  BY <1>4, <1>5

-----------------------------------------------------------------------------
(* Types *)

\* The properties at the first start are in range, and ask for a session that follows them.
LEMMA FreshType ==
    /\ Fresh \in Properties
    /\ engineSettingsFromProperties(Fresh).upload_rate_limit = 0
    /\ Follows(engineSettingsFromProperties(Fresh), Fresh)
<1>1. Fresh \in Properties
  BY DEF Fresh, Properties, Hosts, Types, ListenPort
<1>2. engineSettingsFromProperties(Fresh).upload_rate_limit = 0
  BY DEF Fresh, engineSettingsFromProperties, BytesOf
<1>3. Follows(engineSettingsFromProperties(Fresh), Fresh)
  BY DEF Fresh, engineSettingsFromProperties, BytesOf, Follows, kProxyTypeNone
<1> QED
  BY <1>1, <1>2, <1>3

\* Every edit enters one property, in range, and leaves the others.
LEMMA EditEnters ==
    ASSUME TypeOK, Edit
    PROVE  \E name \in Field, p \in Properties :
               Enter(name, p) /\ \A f \in Field : f # name => p[f] = props[f]
<1> USE DEF TypeOK
<1>1. \A k \in Kbps : clampKbps(k) \in Kbps \cup {0}
  BY KbpsFacts
<1>2. \A n : clampPort(n) \in ListenPort
  BY ClampPortInRange
<1>3. ASSUME NEW k \in Kbps, Enter("download", [props EXCEPT !.download = clampKbps(k)])
      PROVE  \E name \in Field, p \in Properties :
               Enter(name, p) /\ \A f \in Field : f # name => p[f] = props[f]
  <2> DEFINE p == [props EXCEPT !.download = clampKbps(k)]
  <2>1. p \in Properties /\ \A f \in Field : f # "download" => p[f] = props[f]
    BY <1>1 DEF Properties, Field
  <2> QED
    BY <1>3, <2>1 DEF Field
<1>4. ASSUME NEW k \in Kbps, Enter("upload", [props EXCEPT !.upload = clampKbps(k)])
      PROVE  \E name \in Field, p \in Properties :
               Enter(name, p) /\ \A f \in Field : f # name => p[f] = props[f]
  <2> DEFINE p == [props EXCEPT !.upload = clampKbps(k)]
  <2>1. p \in Properties /\ \A f \in Field : f # "upload" => p[f] = props[f]
    BY <1>1 DEF Properties, Field
  <2> QED
    BY <1>4, <2>1 DEF Field
<1>5. ASSUME NEW n \in Port, Enter("listen_port", [props EXCEPT !.listen_port = clampPort(RowPort(n))])
      PROVE  \E name \in Field, p \in Properties :
               Enter(name, p) /\ \A f \in Field : f # name => p[f] = props[f]
  <2> DEFINE p == [props EXCEPT !.listen_port = clampPort(RowPort(n))]
  <2>1. p \in Properties /\ \A f \in Field : f # "listen_port" => p[f] = props[f]
    BY <1>2 DEF Properties, Field
  <2> QED
    BY <1>5, <2>1 DEF Field
<1>6. ASSUME Enter("enable_dht", [props EXCEPT !.enable_dht = ~@])
      PROVE  \E name \in Field, p \in Properties :
               Enter(name, p) /\ \A f \in Field : f # name => p[f] = props[f]
  <2> DEFINE p == [props EXCEPT !.enable_dht = ~@]
  <2>1. p \in Properties /\ \A f \in Field : f # "enable_dht" => p[f] = props[f]
    BY DEF Properties, Field
  <2> QED
    BY <1>6, <2>1 DEF Field
<1>7. ASSUME Enter("proxy_enabled", [props EXCEPT !.proxy_enabled = ~@])
      PROVE  \E name \in Field, p \in Properties :
               Enter(name, p) /\ \A f \in Field : f # name => p[f] = props[f]
  <2> DEFINE p == [props EXCEPT !.proxy_enabled = ~@]
  <2>1. p \in Properties /\ \A f \in Field : f # "proxy_enabled" => p[f] = props[f]
    BY DEF Properties, Field
  <2> QED
    BY <1>7, <2>1 DEF Field
<1>8. ASSUME NEW type \in {1, 2}, Enter("proxy_type", [props EXCEPT !.proxy_type = type])
      PROVE  \E name \in Field, p \in Properties :
               Enter(name, p) /\ \A f \in Field : f # name => p[f] = props[f]
  <2> DEFINE p == [props EXCEPT !.proxy_type = type]
  <2>1. type \in Types
    BY DEF Types
  <2>2. p \in Properties /\ \A f \in Field : f # "proxy_type" => p[f] = props[f]
    BY <2>1 DEF Properties, Field
  <2> QED
    BY <1>8, <2>2 DEF Field
<1>9. ASSUME NEW h \in Hosts, Enter("proxy_host", [props EXCEPT !.proxy_host = h])
      PROVE  \E name \in Field, p \in Properties :
               Enter(name, p) /\ \A f \in Field : f # name => p[f] = props[f]
  <2> DEFINE p == [props EXCEPT !.proxy_host = h]
  <2>1. p \in Properties /\ \A f \in Field : f # "proxy_host" => p[f] = props[f]
    BY DEF Properties, Field
  <2> QED
    BY <1>9, <2>1 DEF Field
<1>10. ASSUME NEW n \in Port, Enter("proxy_port", [props EXCEPT !.proxy_port = clampPort(n)])
       PROVE  \E name \in Field, p \in Properties :
                Enter(name, p) /\ \A f \in Field : f # name => p[f] = props[f]
  <2> DEFINE p == [props EXCEPT !.proxy_port = clampPort(n)]
  <2>1. p \in Properties /\ \A f \in Field : f # "proxy_port" => p[f] = props[f]
    BY <1>2 DEF Properties, Field
  <2> QED
    BY <1>10, <2>1 DEF Field
<1>11. ASSUME NEW mode \in 0 .. 2, Enter("appearance_mode", [props EXCEPT !.appearance_mode = mode])
       PROVE  \E name \in Field, p \in Properties :
                Enter(name, p) /\ \A f \in Field : f # name => p[f] = props[f]
  <2> DEFINE p == [props EXCEPT !.appearance_mode = mode]
  <2>1. p \in Properties /\ \A f \in Field : f # "appearance_mode" => p[f] = props[f]
    BY DEF Properties, Field
  <2> QED
    BY <1>11, <2>1 DEF Field
<1> QED
  BY <1>3, <1>4, <1>5, <1>6, <1>7, <1>8, <1>9, <1>10, <1>11
  DEF Edit, EditLimits, EditNetwork, EditProxy, EditAppearance

\* The initial state is well typed.
LEMMA InitType == Init => TypeOK
<1> SUFFICES ASSUME Init PROVE TypeOK
  OBVIOUS
<1>1. Fresh \in Properties /\ engineSettingsFromProperties(Fresh) \in SessionSettings
  BY FreshType, EngineType
<1>2. 0 \in Rate
  BY DEF Rate
<1>3. edits \in 0 .. MaxEdits /\ edited \subseteq Field /\ saved \subseteq Rate
  BY <1>2, EditsAssumption DEF Init
<1>4. /\ app \in BOOLEAN /\ sheet \in BOOLEAN
      /\ ui \in {"free", "stored", "assigned"}
      /\ reading \in Rate \cup {NotReading}
      /\ limit \in (Rate \ {0}) \cup {Unlimited, StoppedLimit}
  BY DEF Init
<1>5. props \in Properties /\ store \in Properties /\ settings \in SessionSettings
      /\ session \in SessionSettings /\ session_file \in SessionSettings
  BY <1>1 DEF Init
<1> QED
  BY <1>3, <1>4, <1>5 DEF TypeOK

\* Every step keeps the types.
LEMMA NextType == TypeOK /\ [Next]_vars => TypeOK'
<1> SUFFICES ASSUME TypeOK, [Next]_vars PROVE TypeOK'
  OBVIOUS
<1> USE EditsAssumption
<1>1. CASE Start
  <2>1. props' \in Properties
    BY <1>1, LoadedSame DEF Start, TypeOK
  <2>2. settings' \in SessionSettings
    BY <1>1, <2>1, EngineType DEF Start
  <2>3. session' \in SessionSettings
    BY <1>1, <2>2, AppliedType DEF Start, TypeOK
  <2> QED
    BY <1>1, <2>1, <2>2, <2>3 DEF Start, TypeOK
<1>2. CASE Shutdown \/ Crash
  BY <1>2 DEF Shutdown, Crash, Stop, TypeOK
<1>3. CASE Open
  <2>1. props' \in Properties
    BY <1>3, LoadedSame DEF Open, TypeOK
  <2> QED
    BY <1>3, <2>1 DEF Open, TypeOK
<1>4. CASE Cancel
  BY <1>4 DEF Cancel, TypeOK
<1>5. CASE Edit
  <2>1. PICK name \in Field, p \in Properties : Enter(name, p)
    BY <1>5, EditEnters
  <2> QED
    BY <2>1 DEF Enter, TypeOK
<1>6. CASE Save
  <2>1. props' \in Properties
    BY <1>6, LoadedSame DEF Save, TypeOK
  <2>2. BytesOf(props'.upload) \in Rate
    BY <2>1, KbpsFacts DEF Properties
  <2> QED
    BY <1>6, <2>1, <2>2 DEF Save, TypeOK
<1>7. CASE Assign
  <2>1. settings' \in SessionSettings
    BY <1>7, EngineType DEF Assign, TypeOK
  <2> QED
    BY <1>7, <2>1 DEF Assign, TypeOK
<1>8. CASE Apply
  <2>1. session' \in SessionSettings
    BY <1>8, AppliedType DEF Apply, TypeOK
  <2> QED
    BY <1>8, <2>1 DEF Apply, TypeOK
<1>9. CASE ReadLimit
  <2>1. settings.upload_rate_limit \in Rate
    BY DEF TypeOK, SessionSettings
  <2> QED
    BY <1>9, <2>1 DEF ReadLimit, TypeOK
<1>10. CASE SetLimit
  <2>1. reading \in Rate /\ (reading > 0 => reading # 0)
    BY <1>10 DEF SetLimit, TypeOK
  <2> QED
    BY <1>10, <2>1 DEF SetLimit, TypeOK
<1>11. CASE StopSeeding
  BY <1>11 DEF StopSeeding, TypeOK
<1>12. CASE UNCHANGED vars
  BY <1>12 DEF vars, TypeOK
<1> QED
  BY <1>1, <1>2, <1>3, <1>4, <1>5, <1>6, <1>7, <1>8, <1>9, <1>10, <1>11, <1>12 DEF Next

\* Type correctness, for every set of limits, ports and hosts.
THEOREM TypeCorrect == Spec => []TypeOK
  BY InitType, NextType, PTL DEF Spec

-----------------------------------------------------------------------------
(* The session follows the store *)

\* While a save is under way the properties are the ones stored, and Impl::settings, once assigned,
\* is what they ask for; when none is, the session follows the store.
FollowInv ==
    /\ app /\ ui = "free" => Follows(session, store)
    /\ ui # "free" => props = store
    /\ ui = "assigned" => settings = engineSettingsFromProperties(store)

LEMMA FollowInit == Init => FollowInv
  BY DEF Init, FollowInv

LEMMA FollowNext == TypeOK /\ FollowInv /\ [Next]_vars => FollowInv'
<1> SUFFICES ASSUME TypeOK, FollowInv, [Next]_vars PROVE FollowInv'
  OBVIOUS
<1>1. CASE Start
  <2>1. props' = store /\ store' = store /\ store \in Properties /\ session_file \in SessionSettings
    BY <1>1, LoadedSame DEF Start, TypeOK
  <2>2. settings' = engineSettingsFromProperties(store)
    BY <1>1, <2>1, EngineType DEF Start
  <2>3. Follows(session', store')
    BY <1>1, <2>1, <2>2, AppliedFollows DEF Start
  <2> QED
    BY <1>1, <2>1, <2>2, <2>3 DEF Start, FollowInv
<1>2. CASE Shutdown \/ Crash
  BY <1>2 DEF Shutdown, Crash, Stop, FollowInv
<1>3. CASE Open \/ Cancel
  BY <1>3 DEF Open, Cancel, FollowInv
<1>4. CASE Edit
  <2>1. ui = "free" /\ UNCHANGED <<app, ui, store, session>>
    BY <1>4, EditEnters DEF Enter
  <2> QED
    BY <2>1 DEF FollowInv
<1>5. CASE Save
  BY <1>5 DEF Save, FollowInv
<1>6. CASE Assign
  <2>1. settings' = engineSettingsFromProperties(props)
    BY <1>6, EngineType DEF Assign, TypeOK
  <2> QED
    BY <1>6, <2>1 DEF Assign, FollowInv
<1>7. CASE Apply
  <2>1. session' = Applied(session, engineSettingsFromProperties(store))
    BY <1>7 DEF Apply, FollowInv
  <2>2. Follows(session', store)
    BY <2>1, AppliedFollows DEF TypeOK
  <2> QED
    BY <1>7, <2>2 DEF Apply, FollowInv
<1>8. CASE ReadLimit \/ SetLimit \/ StopSeeding
  BY <1>8 DEF ReadLimit, SetLimit, StopSeeding, FollowInv
<1>9. CASE UNCHANGED vars
  BY <1>9 DEF vars, FollowInv
<1> QED
  BY <1>1, <1>2, <1>3, <1>4, <1>5, <1>6, <1>7, <1>8, <1>9 DEF Next

\* Whenever no save is under way, libtorrent's session does what the store says, after any saves,
\* cancelled edits, restarts with an old session.dat, and crashes in the middle of a save.
THEOREM SessionFollows == Spec => []SessionFollowsStore
<1>1. Init => TypeOK /\ FollowInv
  BY InitType, FollowInit
<1>2. TypeOK /\ FollowInv /\ [Next]_vars => TypeOK' /\ FollowInv'
  BY NextType, FollowNext
<1>3. FollowInv => SessionFollowsStore
  BY DEF FollowInv, SessionFollowsStore
<1> QED
  BY <1>1, <1>2, <1>3, PTL DEF Spec

-----------------------------------------------------------------------------
(* A save stores the edits *)

\* An open sheet differs from the store in what was edited since it was opened, and no more.
SheetInv == sheet => \A f \in Field : f \notin edited => props[f] = store[f]

LEMMA SheetInit == Init => SheetInv
  BY DEF Init, SheetInv

LEMMA SheetNext == TypeOK /\ SheetInv /\ [Next]_vars => SheetInv'
<1> SUFFICES ASSUME TypeOK, SheetInv, [Next]_vars PROVE SheetInv'
  OBVIOUS
<1>1. CASE Start
  <2>1. props' = store /\ store' = store
    BY <1>1, LoadedSame DEF Start, TypeOK
  <2> QED
    BY <2>1 DEF SheetInv
<1>2. CASE Shutdown \/ Crash \/ Cancel
  BY <1>2 DEF Shutdown, Crash, Stop, Cancel, SheetInv
<1>3. CASE Open
  <2>1. props' = store /\ store' = store
    BY <1>3, LoadedSame DEF Open, TypeOK
  <2> QED
    BY <2>1 DEF SheetInv
<1>4. CASE Edit
  <2>1. PICK name \in Field, p \in Properties :
               Enter(name, p) /\ \A f \in Field : f # name => p[f] = props[f]
    BY <1>4, EditEnters
  <2> QED
    BY <2>1 DEF Enter, SheetInv
<1>5. CASE Save
  BY <1>5 DEF Save, SheetInv
<1>6. CASE Assign \/ Apply \/ ReadLimit \/ SetLimit \/ StopSeeding
  BY <1>6 DEF Assign, Apply, ReadLimit, SetLimit, StopSeeding, SheetInv
<1>7. CASE UNCHANGED vars
  BY <1>7 DEF vars, SheetInv
<1> QED
  BY <1>1, <1>2, <1>3, <1>4, <1>5, <1>6, <1>7 DEF Next

\* Only a save writes the store, and it writes the properties.
LEMMA OnlySaveStores ==
    ASSUME TypeOK, [Next]_vars, store' # store
    PROVE  sheet /\ store' = props /\ edited' = edited
<1>1. CASE Save
  BY <1>1, LoadedSame DEF Save, TypeOK
<1>2. CASE Edit
  BY <1>2, EditEnters DEF Enter
<1>3. CASE Start \/ Shutdown \/ Crash \/ Open \/ Cancel
  BY <1>3 DEF Start, Shutdown, Crash, Stop, Open, Cancel
<1>4. CASE Assign \/ Apply \/ ReadLimit \/ SetLimit \/ StopSeeding \/ UNCHANGED vars
  BY <1>4 DEF Assign, Apply, ReadLimit, SetLimit, StopSeeding, vars
<1> QED
  BY <1>1, <1>2, <1>3, <1>4 DEF Next

\* A save changes nothing in the store that was not edited since the sheet was opened.
THEOREM SaveStoresOnlyEdits == Spec => SaveStoresEdits
<1>1. Init => TypeOK /\ SheetInv
  BY InitType, SheetInit
<1>2. TypeOK /\ SheetInv /\ [Next]_vars => TypeOK' /\ SheetInv'
  BY NextType, SheetNext
<1>3. TypeOK /\ SheetInv /\ [Next]_vars => [\A f \in Field : store'[f] # store[f] => f \in edited]_vars
  BY OnlySaveStores DEF SheetInv
<1> QED
  BY <1>1, <1>2, <1>3, PTL DEF Spec, SaveStoresEdits

-----------------------------------------------------------------------------
(* Torrents are limited to what was saved *)

\* The store, the engine's settings and what the worker has read of them hold limits that were
\* saved, whichever of them is ahead.
LimitInv ==
    /\ BytesOf(store.upload) \in saved
    /\ settings.upload_rate_limit \in saved
    /\ ui # "free" => props = store
    /\ reading \in saved \cup {NotReading}
    /\ ThrottledAsSaved

LEMMA LimitInit == Init => LimitInv
<1> SUFFICES ASSUME Init PROVE LimitInv
  OBVIOUS
<1>1. BytesOf(store.upload) = 0
  BY DEF Init, Fresh, BytesOf
<1>2. settings.upload_rate_limit = 0
  BY FreshType DEF Init
<1> QED
  BY <1>1, <1>2 DEF Init, LimitInv, ThrottledAsSaved

\* What the engine makes of the properties is limited as they say.
LEMMA EngineLimit ==
    ASSUME NEW p
    PROVE  clamp_settings(engineSettingsFromProperties(p)).upload_rate_limit = BytesOf(p.upload)
  BY DEF clamp_settings, engineSettingsFromProperties

LEMMA LimitNext == TypeOK /\ LimitInv /\ [Next]_vars => LimitInv'
<1> SUFFICES ASSUME TypeOK, LimitInv, [Next]_vars PROVE LimitInv'
  OBVIOUS
<1>1. CASE Start
  <2>1. props' = store /\ store' = store
    BY <1>1, LoadedSame DEF Start, TypeOK
  <2>2. settings'.upload_rate_limit \in saved
    BY <1>1, <2>1, EngineLimit DEF Start, LimitInv
  <2> QED
    BY <1>1, <2>1, <2>2 DEF Start, LimitInv, ThrottledAsSaved
<1>2. CASE Shutdown \/ Crash
  BY <1>2 DEF Shutdown, Crash, Stop, LimitInv, ThrottledAsSaved
<1>3. CASE Open \/ Cancel
  BY <1>3 DEF Open, Cancel, LimitInv, ThrottledAsSaved
<1>4. CASE Edit
  <2>1. ui = "free" /\ UNCHANGED <<ui, store, settings, reading, limit, saved>>
    BY <1>4, EditEnters DEF Enter
  <2> QED
    BY <2>1 DEF LimitInv, ThrottledAsSaved
<1>5. CASE Save
  BY <1>5 DEF Save, LimitInv, ThrottledAsSaved
<1>6. CASE Assign
  <2>1. settings'.upload_rate_limit \in saved
    BY <1>6, EngineLimit DEF Assign, LimitInv
  <2> QED
    BY <1>6, <2>1 DEF Assign, LimitInv, ThrottledAsSaved
<1>7. CASE Apply
  BY <1>7 DEF Apply, LimitInv, ThrottledAsSaved
<1>8. CASE ReadLimit
  BY <1>8 DEF ReadLimit, LimitInv, ThrottledAsSaved
<1>9. CASE SetLimit
  <2>1. reading \in saved /\ (reading > 0 => reading # 0)
    BY <1>9 DEF SetLimit, LimitInv, TypeOK
  <2> QED
    BY <1>9, <2>1 DEF SetLimit, LimitInv, ThrottledAsSaved
<1>10. CASE StopSeeding
  BY <1>10 DEF StopSeeding, LimitInv, ThrottledAsSaved
<1>11. CASE UNCHANGED vars
  BY <1>11 DEF vars, LimitInv, ThrottledAsSaved
<1> QED
  BY <1>1, <1>2, <1>3, <1>4, <1>5, <1>6, <1>7, <1>8, <1>9, <1>10, <1>11 DEF Next

\* A torrent is only ever limited to a rate the user has saved, however the worker's two steps and
\* the three steps of a save fall.
THEOREM LimitsAreSaved == Spec => []ThrottledAsSaved
<1>1. Init => TypeOK /\ LimitInv
  BY InitType, LimitInit
<1>2. TypeOK /\ LimitInv /\ [Next]_vars => TypeOK' /\ LimitInv'
  BY NextType, LimitNext
<1>3. LimitInv => ThrottledAsSaved
  BY DEF LimitInv
<1> QED
  BY <1>1, <1>2, <1>3, PTL DEF Spec

=============================================================================
