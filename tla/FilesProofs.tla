---------------------------- MODULE FilesProofs ----------------------------
(***************************************************************************)
(* Proofs about what zymi keeps in files and what goes with them: the      *)
(* models and tokens (Models), the policy (PolicyFile), the MCP servers    *)
(* (Mcp), the schedule, the PID file and the program (Daemon).  Each is    *)
(* saved in steps, which other steps and crashes come between; what a step *)
(* relies on, it relies on as long as no second writer came in, and a      *)
(* history variable tells when one did.                                    *)
(***************************************************************************)
EXTENDS Daemon, Settings, WellFoundedInduction, TLAPS

-----------------------------------------------------------------------------
(* A file saved through a temporary one, with contents of a kind.          *)
Files(contents) == [file : contents \cup {Torn, Absent}, tmp : contents \cup {Torn, Absent}]

(* Creating the temporary file leaves the file alone.                      *)
LEMMA EmptiedFile ==
  ASSUME NEW C, NEW f \in Files(C)
  PROVE  /\ Emptied(f) \in Files(C)
         /\ Emptied(f).tmp = Torn /\ Emptied(f).file = f.file
BY DEF Files, Emptied

(* So does filling it, when no other writer renamed it.                    *)
LEMMA FilledFile ==
  ASSUME NEW C, NEW x \in C, NEW f \in Files(C)
  PROVE  /\ Filled(f, x) \in Files(C)
         /\ f.tmp = Torn => Filled(f, x).tmp = x /\ Filled(f, x).file = f.file
BY SavedFileAssumption DEF Files, Filled

(* A rename brings what the temporary file had, whole, or changes nothing. *)
LEMMA RenamedFile ==
  ASSUME NEW C, NEW f \in Files(C)
  PROVE  /\ Renamed(f) \in Files(C)
         /\ f.tmp # Absent => Renamed(f).file = f.tmp
         /\ f.tmp = Absent => Renamed(f) = f
BY DEF Files, Renamed, Saved

-----------------------------------------------------------------------------
(* The provider manager: what its variables hold.                          *)
ManagerTypes ==
  /\ config \in SUBSET Ids /\ inner \in Ids
  /\ switch \in [Chats -> Ids \cup {NoModel}]
  /\ mixed \in BOOLEAN

(* Without overlaps there is one switch at a time; between its two writes  *)
(* inner is ahead of the id, and otherwise they agree.                     *)
OneSwitch ==
  ~mixed =>
    /\ \A c \in Chats : switch[c] # NoModel =>
         inner = switch[c] /\ \A d \in Chats \ {c} : switch[d] = NoModel
    /\ (\A c \in Chats : switch[c] = NoModel) => inner = current

(* models.json: what is in it and in its temporary file, and what a save   *)
(* is about to write.                                                      *)
Steps == {"idle", "create", "fill", "rename"}

FileTypes ==
  /\ added \in SUBSET (Ids \ OAuth)
  /\ file \in Files(SUBSET Ids)
  /\ saver \in [Savers -> [at : Steps, models : SUBSET Ids]]
  /\ raced \in BOOLEAN

(* Without overlaps one save is under way.  Before the rename it has in    *)
(* the temporary file what it is to write, and that loses nothing.         *)
OneSaver ==
  ~raced =>
    /\ \A s \in Savers : saver[s].at # "idle" => \A t \in Savers \ {s} : saver[t].at = "idle"
    /\ \A s \in Savers : /\ saver[s].at = "fill" => file.tmp = Torn
                         /\ saver[s].at = "rename" => file.tmp = saver[s].models
    /\ saver["add"].at # "idle" => saver["add"].models = config
    /\ saver["login"].at # "idle" => added \subseteq saver["login"].models
    /\ file.file # Torn
    /\ added = {} \/ added \subseteq Load

(* The tokens and the calls that refresh them.                             *)
TokenTypes ==
  /\ live \in Nat /\ disk \in Nat /\ mem \in Nat
  /\ call \in [Calls -> [at : {"idle", "post", "save", "fill", "keep"}, old : Nat, new : Nat,
                         own : BOOLEAN]]
  /\ crossed \in BOOLEAN /\ lost \in BOOLEAN

(* A call that refreshes alone: how far the new token has come.            *)
TokensOf(k) ==
  /\ k.own
  /\ k.at = "post" => k.old = live /\ mem = live /\ disk = live
  /\ k.at \in {"save", "fill"} => k.new = live
  /\ k.at = "keep" => k.new = live /\ disk = live

(* Without disturbances one call refreshes.  Between refreshes the tokens  *)
(* on the disk are the accepted ones, or none, and the provider has them,  *)
(* if none was lost.                                                       *)
OneRefresh ==
  (~crossed /\ ~lost) =>
    /\ \A c, d \in Refreshing : c = d
    /\ \A c \in Refreshing : inner \in OAuth /\ TokensOf(call[c])
    /\ Refreshing = {} => /\ disk \in {0, live}
                          /\ inner \in OAuth => mem = live /\ disk = live

ModelsInv ==
  /\ ManagerTypes /\ OneSwitch
  /\ FileTypes /\ OneSaver
  /\ TokenTypes /\ OneRefresh

(* A list that is loaded has models.                                       *)
LEMMA LoadTypes == FileTypes => Load \in SUBSET Ids
BY ModelsAssumption DEF FileTypes, Files, Load, Ids

LEMMA ModelsInit == InitModels => ModelsInv
<1> SUFFICES ASSUME InitModels PROVE ModelsInv
  OBVIOUS
<1>1. FileTypes
  <2>1. file \in Files(SUBSET Ids)
    BY ModelsAssumption DEF InitModels, Files, Saved, Ids
  <2> QED
    BY <2>1 DEF InitModels, Start, FileTypes, Savers, Idle, Steps
<1>2. ManagerTypes /\ OneSwitch
  BY <1>1, LoadTypes DEF InitModels, Start, ManagerTypes, OneSwitch
<1>3. OneSaver
  BY ModelsAssumption, SavedFileAssumption DEF InitModels, Start, OneSaver, Idle, Savers, Saved, Ids
<1>4. TokenTypes /\ OneRefresh
  BY DEF InitModels, Start, TokenTypes, OneRefresh, NoCall, Refreshing
<1> QED
  BY <1>1, <1>2, <1>3, <1>4 DEF ModelsInv

(* What can disturb the manager.                                           *)
LEMMA ManagerSteps ==
  ASSUME [NextModels]_modelsVars
  PROVE  \/ \E c \in Chats : SwitchId(c)
         \/ \E c \in Chats, id \in Ids : SwitchInner(c, id)
         \/ \E id \in Ids : AddModel(id)
         \/ RestartModels
         \/ UNCHANGED managerVars
<1>1. ASSUME NEW s \in Savers, Create(s) \/ Fill(s) \/ Rename(s) \/ SaveDrops(s)
      PROVE  UNCHANGED managerVars
  BY <1>1 DEF Create, Fill, Rename, SaveDrops
<1>2. ASSUME Login \/ Logout \/ HasModel \/ \E models \in SUBSET OAuth : Sync(models)
      PROVE  UNCHANGED managerVars
  BY <1>2 DEF Login, Logout, HasModel, Sync
<1>3. ASSUME NEW c \in Calls,
             Refresh(c) \/ Post(c) \/ Unheard(c) \/ SaveTokens(c) \/ Keep(c) \/ Unkept(c)
      PROVE  UNCHANGED managerVars
  BY <1>3 DEF Refresh, Post, Unheard, SaveTokens, Keep, Unkept
<1> QED
  BY <1>1, <1>2, <1>3 DEF NextModels, modelsVars, managerVars

LEMMA ManagerKept ==
  ASSUME ModelsInv, [NextModels]_modelsVars PROVE ManagerTypes' /\ OneSwitch'
<1> USE DEF ModelsInv
<1>1. ASSUME NEW c \in Chats, SwitchId(c) PROVE ManagerTypes' /\ OneSwitch'
  <2>1. ManagerTypes'
    BY <1>1 DEF SwitchId, ManagerTypes
  <2>2. ASSUME ~mixed PROVE current' = inner' /\ \A d \in Chats : switch'[d] = NoModel
    BY <1>1, <2>2 DEF SwitchId, ManagerTypes, OneSwitch
  <2> QED
    BY <1>1, <2>1, <2>2 DEF SwitchId, OneSwitch
<1>2. ASSUME NEW c \in Chats, NEW id \in Ids, SwitchInner(c, id) PROVE ManagerTypes' /\ OneSwitch'
  <2>1. ManagerTypes'
    BY <1>2 DEF SwitchInner, SetInner, ManagerTypes
  <2>2. ASSUME ~mixed' PROVE inner' = id /\ switch'[c] = id /\ \A d \in Chats \ {c} : switch'[d] = NoModel
    BY <1>2, <2>2 DEF SwitchInner, SetInner, ManagerTypes
  <2> QED
    BY <2>1, <2>2, ModelsAssumption DEF OneSwitch
<1>3. ASSUME NEW id \in Ids, AddModel(id) PROVE ManagerTypes' /\ OneSwitch'
  BY <1>3 DEF AddModel, ManagerTypes, OneSwitch
<1>4. ASSUME RestartModels PROVE ManagerTypes' /\ OneSwitch'
  <2>1. config' \in SUBSET Ids
    BY <1>4, LoadTypes, ModelsAssumption DEF RestartModels, Loads, Ids
  <2> QED
    BY <1>4, <2>1 DEF RestartModels, ManagerTypes, OneSwitch
<1>5. ASSUME UNCHANGED managerVars PROVE ManagerTypes' /\ OneSwitch'
  BY <1>5 DEF managerVars, ManagerTypes, OneSwitch
<1> QED
  BY <1>1, <1>2, <1>3, <1>4, <1>5, ManagerSteps

(* What can disturb models.json.                                           *)
LEMMA FileSteps ==
  ASSUME [NextModels]_modelsVars
  PROVE  \/ \E s \in Savers : Create(s) \/ Fill(s) \/ Rename(s) \/ SaveDrops(s)
         \/ \E id \in Ids : AddModel(id)
         \/ \E models \in SUBSET OAuth : Sync(models)
         \/ RestartModels
         \/ UNCHANGED <<config, fileVars>>
<1>1. ASSUME NEW c \in Chats, SwitchId(c) \/ \E id \in Ids : SwitchInner(c, id)
      PROVE  UNCHANGED <<config, fileVars>>
  BY <1>1 DEF SwitchId, SwitchInner
<1>2. ASSUME Login \/ Logout \/ HasModel PROVE UNCHANGED <<config, fileVars>>
  BY <1>2 DEF Login, Logout, HasModel, managerVars
<1>3. ASSUME NEW c \in Calls,
             Refresh(c) \/ Post(c) \/ Unheard(c) \/ SaveTokens(c) \/ Keep(c) \/ Unkept(c)
      PROVE  UNCHANGED <<config, fileVars>>
  BY <1>3 DEF Refresh, Post, Unheard, SaveTokens, Keep, Unkept, managerVars
<1> QED
  BY <1>1, <1>2, <1>3 DEF NextModels, modelsVars, managerVars

LEMMA ModelsFileKept ==
  ASSUME ModelsInv, [NextModels]_modelsVars PROVE FileTypes' /\ OneSaver'
<1> USE DEF ModelsInv
<1>1. file \in Files(SUBSET Ids) /\ Load \in SUBSET Ids /\ config \in SUBSET Ids
  BY LoadTypes DEF FileTypes, ManagerTypes
<1>2. \A M \in SUBSET Ids : M # Torn /\ M # Absent
  BY ModelsAssumption
<1>3. ASSUME NEW s \in Savers, Create(s) PROVE FileTypes' /\ OneSaver'
  <2>1. file' \in Files(SUBSET Ids) /\ file'.tmp = Torn /\ file'.file = file.file
    BY <1>1, <1>3, EmptiedFile DEF Create
  <2>2. FileTypes'
    BY <1>3, <2>1 DEF Create, Reaches, FileTypes, Steps
  <2>3. Load' = Load
    BY <2>1 DEF Load
  <2> QED
    BY <1>3, <2>1, <2>2, <2>3 DEF Create, Reaches, FileTypes, OneSaver, managerVars, Savers
<1>4. ASSUME NEW s \in Savers, Fill(s) PROVE FileTypes' /\ OneSaver'
  <2>1. saver[s].models \in SUBSET Ids
    BY DEF FileTypes
  <2>2. file' \in Files(SUBSET Ids)
    BY <1>1, <1>4, <2>1, FilledFile DEF Fill
  <2>3. ASSUME ~raced PROVE file'.tmp = saver[s].models /\ file'.file = file.file
    <3>1. file.tmp = Torn
      BY <1>4, <2>3 DEF Fill, OneSaver
    <3>2. file' = Filled(file, saver[s].models)
      BY <1>4 DEF Fill
    <3> QED
      BY <1>1, <3>1, <3>2, SavedFileAssumption DEF Filled, Files
  <2>4. FileTypes'
    BY <1>4, <2>2 DEF Fill, Reaches, FileTypes, Steps
  <2>5. ASSUME ~raced PROVE Load' = Load
    BY <2>3, <2>5 DEF Load
  <2> QED
    BY <1>4, <2>3, <2>4, <2>5 DEF Fill, Reaches, FileTypes, OneSaver, managerVars, Savers
<1>5. ASSUME NEW s \in Savers, Rename(s) PROVE FileTypes' /\ OneSaver'
  <2>1. file' \in Files(SUBSET Ids)
    BY <1>1, <1>5, RenamedFile DEF Rename
  <2>2. FileTypes'
    BY <1>1, <1>5, <2>1 DEF Rename, FileTypes, Steps, Idle
  <2>3. ASSUME ~raced PROVE file'.file = saver[s].models /\ file'.file # Torn
    BY <1>1, <1>2, <1>5, <2>3, RenamedFile DEF Rename, OneSaver, FileTypes
  <2>4. ASSUME ~raced PROVE added' = {} \/ added' \subseteq Load'
    <3>1. CASE file'.file = {}
      <4>1. added' = {}
        BY <1>5, <2>3, <2>4, <3>1 DEF Rename, OneSaver, Savers
      <4> QED
        BY <4>1
    <3>2. CASE file'.file # {}
      <4>1. Load' = saver[s].models
        BY <1>2, <2>3, <2>4, <3>2 DEF Load, FileTypes
      <4> QED
        BY <1>5, <2>4, <4>1 DEF Rename, OneSaver, Savers
    <3> QED
      BY <3>1, <3>2
  <2> QED
    BY <1>5, <2>2, <2>3, <2>4 DEF Rename, OneSaver, Savers, Idle, FileTypes
<1>6. ASSUME NEW id \in Ids, AddModel(id) PROVE FileTypes' /\ OneSaver'
  <2>1. FileTypes'
    BY <1>1, <1>6 DEF AddModel, Begin, FileTypes, Steps, Savers
  <2>2. Load' = Load
    BY <1>6 DEF AddModel, Load
  <2> QED
    BY <1>6, <2>1, <2>2 DEF AddModel, Begin, FileTypes, OneSaver, Savers
<1>7. ASSUME NEW models \in SUBSET OAuth, Sync(models) PROVE FileTypes' /\ OneSaver'
  <2>0. PICK loaded \in Loads : Begin("login", (loaded \ OAuth) \cup models, loaded)
    BY <1>7 DEF Sync
  <2>a. (loaded \ OAuth) \cup models \in SUBSET Ids
    BY <1>1, <1>7, ModelsAssumption DEF Loads, Ids
  <2>1. FileTypes'
    BY <1>7, <2>0, <2>a DEF Sync, Begin, FileTypes, Steps, Savers
  <2>2. Load' = Load
    BY <1>7 DEF Sync, Load
  <2>3. ASSUME ~raced' PROVE ~raced /\ loaded = Load /\ added \subseteq (loaded \ OAuth) \cup models
    BY <2>0, <2>3 DEF Begin, OneSaver, FileTypes
  <2> QED
    BY <1>7, <2>0, <2>1, <2>2, <2>3 DEF Sync, Begin, FileTypes, OneSaver, Savers, managerVars
<1>8. ASSUME RestartModels PROVE FileTypes' /\ OneSaver'
  <2>1. Load' = Load
    BY <1>8 DEF RestartModels, Load
  <2> QED
    BY <1>8, <2>1 DEF RestartModels, FileTypes, OneSaver, Idle, Steps, Savers
<1>10. ASSUME NEW s \in Savers, SaveDrops(s) PROVE FileTypes' /\ OneSaver'
  <2>1. FileTypes'
    BY <1>10 DEF SaveDrops, FileTypes, Steps, Idle
  <2>2. Load' = Load
    BY <1>10 DEF SaveDrops, Load
  <2> QED
    BY <1>10, <2>1, <2>2 DEF SaveDrops, FileTypes, OneSaver, Idle, Savers, managerVars
<1>9. ASSUME UNCHANGED <<config, fileVars>> PROVE FileTypes' /\ OneSaver'
  <2>1. Load' = Load
    BY <1>9 DEF Load, fileVars
  <2> QED
    BY <1>9, <2>1 DEF fileVars, FileTypes, OneSaver
<1> QED
  BY <1>3, <1>4, <1>5, <1>6, <1>7, <1>8, <1>9, <1>10, FileSteps

(* What can disturb the tokens.                                            *)
LEMMA TokenSteps ==
  ASSUME [NextModels]_modelsVars
  PROVE  \/ \E c \in Chats, id \in Ids : SwitchInner(c, id)
         \/ Login \/ Logout
         \/ \E c \in Calls :
              Refresh(c) \/ Post(c) \/ Unheard(c) \/ SaveTokens(c) \/ Keep(c) \/ Unkept(c)
         \/ RestartModels
         \/ UNCHANGED <<inner, tokenVars>>
<1>1. ASSUME NEW c \in Chats, SwitchId(c) PROVE UNCHANGED <<inner, tokenVars>>
  BY <1>1 DEF SwitchId
<1>2. ASSUME NEW s \in Savers, Create(s) \/ Fill(s) \/ Rename(s) \/ SaveDrops(s)
      PROVE  UNCHANGED <<inner, tokenVars>>
  BY <1>2 DEF Create, Fill, Rename, SaveDrops, managerVars
<1>3. ASSUME NEW id \in Ids, AddModel(id) PROVE UNCHANGED <<inner, tokenVars>>
  BY <1>3 DEF AddModel
<1>4. ASSUME NEW models \in SUBSET OAuth, Sync(models) \/ HasModel PROVE UNCHANGED <<inner, tokenVars>>
  BY <1>4 DEF Sync, HasModel, managerVars
<1> QED
  BY <1>1, <1>2, <1>3, <1>4 DEF NextModels, modelsVars, managerVars

LEMMA TokensKept ==
  ASSUME ModelsInv, [NextModels]_modelsVars PROVE TokenTypes' /\ OneRefresh'
<1> USE DEF ModelsInv
<1>1. ASSUME NEW c \in Chats, NEW id \in Ids, SwitchInner(c, id) PROVE TokenTypes' /\ OneRefresh'
  <2>1. TokenTypes'
    BY <1>1 DEF SwitchInner, SetInner, TokenTypes
  <2>2. Refreshing' = Refreshing
    BY <1>1 DEF SwitchInner, SetInner, Refreshing, TokenTypes
  <2>3. ASSUME ~crossed', ~lost' PROVE Refreshing = {} /\ ~crossed /\ disk \in {0, live}
    BY <1>1, <2>3 DEF SwitchInner, SetInner, OneRefresh, TokenTypes
  <2>4. ASSUME ~crossed', ~lost', id \in OAuth PROVE disk = live
    BY <1>1, <2>3, <2>4 DEF SwitchInner, CanCreate
  <2>5. inner' = id /\ (id \in OAuth => mem' = disk) /\ UNCHANGED <<live, disk>>
    BY <1>1 DEF SwitchInner, SetInner
  <2>6. ASSUME ~crossed', ~lost' PROVE Refreshing' = {}
    BY <2>2, <2>3, <2>6
  <2>7. ASSUME ~crossed', ~lost', id \in OAuth PROVE mem' = live' /\ disk' = live'
    BY <2>4, <2>5, <2>7
  <2>8. ASSUME ~crossed', ~lost' PROVE disk' \in {0, live'}
    BY <2>3, <2>5, <2>8
  <2>9. OneRefresh'
    <3>1. CASE crossed' \/ lost'
      BY <3>1 DEF OneRefresh
    <3>2. CASE ~crossed' /\ ~lost'
      BY <2>5, <2>6, <2>7, <2>8, <3>2 DEF OneRefresh
    <3> QED
      BY <3>1, <3>2
  <2> QED
    BY <2>1, <2>9
<1>2. ASSUME Login PROVE TokenTypes' /\ OneRefresh'
  <2>0. live' \in Nat /\ disk' \in Nat
    <3>1. live' = live + 1 /\ (disk' = live + 1 \/ disk' \in {disk, 0})
      BY <1>2 DEF Login
    <3> QED
      BY <3>1 DEF TokenTypes
  <2>a. lost' \in BOOLEAN /\ crossed' \in BOOLEAN /\ UNCHANGED <<mem, call>>
    BY Zenon, <1>2 DEF Login, TokenTypes
  <2>1. TokenTypes'
    BY <2>0, <2>a DEF TokenTypes
  <2>2. Refreshing' = Refreshing
    BY <1>2 DEF Login, Refreshing
  <2> QED
    BY <1>2, <2>1, <2>2 DEF Login, OneRefresh, managerVars
<1>3. ASSUME Logout PROVE TokenTypes' /\ OneRefresh'
  <2>1. TokenTypes'
    BY <1>3 DEF Logout, TokenTypes
  <2>2. Refreshing' = Refreshing
    BY <1>3 DEF Logout, Refreshing
  <2> QED
    BY <1>3, <2>1, <2>2 DEF Logout, OneRefresh, managerVars
<1>4. ASSUME NEW c \in Calls, Refresh(c) PROVE TokenTypes' /\ OneRefresh'
  <2>1. TokenTypes'
    BY <1>4 DEF Refresh, TokenTypes
  <2>2. Refreshing' = Refreshing \cup {c}
    BY <1>4 DEF Refresh, Refreshing, TokenTypes
  <2>3. ASSUME ~crossed', ~lost'
        PROVE  Refreshing = {} /\ ~crossed /\ mem = live /\ disk = live /\ inner \in OAuth
    BY <1>4, <2>3 DEF Refresh, OneRefresh, TokenTypes
  <2>4. call'[c] = [at |-> "post", old |-> mem, new |-> 0, own |-> TRUE]
    BY <1>4 DEF Refresh, TokenTypes
  <2> QED
    BY <1>4, <2>1, <2>2, <2>3, <2>4 DEF Refresh, OneRefresh, TokensOf, managerVars
<1>5. ASSUME NEW c \in Calls, c \in Refreshing, ~crossed, ~lost
      PROVE  /\ Refreshing = {c} /\ inner \in OAuth /\ call[c].own
             /\ call[c].at = "post" => call[c].old = live /\ mem = live /\ disk = live
             /\ call[c].at \in {"save", "fill"} => call[c].new = live
             /\ call[c].at = "keep" => call[c].new = live /\ disk = live
  BY <1>5 DEF OneRefresh, TokensOf
<1>6. ASSUME NEW c \in Calls, Post(c) PROVE TokenTypes' /\ OneRefresh'
  <2>1. TokenTypes'
    <3>1. CASE live' = live + 1 /\ call' = [call EXCEPT ![c].at = "save", ![c].new = live + 1]
      BY <1>6, <3>1 DEF Post, TokenTypes
    <3>2. CASE live' = live /\ call' = [call EXCEPT ![c] = NoCall]
      BY <1>6, <3>2 DEF Post, TokenTypes, NoCall
    <3> QED
      BY <1>6, <3>1, <3>2 DEF Post
  <2>2. c \in Refreshing
    BY <1>6 DEF Post, Refreshing
  <2>3. ASSUME ~crossed, ~lost
        PROVE  Refreshing' = {c} /\ inner' \in OAuth /\ call'[c].own /\ call'[c].at = "save" /\ call'[c].new = live'
    <3>1. call' = [call EXCEPT ![c].at = "save", ![c].new = live + 1] /\ live' = live + 1
      BY <1>5, <1>6, <2>2, <2>3 DEF Post
    <3> QED
      BY <1>5, <1>6, <2>2, <2>3, <3>1 DEF Post, Refreshing, TokenTypes, managerVars
  <2>4. crossed' = crossed /\ lost' = lost
    BY <1>6 DEF Post
  <2> QED
    BY <2>1, <2>3, <2>4 DEF OneRefresh, TokensOf
<1>7. ASSUME NEW c \in Calls, SaveTokens(c) PROVE TokenTypes' /\ OneRefresh'
  <2>1. TokenTypes'
    BY <1>7 DEF SaveTokens, TokenTypes
  <2>2. c \in Refreshing
    BY <1>7 DEF SaveTokens, Refreshing
  <2>3. Refreshing' = Refreshing
    BY <1>7, <2>2 DEF SaveTokens, Refreshing, TokenTypes
  <2>4. ASSUME ~crossed, ~lost
        PROVE  /\ call'[c].own /\ call'[c].at \in {"fill", "keep"} /\ call'[c].new = live'
               /\ call'[c].at = "keep" => disk' = live'
    BY <1>5, <1>7, <2>2, <2>4 DEF SaveTokens, TokenTypes
  <2> QED
    BY <1>5, <1>7, <2>1, <2>2, <2>3, <2>4 DEF SaveTokens, OneRefresh, TokensOf, managerVars
<1>8. ASSUME NEW c \in Calls, Keep(c) PROVE TokenTypes' /\ OneRefresh'
  <2>1. TokenTypes'
    BY <1>8 DEF Keep, TokenTypes, NoCall
  <2>2. c \in Refreshing
    BY <1>8 DEF Keep, Refreshing
  <2>3. ASSUME ~crossed, ~lost PROVE Refreshing' = {} /\ mem' = live' /\ disk' = live'
    BY <1>5, <1>8, <2>2, <2>3 DEF Keep, Refreshing, TokenTypes, NoCall
  <2> QED
    BY <1>8, <2>1, <2>3 DEF Keep, OneRefresh, managerVars
<1>9. ASSUME RestartModels PROVE TokenTypes' /\ OneRefresh'
  <2>1. TokenTypes'
    BY <1>9 DEF RestartModels, TokenTypes, NoCall
  <2>2. Refreshing' = {}
    BY <1>9 DEF RestartModels, Refreshing, NoCall
  <2>3. ASSUME ~crossed', ~lost'
        PROVE  disk' \in {0, live'} /\ (inner' \in OAuth => mem' = live' /\ disk' = live')
    BY <1>9, <2>3 DEF RestartModels, OneRefresh, TokenTypes, CanCreate
  <2> QED
    BY <2>1, <2>2, <2>3 DEF OneRefresh
<1>11. ASSUME NEW c \in Calls, Unheard(c) PROVE TokenTypes' /\ OneRefresh'
  <2>1. TokenTypes'
    <3>1. live' \in Nat /\ lost' \in BOOLEAN
      <4>1. lost' = lost \/ lost' = TRUE
        BY <1>11 DEF Unheard
      <4>2. live' = live \/ live' = live + 1
        BY <1>11 DEF Unheard
      <4>3. lost' \in BOOLEAN
        BY Zenon, <4>1 DEF TokenTypes
      <4> QED
        BY <4>2, <4>3 DEF TokenTypes
    <3>2. call' = [call EXCEPT ![c] = NoCall] /\ UNCHANGED <<disk, mem, crossed>>
      BY <1>11 DEF Unheard
    <3> QED
      BY <3>1, <3>2 DEF TokenTypes, NoCall
  <2>2. c \in Refreshing
    BY <1>11 DEF Unheard, Refreshing
  <2>3. ASSUME ~crossed', ~lost' PROVE ~crossed /\ ~lost /\ UNCHANGED live
    BY <1>11, <2>3 DEF Unheard
  <2>4. ASSUME ~crossed', ~lost' PROVE Refreshing' = {} /\ mem' = live' /\ disk' = live'
    BY <1>5, <1>11, <2>2, <2>3, <2>4 DEF Unheard, Refreshing, TokenTypes, NoCall
  <2> QED
    BY <1>11, <2>1, <2>4 DEF OneRefresh
<1>12. ASSUME NEW c \in Calls, Unkept(c) PROVE TokenTypes' /\ OneRefresh'
  BY <1>12 DEF Unkept, TokenTypes, OneRefresh, NoCall
<1>10. ASSUME UNCHANGED <<inner, tokenVars>> PROVE TokenTypes' /\ OneRefresh'
  <2>1. Refreshing' = Refreshing
    BY <1>10 DEF tokenVars, Refreshing
  <2> QED
    BY <1>10, <2>1 DEF tokenVars, TokenTypes, OneRefresh, TokensOf
<1> QED
  BY <1>1, <1>2, <1>3, <1>4, <1>6, <1>7, <1>8, <1>9, <1>10, <1>11, <1>12, TokenSteps

(* The invariant of the models.                                            *)
THEOREM ModelsInvariant == ModelsSpec => []ModelsInv
<1>1. ModelsInv /\ [NextModels]_modelsVars => ModelsInv'
  BY ManagerKept, ModelsFileKept, TokensKept DEF ModelsInv
<1> QED
  BY <1>1, ModelsInit, PTL DEF ModelsSpec

(* switch_model writes the provider and then its id, and other chats, the  *)
(* list's writer and a failing create_provider come between: outside of a  *)
(* switch, and without two at once, the announced model answers.           *)
THEOREM AnnouncedIsInner == ModelsSpec => []AnnouncedModelAnswers
<1>1. ModelsInv => AnnouncedModelAnswers
  BY DEF ModelsInv, OneSwitch, AnnouncedModelAnswers
<1> QED
  BY <1>1, ModelsInvariant, PTL

(* save_models_config: whatever step of a save fails or the process ends   *)
(* in, models.json parses and has the models listed by every add_model     *)
(* whose own save went through, beside logins that replace the OAuth       *)
(* models; unless two saves overlapped or a list was not read.             *)
THEOREM AddedModelsKept == ModelsSpec => []AddedModelsSurvive
<1>1. ModelsInv => AddedModelsSurvive
  BY DEF ModelsInv, FileTypes, OneSaver, AddedModelsSurvive
<1> QED
  BY <1>1, ModelsInvariant, PTL

(* A refresh takes the token, posts it, saves the answer and keeps it:     *)
(* when it is over, the next one is accepted, of this process or of one    *)
(* that starts after a crash - unless another refresh, a login, a switch   *)
(* or a crash came in between, or a new token was lost on its way.         *)
THEOREM TokensAccepted == ModelsSpec => []RefreshAccepted
<1>1. ModelsInv => RefreshAccepted
  BY DEF ModelsInv, OneRefresh, RefreshAccepted
<1> QED
  BY <1>1, ModelsInvariant, PTL

-----------------------------------------------------------------------------
(* `zymi update`: the copy that is renamed over the program is a release   *)
(* that could be unpacked, filled to its end.                              *)
UpdateInv ==
  /\ exe \in [file : {"old", "new", Torn}, tmp : {Torn, Absent, "old", "new", "cut"}]
  /\ inPlace \in BOOLEAN /\ (~inPlace => exe.file \in {"old", "new"})
  /\ update.at \in {"copy", "fill", "rename", "sudo"} => update.release = "new"
  /\ update.at = "fill" => exe.tmp = Torn
  /\ update.at = "rename" => exe.tmp = "new"
  /\ update \in [at : {"idle", "verify", "extract", "copy", "fill", "rename", "sudo"}, release : {None, "new", "cut"}]

(* What can disturb an update.                                             *)
LEMMA UpdateSteps ==
  ASSUME [Next]_vars PROVE UpdateStep \/ UNCHANGED updateVars
<1>1. ASSUME NEW c \in Cmds, CommandStep(c) PROVE UNCHANGED updateVars
  BY <1>1 DEF CommandStep, StartChecks, WritePid, WriteFails, Watch, StopChecks, StatusChecks, Polls, Forces,
              RemovePid, SpawnDaemon
<1>2. ASSUME ProcessStep PROVE UNCHANGED updateVars
  BY <1>2 DEF ProcessStep, Ready, FinalPush, Crash, PidReused
<1>3. ASSUME FiveSeconds \/ InDaemon \/ GitStep PROVE UNCHANGED updateVars
  BY <1>3 DEF FiveSeconds, InDaemon, GitStep
<1> QED
  BY <1>1, <1>2, <1>3 DEF Next, vars

LEMMA UpdateKept ==
  ASSUME UpdateInv, [Next]_vars PROVE UpdateInv'
<1>1. ASSUME Download PROVE UpdateInv'
  BY <1>1 DEF Download, UpdateInv
<1>2. ASSUME NEW listed \in BOOLEAN, Verify(listed) PROVE UpdateInv'
  BY <1>2 DEF Verify, Advance, EndsUpdate, NoUpdate, UpdateInv
<1>3. ASSUME Extract PROVE UpdateInv'
  BY <1>3 DEF Extract, Advance, EndsUpdate, NoUpdate, UpdateInv
<1>4. ASSUME Replace PROVE UpdateInv'
  <2>1. CASE update.at = "copy"
    BY <1>4, <2>1 DEF Replace, Advance, UpdateInv, Emptied
  <2>2. CASE update.at = "fill"
    BY <1>4, <2>2, SavedFileAssumption DEF Replace, Advance, UpdateInv, Filled
  <2>3. CASE update.at = "rename"
    BY <1>4, <2>3 DEF Replace, EndsUpdate, NoUpdate, UpdateInv, Renamed, Saved
  <2> QED
    BY <1>4, <2>1, <2>2, <2>3 DEF Replace
<1>5. ASSUME UpdateFails PROVE UpdateInv'
  BY <1>5 DEF UpdateFails, EndsUpdate, NoUpdate, UpdateInv
<1>6. ASSUME UNCHANGED updateVars PROVE UpdateInv'
  BY <1>6 DEF updateVars, UpdateInv
<1>7. ASSUME SudoCopies PROVE UpdateInv'
  <2>1. CASE update.at = "copy"
    <3>1. exe' = [exe EXCEPT !.file = Torn] /\ inPlace' = TRUE /\ update' = [update EXCEPT !.at = "sudo"]
      BY <1>7, <2>1 DEF SudoCopies
    <3>2. exe' \in [file : {"old", "new", Torn}, tmp : {Torn, Absent, "old", "new", "cut"}]
      BY <3>1 DEF UpdateInv
    <3>3. update'.at = "sudo" /\ update'.release = "new"
      BY <2>1, <3>1 DEF UpdateInv
    <3>4. update' \in [at : {"idle", "verify", "extract", "copy", "fill", "rename", "sudo"}, release : {None, "new", "cut"}]
      BY <3>1 DEF UpdateInv
    <3> QED
      BY <3>1, <3>2, <3>3, <3>4 DEF UpdateInv
  <2>2. CASE update.at = "sudo"
    <3>1. /\ exe' = [exe EXCEPT !.file = "new"] /\ inPlace' = FALSE
          /\ update' = [at |-> "idle", release |-> None]
      BY <1>7, <2>2 DEF SudoCopies, NoUpdate, UpdateInv
    <3>2. exe' \in [file : {"old", "new", Torn}, tmp : {Torn, Absent, "old", "new", "cut"}] /\ exe'.file = "new"
      BY <3>1 DEF UpdateInv
    <3> QED
      BY <3>1, <3>2 DEF UpdateInv
  <2> QED
    BY <1>7, <2>1, <2>2 DEF SudoCopies
<1> QED
  BY <1>1, <1>2, <1>3, <1>4, <1>5, <1>6, <1>7, UpdateSteps DEF UpdateStep

(* A download that was cut short, an archive that cannot be unpacked, a    *)
(* full disk between the copy and the rename: the program is the old one   *)
(* or the whole new one (daemon.rs, update), unless sudo's copy over the   *)
(* program itself is under way or was cut short.                           *)
THEOREM ProgramWhole == Spec => []BinaryWhole
<1>1. Init => UpdateInv
  <2> SUFFICES ASSUME Init PROVE UpdateInv
    OBVIOUS
  <2>1. exe = [file |-> "old", tmp |-> Absent] /\ inPlace = FALSE /\ update = [at |-> "idle", release |-> None]
    BY DEF Init, Saved, NoUpdate
  <2> QED
    BY <2>1 DEF UpdateInv
<1>2. UpdateInv /\ [Next]_vars => UpdateInv'
  BY UpdateKept
<1>3. UpdateInv => BinaryWhole
  BY DEF UpdateInv, BinaryWhole
<1> QED
  BY <1>1, <1>2, <1>3, PTL DEF Spec

-----------------------------------------------------------------------------
(* The daemon and the commands that start, stop and look for it.           *)
ProcStates == {"none", "starting", "telegram", "plain", "closing", "waiting", "pushing", "dead", "stranger"}
CmdSteps == {"idle", "spawn", "write", "fill", "watch", "poll", "force", "remove"}

ControlTypes ==
  /\ pidFile \in Pids \cup {None, "empty"}
  /\ proc \in [Pids -> ProcStates]
  /\ cmd \in [Cmds -> [at : CmdSteps, pid : Pids \cup {None}]]
  /\ untrack \in BOOLEAN

(* What a command that runs alone knows: before it spawns and before it    *)
(* removes zymi.pid no daemon lives, and in between only the one it works  *)
(* with, which zymi.pid names as soon as it is written.                    *)
CmdOK(k) ==
  /\ k.at \in {"spawn", "remove"} => Daemons = {}
  /\ k.at \in {"write", "fill", "watch", "poll", "force"} => Daemons \subseteq {k.pid} /\ k.pid \in Pids
  /\ k.at = "fill" => pidFile = "empty"
  /\ k.at \in {"watch", "poll", "force"} => pidFile = k.pid

Tracked ==
  ~untrack =>
    /\ \A c, d \in Cmds : cmd[c].at # "idle" /\ cmd[d].at # "idle" => c = d
    /\ \A c \in Cmds : CmdOK(cmd[c])
    /\ (\A c \in Cmds : cmd[c].at = "idle") => Daemons \subseteq {pidFile}

ControlInv == ControlTypes /\ Tracked

(* A process ends or goes on: no daemon appears.                           *)
LEMMA FewerDaemons ==
  ASSUME ControlInv, proc' \in [Pids -> ProcStates], Daemons' \subseteq Daemons,
         UNCHANGED <<pidFile, cmd, untrack>>
  PROVE  ControlInv'
<1>1. ControlTypes'
  BY DEF ControlInv, ControlTypes
<1> QED
  BY <1>1 DEF ControlInv, Tracked, CmdOK

LEMMA ProcessesKept ==
  ASSUME ControlInv, ProcessStep PROVE ControlInv'
<1> USE DEF ControlInv, ControlTypes, Becomes, Daemons, ProcStates
<1>1. PICK p \in Pids : Ready(p) \/ FinalPush(p) \/ Crash(p) \/ PidReused(p)
  BY DEF ProcessStep
<1>2. UNCHANGED <<pidFile, cmd, untrack>>
  BY <1>1 DEF Ready, FinalPush, Crash, PidReused
<1>3. proc' \in [Pids -> ProcStates] /\ Daemons' \subseteq Daemons
  <2>1. CASE Ready(p)
    BY <2>1 DEF Ready
  <2>2. CASE FinalPush(p)
    BY <2>2 DEF FinalPush
  <2>3. CASE Crash(p)
    BY <2>3 DEF Crash
  <2>4. CASE PidReused(p)
    BY <2>4 DEF PidReused
  <2> QED
    BY <1>1, <2>1, <2>2, <2>3, <2>4
<1> QED
  BY <1>2, <1>3, FewerDaemons

(* Five seconds: who waited for the process loses patience.                *)
LEMMA PatienceKept ==
  ASSUME ControlInv, FiveSeconds PROVE ControlInv'
<1>1. Daemons' = Daemons
  BY DEF FiveSeconds, Daemons
<1>2. \A p \in Pids : proc'[p] \in ProcStates
  BY DEF FiveSeconds, ControlInv, ControlTypes, ProcStates
<1>3. ControlTypes'
  BY <1>2 DEF FiveSeconds, ControlInv, ControlTypes, CmdSteps
<1>4. \A c \in Cmds : /\ cmd'[c].pid = cmd[c].pid
                      /\ cmd'[c].at = IF cmd[c].at = "poll" THEN "force" ELSE cmd[c].at
  BY DEF FiveSeconds, ControlInv, ControlTypes
<1>5. pidFile' = pidFile /\ untrack' = untrack
  BY DEF FiveSeconds
<1> QED
  BY <1>1, <1>3, <1>4, <1>5 DEF ControlInv, Tracked, CmdOK

(* A signal, or the end of a process, brings no daemon to life.            *)
LEMMA TerminateKills ==
  ASSUME ControlTypes, NEW p \in Pids, Terminate(p)
  PROVE  proc' \in [Pids -> ProcStates] /\ Daemons' \subseteq Daemons
BY DEF ControlTypes, Terminate, Becomes, Daemons, ProcStates

(* A command that begins alone.                                            *)
LEMMA BeginsAlone ==
  ASSUME ControlInv, NEW c \in Cmds, Begins(c), ~untrack'
  PROVE  ~untrack /\ (\A d \in Cmds : cmd[d].at = "idle") /\ Daemons \subseteq {pidFile}
BY DEF ControlInv, ControlTypes, Tracked, Begins

(* One command moves and the others rest.                                  *)
LEMMA OneCommand ==
  ASSUME ControlTypes', NEW c \in Cmds, \A d \in Cmds \ {c} : cmd'[d].at = "idle",
         cmd'[c].at # "idle" => CmdOK(cmd[c])',
         cmd'[c].at = "idle" => Daemons' \subseteq {pidFile'}
  PROVE  Tracked'
<1>1. \A d \in Cmds \ {c} : CmdOK(cmd[d])'
  BY DEF CmdOK
<1>2. CmdOK(cmd[c])'
  BY DEF CmdOK
<1> QED
  BY <1>1, <1>2 DEF Tracked

LEMMA StartKept ==
  ASSUME ControlInv, NEW c \in Cmds, StartChecks(c) \/ StatusChecks(c) PROVE ControlInv'
<1>0. Begins(c) /\ untrack' \in BOOLEAN
  BY DEF StartChecks, StatusChecks, Begins, ControlInv, ControlTypes
<1>1. ControlTypes'
  BY <1>0 DEF StartChecks, StatusChecks, Goes, ControlInv, ControlTypes, CmdSteps
<1>2. UNCHANGED <<pidFile, proc>> /\ Begins(c) /\ Daemons' = Daemons
  BY DEF StartChecks, StatusChecks, Daemons
<1>3. ASSUME ~untrack' PROVE Tracked'
  <2>1. (\A d \in Cmds : cmd[d].at = "idle") /\ Daemons \subseteq {pidFile}
    BY <1>2, <1>3, BeginsAlone
  <2>2. CASE Alive(pidFile)
    <3>1. cmd' = cmd
      BY <2>2 DEF StartChecks, StatusChecks
    <3> QED
      BY <1>1, <1>2, <2>1, <3>1, OneCommand
  <2>3. CASE ~Alive(pidFile)
    <3>1. Daemons = {}
      BY <2>1, <2>3 DEF Daemons, Alive
    <3>2. /\ \A d \in Cmds \ {c} : cmd'[d] = cmd[d]
          /\ cmd'[c].at \in {"spawn", "remove"}
      BY <2>3 DEF StartChecks, StatusChecks, Goes, ControlInv, ControlTypes
    <3>3. CmdOK(cmd[c])'
      BY <1>2, <3>1, <3>2 DEF CmdOK
    <3> QED
      BY <1>1, <2>1, <3>2, <3>3, OneCommand
  <2> QED
    BY <2>2, <2>3
<1> QED
  BY <1>1, <1>3 DEF ControlInv, Tracked

LEMMA StopKept ==
  ASSUME ControlInv, NEW c \in Cmds, StopChecks(c) PROVE ControlInv'
<1>0. Begins(c) /\ pidFile' = pidFile
  BY DEF StopChecks
<1>1. proc' \in [Pids -> ProcStates] /\ Daemons' \subseteq Daemons
  <2>1. CASE Alive(pidFile)
    BY <2>1, TerminateKills DEF StopChecks, Alive, ControlInv
  <2>2. CASE ~Alive(pidFile)
    BY <2>2 DEF StopChecks, ControlInv, ControlTypes, Daemons
  <2> QED
    BY <2>1, <2>2
<1>2. /\ \A d \in Cmds \ {c} : cmd'[d] = cmd[d]
      /\ cmd'[c] = IF Alive(pidFile) THEN [at |-> "poll", pid |-> pidFile] ELSE [at |-> "remove", pid |-> None]
      /\ cmd' \in [Cmds -> [at : CmdSteps, pid : Pids \cup {None}]]
  BY DEF StopChecks, Goes, ControlInv, ControlTypes, CmdSteps, Alive
<1>3. ControlTypes'
  BY <1>0, <1>1, <1>2 DEF Begins, ControlInv, ControlTypes
<1>4. ASSUME ~untrack' PROVE Tracked'
  <2>1. (\A d \in Cmds : cmd[d].at = "idle") /\ Daemons \subseteq {pidFile}
    BY <1>0, <1>4, BeginsAlone
  <2>2. CASE Alive(pidFile)
    <3>1. CmdOK(cmd[c])'
      BY <1>0, <1>1, <1>2, <2>1, <2>2 DEF CmdOK, Alive
    <3> QED
      BY <1>2, <1>3, <2>1, <2>2, <3>1, OneCommand
  <2>3. CASE ~Alive(pidFile)
    <3>1. Daemons = {}
      BY <2>1, <2>3 DEF Daemons, Alive
    <3>2. CmdOK(cmd[c])'
      BY <1>0, <1>1, <1>2, <2>3, <3>1 DEF CmdOK
    <3> QED
      BY <1>2, <1>3, <2>1, <2>3, <3>2, OneCommand
  <2> QED
    BY <2>2, <2>3
<1> QED
  BY <1>3, <1>4 DEF ControlInv, Tracked

(* The step of a command that runs alone.                                  *)
LEMMA CommandGoesOn ==
  ASSUME ControlInv, ~untrack, NEW c \in Cmds, cmd[c].at # "idle"
  PROVE  (\A d \in Cmds \ {c} : cmd[d].at = "idle") /\ CmdOK(cmd[c])
BY DEF ControlInv, Tracked

LEMMA SpawnKept ==
  ASSUME ControlInv, NEW c \in Cmds, NEW p \in Pids, SpawnDaemon(c, p) PROVE ControlInv'
<1>1. ControlTypes'
  BY DEF SpawnDaemon, Becomes, Goes, ControlInv, ControlTypes, CmdSteps, ProcStates
<1>2. Daemons' \subseteq Daemons \cup {p}
  BY DEF SpawnDaemon, Becomes, Daemons, ControlInv, ControlTypes
<1>3. /\ \A d \in Cmds \ {c} : cmd'[d] = cmd[d]
      /\ cmd'[c] = [at |-> "write", pid |-> p] /\ cmd[c].at = "spawn"
      /\ untrack' = untrack
  BY DEF SpawnDaemon, Goes, ControlInv, ControlTypes
<1>4. ASSUME ~untrack PROVE Tracked'
  <2>1. (\A d \in Cmds \ {c} : cmd[d].at = "idle") /\ Daemons = {}
    BY <1>3, <1>4, CommandGoesOn DEF CmdOK
  <2>2. CmdOK(cmd[c])'
    BY <1>2, <1>3, <2>1 DEF CmdOK
  <2> QED
    BY <1>1, <1>3, <2>1, <2>2, OneCommand
<1> QED
  BY <1>1, <1>3, <1>4 DEF ControlInv, Tracked

LEMMA WriteKept ==
  ASSUME ControlInv, NEW c \in Cmds, WritePid(c) PROVE ControlInv'
<1>1. ControlTypes'
  BY DEF WritePid, Goes, ControlInv, ControlTypes, CmdSteps
<1>2. Daemons' = Daemons /\ untrack' = untrack
  BY DEF WritePid, Daemons
<1>3. /\ \A d \in Cmds \ {c} : cmd'[d] = cmd[d]
      /\ cmd'[c].pid = cmd[c].pid
      /\ \/ cmd[c].at = "write" /\ pidFile' = "empty" /\ cmd'[c].at = "fill"
         \/ /\ cmd[c].at = "fill" /\ cmd'[c].at = "watch"
            /\ pidFile' = IF pidFile = None THEN None ELSE cmd[c].pid
  BY DEF WritePid, Goes, ControlInv, ControlTypes
<1>4. ASSUME ~untrack PROVE Tracked'
  <2>1. (\A d \in Cmds \ {c} : cmd[d].at = "idle") /\ CmdOK(cmd[c])
    BY <1>3, <1>4, CommandGoesOn
  <2>2. CmdOK(cmd[c])'
    BY <1>2, <1>3, <2>1, DaemonAssumption DEF CmdOK
  <2> QED
    BY <1>1, <1>3, <2>1, <2>2, OneCommand
<1> QED
  BY <1>1, <1>2, <1>4 DEF ControlInv, Tracked

(* A PID file that could not be written is one of the exceptions.          *)
LEMMA WriteFailsKept ==
  ASSUME ControlInv, NEW c \in Cmds, WriteFails(c) PROVE ControlInv'
<1>1. ControlTypes'
  BY DEF WriteFails, EndsCmd, NoCmd, ControlInv, ControlTypes, CmdSteps
<1>2. untrack'
  BY DEF WriteFails
<1> QED
  BY <1>1, <1>2 DEF ControlInv, Tracked

LEMMA WatchKept ==
  ASSUME ControlInv, NEW c \in Cmds, Watch(c) PROVE ControlInv'
<1>1. ControlTypes'
  BY DEF Watch, Removed, EndsCmd, NoCmd, ControlInv, ControlTypes, CmdSteps
<1>2. Daemons' = Daemons /\ untrack' = untrack /\ cmd[c].at = "watch"
  BY DEF Watch, Daemons
<1>3. (\A d \in Cmds \ {c} : cmd'[d] = cmd[d]) /\ cmd'[c].at = "idle"
  BY DEF Watch, EndsCmd, NoCmd, ControlInv, ControlTypes
<1>4. ASSUME ~untrack PROVE Tracked'
  <2>1. /\ \A d \in Cmds \ {c} : cmd[d].at = "idle"
        /\ Daemons \subseteq {cmd[c].pid} /\ pidFile = cmd[c].pid
    BY <1>2, <1>4, CommandGoesOn DEF CmdOK
  <2>2. Daemons' \subseteq {pidFile'}
    BY <1>2, <2>1 DEF Watch, Alive, Daemons
  <2> QED
    BY <1>1, <1>3, <2>1, <2>2, OneCommand
<1> QED
  BY <1>1, <1>2, <1>4 DEF ControlInv, Tracked

LEMMA PollKept ==
  ASSUME ControlInv, NEW c \in Cmds, Polls(c) PROVE ControlInv'
<1>1. ControlTypes'
  BY DEF Polls, Goes, ControlInv, ControlTypes, CmdSteps
<1>2. Daemons' = Daemons /\ untrack' = untrack /\ cmd[c].at = "poll" /\ ~Alive(cmd[c].pid)
  BY DEF Polls, Daemons
<1>3. (\A d \in Cmds \ {c} : cmd'[d] = cmd[d]) /\ cmd'[c].at = "remove"
  BY DEF Polls, Goes, ControlInv, ControlTypes
<1>4. ASSUME ~untrack PROVE Tracked'
  <2>1. (\A d \in Cmds \ {c} : cmd[d].at = "idle") /\ Daemons \subseteq {cmd[c].pid}
    BY <1>2, <1>4, CommandGoesOn DEF CmdOK
  <2>2. Daemons = {}
    BY <1>2, <2>1 DEF Alive, Daemons
  <2>3. CmdOK(cmd[c])'
    BY <1>2, <1>3, <2>2 DEF CmdOK
  <2> QED
    BY <1>1, <1>3, <2>1, <2>3, OneCommand
<1> QED
  BY <1>1, <1>2, <1>4 DEF ControlInv, Tracked

LEMMA ForceKept ==
  ASSUME ControlInv, NEW c \in Cmds, Forces(c) PROVE ControlInv'
<1>1. ControlTypes'
  BY DEF Forces, Goes, Becomes, ControlInv, ControlTypes, CmdSteps, ProcStates
<1>2. cmd[c].at = "force" /\ (~untrack' => ~untrack)
  BY DEF Forces, ControlInv, ControlTypes
<1>3. (\A d \in Cmds \ {c} : cmd'[d] = cmd[d]) /\ cmd'[c].at = "remove"
  BY DEF Forces, Goes, ControlInv, ControlTypes
<1>4. ASSUME ~untrack' PROVE Tracked'
  <2>1. (\A d \in Cmds \ {c} : cmd[d].at = "idle") /\ Daemons \subseteq {cmd[c].pid}
    BY <1>2, <1>4, CommandGoesOn DEF CmdOK
  <2>3. Daemons' \subseteq Daemons
    BY DEF Forces, Becomes, Daemons, ControlInv, ControlTypes
  <2>4. Daemons' = {}
    BY <1>4, <2>1, <2>3 DEF Forces, Becomes, Alive, Daemons, ControlInv, ControlTypes
  <2>5. CmdOK(cmd[c])'
    BY <1>3, <2>4 DEF CmdOK
  <2> QED
    BY <1>1, <1>3, <2>1, <2>5, OneCommand
<1> QED
  BY <1>1, <1>4 DEF ControlInv, Tracked

LEMMA RemoveKept ==
  ASSUME ControlInv, NEW c \in Cmds, RemovePid(c) PROVE ControlInv'
<1>1. ControlTypes'
  BY DEF RemovePid, Removed, EndsCmd, NoCmd, ControlInv, ControlTypes, CmdSteps
<1>2. Daemons' = Daemons /\ untrack' = untrack /\ cmd[c].at = "remove"
  BY DEF RemovePid, Daemons
<1>3. (\A d \in Cmds \ {c} : cmd'[d] = cmd[d]) /\ cmd'[c].at = "idle"
  BY DEF RemovePid, EndsCmd, NoCmd, ControlInv, ControlTypes
<1>4. ASSUME ~untrack PROVE Tracked'
  <2>1. (\A d \in Cmds \ {c} : cmd[d].at = "idle") /\ Daemons = {}
    BY <1>2, <1>4, CommandGoesOn DEF CmdOK
  <2> QED
    BY <1>1, <1>2, <1>3, <2>1, OneCommand
<1> QED
  BY <1>1, <1>2, <1>4 DEF ControlInv, Tracked

LEMMA ControlKept ==
  ASSUME ControlInv, [Next]_vars PROVE ControlInv'
<1>1. ASSUME NEW c \in Cmds, CommandStep(c) PROVE ControlInv'
  BY <1>1, StartKept, StopKept, SpawnKept, WriteKept, WriteFailsKept, WatchKept, PollKept, ForceKept, RemoveKept
  DEF CommandStep
<1>2. ASSUME UNCHANGED controlVars PROVE ControlInv'
  <2>1. Daemons' = Daemons
    BY <1>2 DEF controlVars, Daemons
  <2> QED
    BY <1>2, <2>1 DEF controlVars, ControlInv, ControlTypes, Tracked, CmdOK
<1>3. ASSUME InDaemon \/ GitStep \/ UpdateStep PROVE UNCHANGED controlVars
  BY <1>3 DEF InDaemon, GitStep, UpdateStep
<1> QED
  BY <1>1, <1>2, <1>3, ProcessesKept, PatienceKept DEF Next, vars

(* `zymi`, `zymi stop` and `zymi status` in any order, with daemons that   *)
(* fail to start, crash, ignore SIGTERM or linger in their shutdown, and   *)
(* pids that are used again: the daemon that lives is the one in zymi.pid, *)
(* unless two commands overlapped, a process outlived SIGKILL or the PID   *)
(* file of a daemon could not be written.                                  *)
THEOREM DaemonTracked == Spec => []DaemonIsTracked
<1>1. Init => ControlInv
  <2> SUFFICES ASSUME Init PROVE ControlInv
    OBVIOUS
  <2>1. ControlTypes
    BY DEF Init, ControlTypes, NoCmd, CmdSteps, ProcStates
  <2>2. Daemons = {} /\ \A c \in Cmds : cmd[c].at = "idle"
    BY DEF Init, NoCmd, Daemons
  <2> QED
    BY <2>1, <2>2 DEF ControlInv, Tracked, CmdOK
<1>2. ControlInv /\ [Next]_vars => ControlInv'
  BY ControlKept
<1>3. ControlInv => DaemonIsTracked
  BY DEF ControlInv, Tracked, DaemonIsTracked
<1> QED
  BY <1>1, <1>2, <1>3, PTL DEF Spec

-----------------------------------------------------------------------------
(* The schedule: the file, the writers and their copies of the list.       *)
RowSets == SUBSET Rows
WriterSteps == {"idle", "run", "create", "fill", "rename"}

ScheduleTypes ==
  /\ clock \in 0 .. MaxTime /\ now \in 0 .. MaxTime
  /\ schedule \in Files(RowSets)
  /\ work \in [Writers -> [at : WriterSteps, list : RowSets]]
  /\ fires \in [Entries -> 0 .. 2]
  /\ made \in SUBSET Entries /\ gone \in SUBSET Entries /\ kept \in SUBSET Entries
  /\ during \in SUBSET Entries /\ unnoted \in SUBSET Entries /\ stale \in BOOLEAN

(* An entry is listed once, and only when the tool made it.                *)
GoodList(list) ==
  /\ \A x, y \in list : x.id = y.id => x = y
  /\ \A x \in list : x.id \in made

(* The list has what was answered for.                                     *)
Complete(list) ==
  \A e \in kept \ (gone \cup during) : e \in EntryIds(list) \/ (e \in Once /\ fires[e] > 0)

(* A one-time entry that did not run; one that ran, and was not left       *)
(* unnoted, was marked by the tick that is running it.                     *)
New(x) == x.id \in Once => ~x.ran
Unfired(x) == x.id \in Once \ unnoted => fires[x.id] = 0
TickList == work["tick"].list
Noted(x) ==
  Unfired(x) \/ (work["tick"].at = "run" /\ \E y \in TickList : y.id = x.id /\ y.ran /\ y.last = now)

Writing(w) == work[w].at \notin {"idle", "run"}

(* A writer that saves alone has in the temporary file what it saves.      *)
WriterOK(w) ==
  /\ GoodList(work[w].list)
  /\ work[w].at = "idle" => work[w].list = {}
  /\ Writing(w) => Complete(work[w].list) /\ \A v \in Writers \ {w} : ~Writing(v)
  /\ work[w].at = "fill" => schedule.tmp = Torn
  /\ work[w].at = "rename" => schedule.tmp = work[w].list

ToolOK(w) == work[w].at # "run" /\ \A x \in work[w].list : New(x) /\ Noted(x)

(* The tick marks what it runs, and saves the others.                      *)
TickOK ==
  /\ work["tick"].at # "idle" => Complete(TickList)
  /\ \A y \in TickList :
       y.id \in Once => IF y.ran THEN work["tick"].at = "run" /\ fires[y.id] > 0 ELSE Unfired(y)

FileOK ==
  /\ schedule.file # Torn
  /\ GoodList(LoadSchedule) /\ Complete(LoadSchedule)
  /\ \A x \in LoadSchedule : New(x) /\ (~Writing("tick") => Noted(x))

FiresOK ==
  /\ \A e \in Once \ unnoted : fires[e] <= 1
  /\ \A e \in Entries : fires[e] > 0 => e \in made

Undisturbed ==
  ~stale =>
    /\ FileOK /\ FiresOK /\ TickOK
    /\ \A w \in Writers : WriterOK(w)
    /\ \A w \in Tools : ToolOK(w)

ScheduleInv == ScheduleTypes /\ Undisturbed

LEMMA ScheduleLoads == ScheduleTypes => LoadSchedule \in RowSets
BY SchedulerAssumption DEF ScheduleTypes, Files, LoadSchedule, RowSets

LEMMA ListIsNoHole == \A R \in RowSets : R # Torn /\ R # Absent
BY SchedulerAssumption DEF RowSets

(* What can disturb the schedule: its own steps and the process's end.     *)
LEMMA ScheduleSteps ==
  ASSUME [Next]_vars PROVE Tick \/ NextSchedule \/ EndSchedule \/ UNCHANGED scheduleVars
<1>1. ASSUME NEW c \in Cmds, StopChecks(c) \/ Forces(c) PROVE EndSchedule \/ UNCHANGED scheduleVars
  BY <1>1 DEF StopChecks, Forces, Terminate, EndWork, KeepWork
<1>2. ASSUME NEW c \in Cmds, CommandStep(c) PROVE EndSchedule \/ UNCHANGED scheduleVars
  BY <1>1, <1>2 DEF CommandStep, StartChecks, WritePid, WriteFails, Watch, StatusChecks, Polls, RemovePid,
                    SpawnDaemon, KeepWork
<1>3. ASSUME ProcessStep PROVE EndSchedule \/ UNCHANGED scheduleVars
  BY <1>3 DEF ProcessStep, Ready, FinalPush, Crash, PidReused, EndWork, KeepWork
<1>4. ASSUME FiveSeconds \/ GitStep \/ UpdateStep PROVE UNCHANGED scheduleVars
  BY <1>4 DEF FiveSeconds, GitStep, UpdateStep, KeepWork
<1>5. ASSUME InDaemon PROVE Tick \/ NextSchedule \/ UNCHANGED scheduleVars
  BY <1>5 DEF InDaemon
<1> QED
  BY <1>2, <1>3, <1>4, <1>5 DEF Next, vars

(* What the steps do to the variables.                                     *)
LEMMA ScheduleTyped ==
  ASSUME ScheduleTypes, Tick \/ NextSchedule \/ EndSchedule \/ UNCHANGED scheduleVars
  PROVE  ScheduleTypes'
<1> USE DEF ScheduleTypes
<1>0. LoadSchedule \in RowSets /\ "tick" \in Writers /\ Unnoted \in SUBSET Entries
  BY ScheduleLoads, SchedulerAssumption DEF Writers, Unnoted
<1>1. CASE Tick
  <2>1. now' \in 0 .. MaxTime /\ work' \in [Writers -> [at : WriterSteps, list : RowSets]]
    BY <1>0, <1>1 DEF Tick, Take, WriterSteps
  <2> QED
    BY <1>1, <2>1 DEF Tick
<1>2. CASE Minute
  BY <1>2, SchedulerAssumption DEF Minute
<1>3. CASE TickEnds
  <2>1. work' \in [Writers -> [at : WriterSteps, list : RowSets]]
    BY <1>0, <1>3 DEF TickEnds, Take, Retain, RowSets, WriterSteps
  <2>2. stale' \in BOOLEAN
    BY <1>3 DEF TickEnds, Overlaps
  <2> QED
    BY <1>3, <2>1, <2>2 DEF TickEnds
<1>4. ASSUME NEW entry \in work["tick"].list, Fire(entry) PROVE ScheduleTypes'
  <2>1. entry \in Rows /\ entry.id \in Entries
    BY <1>0 DEF RowSets, Rows
  <2>2. Ran(entry) \in Rows
    BY <2>1 DEF Ran, Rows
  <2>3. (work["tick"].list \ {entry}) \cup {Ran(entry)} \in RowSets
    BY <1>0, <2>2 DEF RowSets
  <2>4. work' \in [Writers -> [at : WriterSteps, list : RowSets]]
    BY <1>0, <1>4, <2>3 DEF Fire, Take, WriterSteps
  <2>5. fires' \in [Entries -> 0 .. 2]
    BY <1>4, <2>1 DEF Fire
  <2> QED
    BY <1>4, <2>4, <2>5 DEF Fire
<1>5. ASSUME NEW w \in Tools, NEW id \in Entries, Add(w, id) PROVE ScheduleTypes'
  <2>1. [id |-> id, ran |-> FALSE, last |-> clock] \in Rows
    BY DEF Rows
  <2>2. LoadSchedule \cup {[id |-> id, ran |-> FALSE, last |-> clock]} \in RowSets
    BY <1>0, <2>1 DEF RowSets
  <2>3. work' \in [Writers -> [at : WriterSteps, list : RowSets]]
    BY <1>5, <2>2 DEF Add, Take, WriterSteps
  <2>4. stale' \in BOOLEAN
    BY <1>5 DEF Add, Overlaps
  <2> QED
    BY <1>5, <2>3, <2>4 DEF Add
<1>6. ASSUME NEW w \in Tools, NEW id \in Entries, Delete(w, id) PROVE ScheduleTypes'
  <2>1. {entry \in LoadSchedule : entry.id # id} \in RowSets
    BY <1>0 DEF RowSets
  <2>2. work' \in [Writers -> [at : WriterSteps, list : RowSets]]
    BY <1>6, <2>1 DEF Delete, Take, WriterSteps
  <2>3. stale' \in BOOLEAN
    BY <1>6 DEF Delete, Overlaps
  <2> QED
    BY <1>6, <2>2, <2>3 DEF Delete
<1>7. ASSUME NEW w \in Writers, SaveSchedule(w) PROVE ScheduleTypes'
  <2>1. work' \in [Writers -> [at : WriterSteps, list : RowSets]]
    BY <1>7 DEF SaveSchedule, Step, WriterSteps
  <2>2. schedule' \in Files(RowSets)
    BY <1>7, EmptiedFile, FilledFile DEF SaveSchedule
  <2> QED
    BY <1>7, <2>1, <2>2 DEF SaveSchedule
<1>8. ASSUME NEW w \in Writers, EndSave(w) \/ SaveFails(w) PROVE ScheduleTypes'
  <2>1. work' \in [Writers -> [at : WriterSteps, list : RowSets]]
    BY <1>8 DEF EndSave, SaveFails, Take, WriterSteps, RowSets
  <2>2. schedule' \in Files(RowSets)
    BY <1>8, RenamedFile DEF EndSave, SaveFails
  <2>3. EntryIds(work[w].list) \in SUBSET Entries
    BY DEF EntryIds, RowSets, Rows
  <2>4. kept' \in SUBSET Entries /\ during' \in SUBSET Entries
    BY <1>8, <2>3 DEF EndSave, SaveFails
  <2>5. unnoted' \in SUBSET Entries
    BY <1>0, <1>8 DEF EndSave, SaveFails
  <2> QED
    BY <1>8, <2>1, <2>2, <2>4, <2>5 DEF EndSave, SaveFails
<1>9. CASE EndSchedule
  BY <1>0, <1>9 DEF EndSchedule, Resting, WriterSteps, RowSets
<1>10. CASE UNCHANGED scheduleVars
  BY <1>10 DEF scheduleVars
<1> QED
  BY <1>1, <1>2, <1>3, <1>4, <1>5, <1>6, <1>7, <1>8, <1>9, <1>10 DEF NextSchedule

(* A step that leaves the file and the lists alone.                        *)
LEMMA ScheduleIdles ==
  ASSUME ScheduleInv, UNCHANGED <<now, schedule, work, fires, made, gone, kept, during, stale, unnoted>>
  PROVE  Undisturbed'
<1>1. LoadSchedule' = LoadSchedule /\ TickList' = TickList
  BY DEF LoadSchedule, TickList
<1>2. \A list : /\ Complete(list)' <=> Complete(list)
                /\ GoodList(list)' <=> GoodList(list)
  BY DEF Complete, GoodList
<1>3. \A x : Noted(x)' <=> Noted(x)
  BY <1>1 DEF Noted, Unfired
<1> QED
  BY <1>1, <1>2, <1>3 DEF ScheduleInv, ScheduleTypes, Undisturbed, FileOK, FiresOK, TickOK, WriterOK, ToolOK,
                          GoodList, Complete, New, Unfired, Writing

(* What was answered for stays in a list when more is run or deleted.      *)
LEMMA StaysComplete ==
  ASSUME NEW list, Complete(list), UNCHANGED <<kept, during>>, gone \subseteq gone',
         \A e \in Once : fires[e] > 0 => fires'[e] > 0
  PROVE  Complete(list)'
BY DEF Complete

LEMMA TickStarts ==
  ASSUME ScheduleInv, Tick PROVE Undisturbed'
<1> SUFFICES ASSUME ~stale PROVE Undisturbed'
  BY DEF Tick, Undisturbed
<1> USE DEF ScheduleInv, ScheduleTypes
<1>1. CASE LoadSchedule = {}
  BY <1>1, ScheduleIdles DEF Tick
<1>2. CASE LoadSchedule # {}
  <2>1. /\ work["tick"].at = "idle" /\ work'["tick"] = [at |-> "run", list |-> LoadSchedule]
        /\ \A v \in Writers \ {"tick"} : work'[v] = work[v]
        /\ UNCHANGED <<schedule, fires, made, gone, kept, during, stale, unnoted>> /\ LoadSchedule' = LoadSchedule
        /\ "tick" \in Writers /\ TickList' = LoadSchedule
    BY <1>2 DEF Tick, Take, Writers, LoadSchedule, TickList
  <2>2. FileOK /\ FiresOK /\ \A w \in Writers : WriterOK(w)
    BY DEF Undisturbed
  <2>3. \A x : Noted(x) => Unfired(x) /\ Unfired(x)' /\ Noted(x)'
    BY <2>1 DEF Noted, Unfired
  <2>4. \A list : (Complete(list)' <=> Complete(list)) /\ (GoodList(list)' <=> GoodList(list))
    BY <2>1 DEF Complete, GoodList
  <2>5. \A v \in Writers : Writing(v)' <=> Writing(v)
    BY <2>1 DEF Writing
  <2>6. FileOK'
    BY <2>1, <2>2, <2>3, <2>4, <2>5 DEF FileOK, New, Writing
  <2>7. FiresOK'
    BY <2>1, <2>2 DEF FiresOK
  <2>8. TickOK'
    <3>1. \A y \in LoadSchedule : New(y) /\ Unfired(y)'
      BY <2>1, <2>2, <2>3 DEF FileOK, Writing
    <3> QED
      BY <2>1, <2>2, <2>4, <3>1 DEF TickOK, FileOK, New
  <2>9. \A w \in Writers : WriterOK(w)'
    <3>1. WriterOK("tick")'
      BY <2>1, <2>2, <2>4, <2>5 DEF WriterOK, FileOK, Writing
    <3>2. \A w \in Writers \ {"tick"} : WriterOK(w)'
      BY <2>1, <2>2, <2>4, <2>5 DEF WriterOK
    <3> QED
      BY <3>1, <3>2
  <2>10. \A w \in Tools : ToolOK(w)'
    BY <2>1, <2>3, SchedulerAssumption DEF Undisturbed, ToolOK, New, Writers
  <2> QED
    BY <2>6, <2>7, <2>8, <2>9, <2>10 DEF Undisturbed
<1> QED
  BY <1>1, <1>2

LEMMA FireKept ==
  ASSUME ScheduleInv, NEW entry \in work["tick"].list, Fire(entry) PROVE Undisturbed'
<1> SUFFICES ASSUME ~stale PROVE Undisturbed'
  BY DEF Fire, Undisturbed
<1> USE DEF ScheduleInv, ScheduleTypes
<1>1. "tick" \in Writers /\ TickList \in RowSets /\ entry \in Rows /\ entry.id \in Entries
  BY DEF Writers, TickList, RowSets, Rows
<1>2. /\ work["tick"].at = "run"
      /\ work'["tick"] = [at |-> "run", list |-> (TickList \ {entry}) \cup {Ran(entry)}]
      /\ \A v \in Writers \ {"tick"} : work'[v] = work[v]
      /\ fires' = [fires EXCEPT ![entry.id] = IF @ = 2 THEN 2 ELSE @ + 1]
      /\ UNCHANGED <<schedule, made, gone, kept, during, unnoted, now, stale>> /\ LoadSchedule' = LoadSchedule
      /\ TickList' = (TickList \ {entry}) \cup {Ran(entry)}
  BY <1>1 DEF Fire, Take, LoadSchedule, TickList
<1>3. Ran(entry).id = entry.id /\ Ran(entry).ran /\ Ran(entry).last = now
  BY <1>1 DEF Ran, Rows
<1>4. /\ \A e \in Entries : fires[e] > 0 => fires'[e] > 0
      /\ fires'[entry.id] > 0 /\ \A e \in Entries : e # entry.id => fires'[e] = fires[e]
  BY <1>1, <1>2
<1>5. GoodList(TickList) /\ TickOK /\ FileOK /\ FiresOK /\ \A w \in Writers : WriterOK(w)
  BY <1>1 DEF Undisturbed, WriterOK, TickList
<1>6. GoodList(TickList') /\ EntryIds(TickList') = EntryIds(TickList)
  <2>1. GoodList(TickList')
    BY <1>2, <1>3, <1>5 DEF GoodList, TickList
  <2> HIDE DEF TickList
  <2>2. entry \in TickList
    BY DEF TickList
  <2> QED
    BY <1>2, <1>3, <2>1, <2>2 DEF EntryIds
<1>7. \A list : (Complete(list) => Complete(list)') /\ (GoodList(list)' <=> GoodList(list))
  BY <1>2, <1>4, StaysComplete, SchedulerAssumption DEF GoodList
<1>8. \A v \in Writers : Writing(v)' <=> Writing(v)
  BY <1>2 DEF Writing
<1>9. ASSUME NEW x, x.id \in Entries, Noted(x) PROVE Noted(x)'
  <2>1. CASE x.id = entry.id
    BY <1>2, <1>3, <2>1 DEF Noted
  <2>2. CASE x.id # entry.id
    <3>1. Unfired(x) => Unfired(x)'
      BY <1>2, <1>4, <1>9, <2>2 DEF Unfired
    <3> QED
      BY <1>2, <1>9, <2>2, <3>1 DEF Noted
  <2> QED
    BY <2>1, <2>2
<1>10. LoadSchedule \in RowSets /\ \A w \in Writers : work[w].list \in RowSets
  BY ScheduleLoads
<1>11. FileOK'
  BY <1>1, <1>2, <1>5, <1>7, <1>8, <1>9, <1>10 DEF FileOK, New, RowSets, Rows
<1>12. FiresOK'
  <2>1. entry.id \in Once => ~entry.ran
    BY DEF Fire, ShouldFire
  <2>2. entry.id \in Once \ unnoted => fires[entry.id] = 0
    BY <1>5, <2>1 DEF TickOK, Unfired, TickList
  <2>3. entry.id \in Once \ unnoted => fires'[entry.id] <= 1
    BY <1>1, <1>2, <2>2
  <2>4. entry.id \in made
    BY <1>5 DEF GoodList, TickList
  <2> QED
    BY <1>2, <1>4, <1>5, <2>3, <2>4, SchedulerAssumption DEF FiresOK
<1>13. TickOK'
  <2>1. Complete(TickList)'
    BY <1>2, <1>4, <1>5, <1>6, <1>7, SchedulerAssumption DEF TickOK, Complete
  <2>2. ASSUME NEW y \in TickList', y.id \in Once
        PROVE  IF y.ran THEN fires'[y.id] > 0 ELSE Unfired(y)'
    <3>1. CASE y = Ran(entry)
      BY <1>3, <1>4, <3>1
    <3>2. CASE y \in TickList \ {entry}
      <4>1. y.id # entry.id /\ y.id \in Entries
        BY <1>1, <1>5, <3>2 DEF GoodList, RowSets, Rows, TickList
      <4> QED
        BY <1>2, <1>4, <1>5, <2>2, <3>2, <4>1 DEF TickOK, Unfired
    <3> QED
      BY <1>2, <3>1, <3>2
  <2> QED
    BY <1>2, <2>1, <2>2 DEF TickOK
<1>14. \A w \in Writers : WriterOK(w)'
  <2>1. WriterOK("tick")'
    BY <1>2, <1>6, <1>7 DEF WriterOK, Writing
  <2>2. \A w \in Writers \ {"tick"} : WriterOK(w)'
    BY <1>2, <1>5, <1>7, <1>8 DEF WriterOK
  <2> QED
    BY <2>1, <2>2
<1>15. \A w \in Tools : ToolOK(w)'
  <2> SUFFICES ASSUME NEW w \in Tools PROVE ToolOK(w)'
    OBVIOUS
  <2>1. w \in Writers /\ work'[w] = work[w]
    BY <1>2, SchedulerAssumption DEF Writers
  <2> QED
    BY <1>9, <1>10, <2>1 DEF Undisturbed, ToolOK, New, RowSets, Rows
<1> QED
  BY <1>11, <1>12, <1>13, <1>14, <1>15 DEF Undisturbed

LEMMA TickEndKept ==
  ASSUME ScheduleInv, TickEnds PROVE Undisturbed'
<1> SUFFICES ASSUME ~stale' PROVE Undisturbed'
  BY DEF Undisturbed
<1> USE DEF ScheduleInv, ScheduleTypes
<1>1. "tick" \in Writers /\ TickList \in RowSets /\ LoadSchedule \in RowSets
  BY ScheduleLoads DEF Writers, TickList
<1>2. /\ ~stale /\ work["tick"].at = "run" /\ \A v \in Writers \ {"tick"} : work'[v] = work[v]
      /\ UNCHANGED <<schedule, fires, made, gone, kept, during, unnoted, now>> /\ LoadSchedule' = LoadSchedule
  BY <1>1 DEF TickEnds, Take, LoadSchedule
<1>3. GoodList(TickList) /\ TickOK /\ FileOK /\ FiresOK /\ \A w \in Writers : WriterOK(w)
  BY <1>1, <1>2 DEF Undisturbed, WriterOK, TickList
<1>4. \A w \in Tools : ToolOK(w) /\ w \in Writers /\ w # "tick"
  BY <1>2, SchedulerAssumption DEF Undisturbed, Writers
<1>5. \A list : (Complete(list)' <=> Complete(list)) /\ (GoodList(list)' <=> GoodList(list))
  BY <1>2 DEF Complete, GoodList
<1>6. FiresOK'
  BY <1>2, <1>3 DEF FiresOK
<1>7. CASE \E y \in TickList : y.ran /\ y.last = now
  <2>1. /\ work'["tick"] = [at |-> "create", list |-> Retain(TickList)] /\ TickList' = Retain(TickList)
        /\ ~Overlaps("tick")
    <3>1. /\ work' = [work EXCEPT !["tick"] = [at |-> "create", list |-> Retain(TickList)]]
          /\ ~Overlaps("tick")
      BY <1>7 DEF TickEnds, Take, TickList
    <3> QED
      BY <1>1, <3>1 DEF TickList
  <2>2. \A w \in Tools : work[w].at = "idle" /\ work[w].list = {}
    BY <1>3, <1>4, <2>1 DEF Overlaps, ToolOK, WriterOK
  <2>3. Complete(Retain(TickList))
    <3> SUFFICES ASSUME NEW e \in kept \ (gone \cup during), e \notin EntryIds(Retain(TickList))
                 PROVE  e \in Once /\ fires[e] > 0
      BY DEF Complete
    <3>1. CASE e \in EntryIds(TickList)
      <4>1. PICK y \in TickList : y.id = e
        BY <3>1 DEF EntryIds
      <4>2. y.id \in Once /\ y.ran
        BY <4>1 DEF Retain, EntryIds
      <4> QED
        BY <1>3, <4>1, <4>2 DEF TickOK
    <3>2. CASE e \notin EntryIds(TickList)
      BY <1>2, <1>3, <3>2 DEF TickOK, Complete
    <3> QED
      BY <3>1, <3>2
  <2>4. GoodList(Retain(TickList))
    BY <1>3 DEF GoodList, Retain
  <2>5. TickOK'
    BY <1>2, <1>3, <1>5, <2>1, <2>3 DEF TickOK, Retain, Unfired
  <2>6. \A w \in Writers : WriterOK(w)'
    <3>1. WriterOK("tick")'
      BY <1>2, <1>4, <1>5, <2>1, <2>2, <2>3, <2>4 DEF WriterOK, Writing, Writers
    <3>2. \A w \in Tools : WriterOK(w)'
      BY <1>2, <1>3, <1>4, <1>5, <2>2 DEF WriterOK, Writing
    <3> QED
      BY <3>1, <3>2 DEF Writers
  <2>7. \A w \in Tools : ToolOK(w)'
    BY <1>2, <1>4, <2>2 DEF ToolOK
  <2>8. FileOK'
    BY <1>2, <1>3, <1>5, <2>1 DEF FileOK, Writing, New
  <2> QED
    BY <1>6, <2>5, <2>6, <2>7, <2>8 DEF Undisturbed
<1>8. CASE ~ \E y \in TickList : y.ran /\ y.last = now
  <2>1. work'["tick"] = [at |-> "idle", list |-> {}] /\ TickList' = {}
    BY <1>1, <1>8 DEF TickEnds, Take, TickList
  <2>2. \A x : Noted(x) => Noted(x)'
    BY <1>2, <1>8 DEF Noted, Unfired
  <2>3. \A v \in Writers : Writing(v)' <=> Writing(v)
    BY <1>2, <2>1 DEF Writing
  <2>4. FileOK'
    BY <1>1, <1>2, <1>3, <1>5, <2>2, <2>3 DEF FileOK, New
  <2>5. TickOK'
    BY <2>1 DEF TickOK
  <2>6. \A w \in Writers : WriterOK(w)'
    <3>1. WriterOK("tick")'
      BY <2>1 DEF WriterOK, Writing, GoodList
    <3>2. \A w \in Writers \ {"tick"} : WriterOK(w)'
      BY <1>2, <1>3, <1>5, <2>3 DEF WriterOK
    <3> QED
      BY <3>1, <3>2
  <2>7. \A w \in Tools : ToolOK(w)'
    BY <1>2, <1>4, <2>2 DEF ToolOK, New
  <2> QED
    BY <1>6, <2>4, <2>5, <2>6, <2>7 DEF Undisturbed
<1> QED
  BY <1>7, <1>8

(* The tool takes the list: what it adds is new, what it drops was asked   *)
(* for.                                                                    *)
LEMMA ToolStarts ==
  ASSUME ScheduleInv, NEW w \in Tools, NEW list,
         work[w].at = "idle", stale' = (stale \/ Overlaps(w)),
         work' = [work EXCEPT ![w] = [at |-> "create", list |-> list]],
         UNCHANGED <<now, schedule, fires, unnoted, kept, during>>,
         made \subseteq made', gone \subseteq gone',
         \A x \in LoadSchedule : x \in list \/ x.id \in gone',
         \A x \in list : x \in LoadSchedule \/ (New(x) /\ fires[x.id] = 0),
         \A x, y \in list : x.id = y.id => x = y,
         \A x \in list : x.id \in made'
  PROVE  Undisturbed'
<1> SUFFICES ASSUME ~stale' PROVE Undisturbed'
  BY DEF Undisturbed
<1> USE DEF ScheduleInv, ScheduleTypes
<1>1. w \in Writers /\ "tick" \in Writers /\ w # "tick"
  BY SchedulerAssumption DEF Writers
<1>2. ~stale /\ \A v \in Writers \ {w} : ~Writing(v)
  BY DEF Overlaps, Writing
<1>3. /\ work'[w] = [at |-> "create", list |-> list]
      /\ \A v \in Writers \ {w} : work'[v] = work[v]
      /\ LoadSchedule' = LoadSchedule /\ TickList' = TickList
  BY <1>1 DEF LoadSchedule, TickList
<1>4. FileOK /\ FiresOK /\ TickOK /\ (\A v \in Writers : WriterOK(v)) /\ \A v \in Tools : ToolOK(v)
  BY <1>2 DEF Undisturbed
<1>5. \A l : (Complete(l) => Complete(l)') /\ (GoodList(l) => GoodList(l)')
  BY StaysComplete DEF GoodList
<1>6. \A x : Noted(x)' <=> Noted(x)
  BY <1>1, <1>3 DEF Noted, Unfired
<1>7. FileOK'
  BY <1>1, <1>2, <1>3, <1>4, <1>5, <1>6 DEF FileOK, New, Writing
<1>8. FiresOK'
  BY <1>4 DEF FiresOK
<1>9. TickOK'
  BY <1>1, <1>3, <1>4, <1>5 DEF TickOK, Unfired
<1>10. \A x \in list : New(x) /\ Noted(x)
  BY <1>1, <1>2, <1>4 DEF FileOK, Noted, Unfired
<1>11. Complete(list)'
  BY <1>4 DEF FileOK, Complete, EntryIds
<1>12. \A v \in Writers : WriterOK(v)'
  <2>1. WriterOK(w)'
    BY <1>2, <1>3, <1>11 DEF WriterOK, GoodList, Writing
  <2>2. \A v \in Writers \ {w} : WriterOK(v)'
    BY <1>2, <1>3, <1>4, <1>5 DEF WriterOK, Writing
  <2> QED
    BY <2>1, <2>2
<1>13. \A v \in Tools : ToolOK(v)'
  <2>1. ToolOK(w)'
    BY <1>3, <1>6, <1>10 DEF ToolOK, New
  <2>2. \A v \in Tools \ {w} : ToolOK(v)'
    BY <1>3, <1>4, <1>6 DEF ToolOK, New, Writers
  <2> QED
    BY <2>1, <2>2
<1> QED
  BY <1>7, <1>8, <1>9, <1>12, <1>13 DEF Undisturbed

LEMMA AddKept ==
  ASSUME ScheduleInv, NEW w \in Tools, NEW id \in Entries, Add(w, id) PROVE Undisturbed'
<1> SUFFICES ASSUME ~stale PROVE Undisturbed'
  BY DEF Add, Undisturbed
<1> DEFINE new == [id |-> id, ran |-> FALSE, last |-> clock]
           list == LoadSchedule \cup {new}
<1>1. FileOK /\ FiresOK
  BY DEF ScheduleInv, Undisturbed
<1>2. /\ \A x, y \in list : x.id = y.id => x = y
      /\ \A x \in list : x.id \in made'
  <2>1. new.id = id /\ made' = made \cup {id} /\ id \notin made
    BY DEF Add
  <2> HIDE DEF new
  <2> QED
    BY <1>1, <2>1 DEF FileOK, GoodList
<1>3. New(new) /\ fires[new.id] = 0
  BY <1>1 DEF ScheduleInv, ScheduleTypes, FiresOK, New, Add
<1>4. work' = [work EXCEPT ![w] = [at |-> "create", list |-> list]]
  BY DEF Add, Take
<1>5. \A x \in list : x \in LoadSchedule \/ (New(x) /\ fires[x.id] = 0)
  BY <1>3
<1>6. /\ work[w].at = "idle" /\ stale' = (stale \/ Overlaps(w))
      /\ UNCHANGED <<now, schedule, fires, unnoted, kept, during, gone>>
  BY DEF Add
<1>7. made \subseteq made' /\ \A x \in LoadSchedule : x \in list
  BY DEF Add
<1> HIDE DEF list
<1> QED
  BY <1>2, <1>4, <1>5, <1>6, <1>7, ToolStarts

LEMMA DeleteKept ==
  ASSUME ScheduleInv, NEW w \in Tools, NEW id \in Entries, Delete(w, id) PROVE Undisturbed'
<1> SUFFICES ASSUME ~stale PROVE Undisturbed'
  BY DEF Delete, Undisturbed
<1> DEFINE list == {entry \in LoadSchedule : entry.id # id}
<1>1. FileOK
  BY DEF ScheduleInv, Undisturbed
<1>2. /\ \A x, y \in list : x.id = y.id => x = y
      /\ \A x \in list : x.id \in made'
  BY <1>1 DEF FileOK, GoodList, Delete
<1>3. work' = [work EXCEPT ![w] = [at |-> "create", list |-> list]]
  BY DEF Delete, Take
<1>4. \A x \in LoadSchedule : x \in list \/ x.id \in gone'
  BY DEF Delete
<1>5. /\ work[w].at = "idle" /\ stale' = (stale \/ Overlaps(w))
      /\ UNCHANGED <<now, schedule, fires, unnoted, kept, during, made>>
  BY DEF Delete
<1>6. gone \subseteq gone' /\ \A x \in list : x \in LoadSchedule
  BY DEF Delete
<1> HIDE DEF list
<1> QED
  BY <1>2, <1>3, <1>4, <1>5, <1>6, ToolStarts

(* The temporary file is emptied and filled by the one that saves.         *)
LEMMA SaveKept ==
  ASSUME ScheduleInv, NEW w \in Writers, SaveSchedule(w) PROVE Undisturbed'
<1> SUFFICES ASSUME ~stale PROVE Undisturbed'
  BY DEF SaveSchedule, Undisturbed
<1> USE DEF ScheduleInv, ScheduleTypes
<1>1. /\ work[w].list \in RowSets /\ Writing(w)
      /\ UNCHANGED <<now, fires, made, gone, kept, during, unnoted, stale>>
  BY DEF SaveSchedule, Writing
<1>2. FileOK /\ FiresOK /\ TickOK /\ (\A v \in Writers : WriterOK(v)) /\ \A v \in Tools : ToolOK(v)
  BY DEF Undisturbed
<1>3. /\ work'[w].list = work[w].list /\ work'[w].at \in {"fill", "rename"}
      /\ work'[w].at = "fill" => schedule'.tmp = Torn
      /\ work'[w].at = "rename" => schedule'.tmp = work[w].list
      /\ schedule'.file = schedule.file
      /\ \A v \in Writers \ {w} : work'[v] = work[v]
  <2>1. CASE work[w].at = "create"
    BY <2>1, EmptiedFile DEF SaveSchedule, Step
  <2>2. CASE work[w].at = "fill"
    BY <1>1, <1>2, <2>2, FilledFile DEF SaveSchedule, Step, WriterOK
  <2> QED
    BY <2>1, <2>2 DEF SaveSchedule
<1>4. LoadSchedule' = LoadSchedule
  BY <1>3 DEF LoadSchedule
<1>5. \A v \in Writers : work'[v].list = work[v].list /\ (Writing(v)' <=> Writing(v))
                         /\ (work'[v].at = "run" <=> work[v].at = "run")
                         /\ (work'[v].at = "idle" <=> work[v].at = "idle")
  BY <1>1, <1>3 DEF Writing
<1>6. TickList' = TickList /\ "tick" \in Writers /\ \A v \in Tools : v \in Writers
  BY <1>5 DEF TickList, Writers
<1>7. \A list : (Complete(list)' <=> Complete(list)) /\ (GoodList(list)' <=> GoodList(list))
  BY <1>1 DEF Complete, GoodList
<1>8. \A x : Noted(x)' <=> Noted(x)
  BY <1>1, <1>5, <1>6 DEF Noted, Unfired
<1>9. FileOK'
  BY <1>2, <1>3, <1>4, <1>5, <1>6, <1>7, <1>8 DEF FileOK, New
<1>10. TickOK'
  BY <1>1, <1>2, <1>5, <1>6, <1>7 DEF TickOK, Unfired
<1>11. \A v \in Writers : WriterOK(v)'
  <2>1. WriterOK(w)'
    BY <1>2, <1>3, <1>5, <1>7 DEF WriterOK
  <2>2. \A v \in Writers \ {w} : WriterOK(v)'
    BY <1>1, <1>2, <1>3, <1>5, <1>7 DEF WriterOK, Writing
  <2> QED
    BY <2>1, <2>2
<1>12. \A v \in Tools : ToolOK(v)'
  BY <1>2, <1>5, <1>6, <1>8 DEF ToolOK, New
<1> QED
  BY <1>1, <1>2, <1>9, <1>10, <1>11, <1>12 DEF Undisturbed, FiresOK

(* A writer that saved, or could not, rests; a tick that could not leaves  *)
(* its runs unnoted.                                                       *)
LEMMA WriterRests ==
  ASSUME ScheduleInv, ~stale, NEW w \in Writers, Writing(w), ~stale',
         work' = [work EXCEPT ![w] = [at |-> "idle", list |-> {}]],
         UNCHANGED <<now, fires, made, gone>>, unnoted \subseteq unnoted', unnoted' \in SUBSET Entries,
         w # "tick" /\ work["tick"].at # "idle" /\ Complete(TickList) => Complete(TickList)',
         FileOK'
  PROVE  Undisturbed'
<1> USE DEF ScheduleInv, ScheduleTypes
<1>1. FiresOK /\ TickOK /\ (\A v \in Writers : WriterOK(v)) /\ \A v \in Tools : ToolOK(v)
  BY DEF Undisturbed
<1>2. /\ work'[w] = [at |-> "idle", list |-> {}] /\ \A v \in Writers \ {w} : work'[v] = work[v] /\ ~Writing(v)
      /\ "tick" \in Writers /\ \A v \in Tools : v \in Writers /\ v # "tick"
  BY <1>1, SchedulerAssumption DEF WriterOK, Writers
<1>3. \A v \in Writers : ~Writing(v)'
  BY <1>2 DEF Writing
<1>4. \A v \in Tools : work'[v].at = "idle" /\ work'[v].list = {}
  BY <1>1, <1>2 DEF ToolOK, WriterOK, Writing
<1>5. FiresOK'
  BY <1>1 DEF FiresOK
<1>6. TickOK'
  <2>1. CASE w = "tick"
    BY <1>2, <2>1 DEF TickOK, TickList
  <2>2. CASE w # "tick"
    <3>1. work'["tick"] = work["tick"] /\ TickList' = TickList
      BY <1>2, <2>2 DEF TickList
    <3>2. work["tick"].at # "idle" => Complete(TickList)'
      BY <1>1, <2>2 DEF TickOK
    <3>3. \A y : Unfired(y) => Unfired(y)'
      BY DEF Unfired
    <3> QED
      BY <1>1, <3>1, <3>2, <3>3 DEF TickOK
  <2> QED
    BY <2>1, <2>2
<1>7. \A v \in Writers : WriterOK(v)'
  <2>1. WriterOK(w)'
    BY <1>2, <1>3 DEF WriterOK, GoodList
  <2>2. \A v \in Writers \ {w} : WriterOK(v)'
    BY <1>1, <1>2, <1>3 DEF WriterOK, GoodList, Writing
  <2> QED
    BY <2>1, <2>2
<1>8. \A v \in Tools : ToolOK(v)'
  BY <1>4 DEF ToolOK
<1> QED
  BY <1>5, <1>6, <1>7, <1>8 DEF Undisturbed

(* The rename: what was saved is what the file lists.                      *)
LEMMA EndSaveKept ==
  ASSUME ScheduleInv, NEW w \in Writers, EndSave(w) PROVE Undisturbed'
<1> SUFFICES ASSUME ~stale PROVE Undisturbed'
  BY DEF EndSave, Undisturbed
<1> USE DEF ScheduleInv, ScheduleTypes
<1> PICK list : list = work[w].list
  OBVIOUS
<1>1. /\ list \in RowSets /\ Writing(w) /\ work[w].at = "rename"
      /\ UNCHANGED <<now, fires, made, gone, unnoted, stale>>
      /\ work' = [work EXCEPT ![w] = [at |-> "idle", list |-> {}]]
  BY DEF EndSave, Writing, Take
<1>2. FileOK /\ FiresOK /\ TickOK /\ WriterOK(w) /\ (w \in Tools => ToolOK(w))
  BY DEF Undisturbed
<1>3. schedule'.file = list
  BY <1>1, <1>2, RenamedFile, ListIsNoHole DEF EndSave, WriterOK
<1>4. LoadSchedule' = list /\ schedule'.file # Torn
  BY <1>1, <1>3, ListIsNoHole DEF LoadSchedule
<1>5. Complete(list)' /\ GoodList(list)'
  <2>1. Complete(list) /\ GoodList(list)
    BY <1>1, <1>2 DEF WriterOK
  <2>2. kept' \subseteq kept \cup EntryIds(list) /\ during \subseteq during'
    BY DEF EndSave
  <2>3. Complete(list)'
    BY <1>1, <2>1, <2>2 DEF Complete
  <2> QED
    BY <1>1, <2>1, <2>3 DEF GoodList
<1>6. \A x \in list : New(x) /\ Noted(x)'
  <2>1. CASE w = "tick"
    <3>1. \A x \in list : x.id \in Once => ~x.ran /\ Unfired(x)
      BY <1>1, <1>2, <2>1 DEF TickOK, TickList
    <3> QED
      BY <1>1, <3>1 DEF New, Noted, Unfired
  <2>2. CASE w # "tick"
    <3>1. w \in Tools /\ work'["tick"] = work["tick"] /\ TickList' = TickList
      BY <1>1, <2>2 DEF Writers, TickList
    <3> QED
      BY <1>1, <1>2, <3>1 DEF ToolOK, Noted, Unfired
  <2> QED
    BY <2>1, <2>2
<1>7. FileOK'
  BY <1>1, <1>4, <1>5, <1>6 DEF FileOK, New
<1>8. w # "tick" /\ work["tick"].at # "idle" /\ Complete(TickList) => Complete(TickList)'
  <2> SUFFICES ASSUME w # "tick", work["tick"].at # "idle", Complete(TickList) PROVE Complete(TickList)'
    OBVIOUS
  <2>1. TickList' = TickList
    BY <1>1 DEF TickList
  <2>2. kept' = kept \cup EntryIds(list) /\ during' = during \cup (EntryIds(list) \ EntryIds(TickList))
    BY DEF EndSave, TickList
  <2> QED
    BY <1>1, <2>1, <2>2 DEF Complete
<1> QED
  BY <1>1, <1>7, <1>8, WriterRests

(* The write or the rename failed: the file lists what it listed.          *)
LEMMA SaveFailsKept ==
  ASSUME ScheduleInv, NEW w \in Writers, SaveFails(w) PROVE Undisturbed'
<1> SUFFICES ASSUME ~stale PROVE Undisturbed'
  BY DEF SaveFails, Undisturbed
<1> USE DEF ScheduleInv, ScheduleTypes
<1>1. /\ Writing(w) /\ work' = [work EXCEPT ![w] = [at |-> "idle", list |-> {}]]
      /\ UNCHANGED <<now, schedule, fires, made, gone, kept, during, stale>> /\ LoadSchedule' = LoadSchedule
      /\ unnoted \subseteq unnoted' /\ LoadSchedule \in RowSets /\ "tick" \in Writers
  BY ScheduleLoads DEF SaveFails, Writing, Take, LoadSchedule, Writers
<1>2. unnoted' \in SUBSET Entries
  BY SchedulerAssumption DEF SaveFails, Unnoted
<1>3. FileOK /\ \A v \in Writers : WriterOK(v)
  BY DEF Undisturbed
<1>4. \A l : (Complete(l)' <=> Complete(l)) /\ (GoodList(l)' <=> GoodList(l))
  BY <1>1 DEF Complete, GoodList
<1>5. \A x \in LoadSchedule : Noted(x)'
  <2>1. CASE w = "tick"
    <3> SUFFICES ASSUME NEW x \in LoadSchedule, x.id \in Once \ unnoted' PROVE fires'[x.id] = 0
      BY DEF Noted, Unfired
    <3>1. x.id \in Entries /\ Listed(x.id)
      BY <1>1 DEF RowSets, Rows, Listed, EntryIds
    <3>2. x.id \notin Unnoted
      BY <2>1 DEF SaveFails
    <3> QED
      BY <1>1, <3>1, <3>2 DEF Unnoted
  <2>2. CASE w # "tick"
    <3>1. work'["tick"] = work["tick"] /\ TickList' = TickList /\ ~Writing("tick")
      BY <1>1, <1>3, <2>2 DEF TickList, WriterOK
    <3> QED
      BY <1>1, <1>3, <3>1 DEF FileOK, Noted, Unfired
  <2> QED
    BY <2>1, <2>2
<1>6. FileOK'
  BY <1>1, <1>3, <1>4, <1>5 DEF FileOK, New
<1>7. w # "tick" => (Complete(TickList) => Complete(TickList)')
  BY <1>1 DEF Complete, TickList
<1> QED
  BY <1>1, <1>2, <1>6, <1>7, WriterRests

LEMMA EndKept ==
  ASSUME ScheduleInv, EndSchedule PROVE Undisturbed'
<1> SUFFICES ASSUME ~stale PROVE Undisturbed'
  BY DEF EndSchedule, Undisturbed
<1> USE DEF ScheduleInv, ScheduleTypes
<1>1. /\ UNCHANGED <<schedule, fires, made, gone, kept, during, stale>> /\ unnoted \subseteq unnoted'
      /\ LoadSchedule' = LoadSchedule /\ LoadSchedule \in RowSets
  BY ScheduleLoads DEF EndSchedule, LoadSchedule
<1>2. \A v \in Writers \cup {"tick"} : ~Writing(v)' /\ work'[v].list = {} /\ work'[v].at = "idle"
  BY DEF EndSchedule, Resting, Writing, Writers
<1>3. FileOK /\ FiresOK
  BY DEF Undisturbed
<1>4. \A x \in LoadSchedule : Noted(x)'
  <2> SUFFICES ASSUME NEW x \in LoadSchedule, x.id \in Once \ unnoted' PROVE fires'[x.id] = 0
    BY DEF Noted, Unfired
  <2>1. x.id \in Entries /\ Listed(x.id)
    BY <1>1 DEF RowSets, Rows, Listed, EntryIds
  <2>2. x.id \notin Unnoted
    BY DEF EndSchedule
  <2> QED
    BY <1>1, <2>1, <2>2 DEF Unnoted
<1>5. FileOK'
  BY <1>1, <1>3, <1>4 DEF FileOK, GoodList, Complete, New
<1>6. FiresOK'
  BY <1>1, <1>3 DEF FiresOK
<1>7. TickOK'
  BY <1>2 DEF TickOK, TickList
<1>8. \A v \in Writers : WriterOK(v)'
  BY <1>2 DEF WriterOK, GoodList
<1>9. \A v \in Tools : ToolOK(v)'
  BY <1>2 DEF ToolOK, Writers
<1> QED
  BY <1>5, <1>6, <1>7, <1>8, <1>9 DEF Undisturbed

LEMMA ScheduleKept ==
  ASSUME ScheduleInv, [Next]_vars PROVE ScheduleInv'
<1>1. ScheduleTypes'
  BY ScheduleSteps, ScheduleTyped DEF ScheduleInv
<1>2. ASSUME Minute \/ UNCHANGED scheduleVars PROVE Undisturbed'
  BY <1>2, ScheduleIdles DEF Minute, scheduleVars
<1>3. ASSUME NextSchedule PROVE Undisturbed'
  BY <1>2, <1>3, TickEndKept, FireKept, AddKept, DeleteKept, SaveKept, EndSaveKept, SaveFailsKept DEF NextSchedule
<1>4. Undisturbed'
  BY <1>2, <1>3, ScheduleSteps, TickStarts, EndKept
<1> QED
  BY <1>1, <1>4 DEF ScheduleInv

(* The tick saves the list it loaded minutes ago, the tool loads, changes  *)
(* and saves at any time, every save may fail, unseen by the one who asked *)
(* for it, and the process may end between any two steps: an entry that    *)
(* was answered for after a save that went through stays in schedule.json  *)
(* until it was run or deleted, and a one-time entry runs once; except an  *)
(* entry that was saved while a tick ran its tasks, a run the tick did not *)
(* save, and all after two saves overlapped.                               *)
THEOREM ScheduleEntriesSurvive == Spec => []EntriesSurvive
<1>1. Init => ScheduleInv
  <2> SUFFICES ASSUME InitSchedule PROVE ScheduleInv
    BY DEF Init
  <2> USE DEF InitSchedule, Resting
  <2>1. ScheduleTypes
    <3>1. schedule \in Files(RowSets)
      BY DEF Files, Saved
    <3>2. work \in [Writers -> [at : WriterSteps, list : RowSets]]
      BY DEF WriterSteps, RowSets
    <3>3. clock \in 0 .. MaxTime /\ now \in 0 .. MaxTime /\ fires \in [Entries -> 0 .. 2]
      BY SchedulerAssumption
    <3> QED
      BY <3>1, <3>2, <3>3 DEF ScheduleTypes
  <2>2. LoadSchedule = {} /\ schedule.file # Torn
    BY SavedFileAssumption DEF LoadSchedule, Saved
  <2>3. FileOK /\ FiresOK
    BY <2>2, SchedulerAssumption DEF FileOK, FiresOK, GoodList, Complete
  <2>4. TickOK
    BY <2>2 DEF TickOK, TickList, Writers
  <2>5. \A w \in Writers : WriterOK(w)
    BY DEF WriterOK, GoodList, Writing
  <2>6. \A w \in Tools : ToolOK(w)
    BY DEF ToolOK, Writers
  <2> QED
    BY <2>1, <2>3, <2>4, <2>5, <2>6 DEF ScheduleInv, Undisturbed
<1>2. ScheduleInv /\ [Next]_vars => ScheduleInv'
  BY ScheduleKept
<1>3. ScheduleInv => EntriesSurvive
  BY DEF ScheduleInv, Undisturbed, FileOK, FiresOK, Complete, Listed, EntriesSurvive
<1> QED
  BY <1>1, <1>2, <1>3, PTL DEF Spec

-----------------------------------------------------------------------------
(* The MCP servers: mcp.json, the changes under way, the connections and   *)
(* the tools.                                                              *)
ServerConfigs == UNION {[S -> Versions] : S \in SUBSET Servers}
SaveSteps == {"create", "fill", "rename", "truncate", "write"}
ReloadSteps == {"reload", "connecting", "register"}
Changes == [at : SaveSteps \cup ReloadSteps, name : Servers, config : ServerConfigs,
            version : {0} \cup Versions]

McpTypes ==
  /\ mcp \in Files(ServerConfigs)
  /\ used \in Nat
  /\ change \in [Users -> Changes \cup {NoChange}]
  /\ reported \in ServerConfigs
  /\ muddled \in BOOLEAN

(* A tool, also one about to be registered, has its connection.            *)
Running ==
  /\ \A t \in tools : <<t[1], t[3]>> \in handles
  /\ \A u \in Users : change[u].at = "register" => <<change[u].name, change[u].version>> \in handles

(* A change that is saved alone is going to write what was reported with   *)
(* itself, and nobody reloads the server it changes.                       *)
SaveOK(u) ==
  /\ \A o \in Users \ {u} : ~Saving(o) /\ (Reloading(o) => change[o].name # change[u].name)
  /\ change[u].config = IF change[u].version = 0 THEN Without(reported, change[u].name)
                        ELSE With(reported, change[u].name, change[u].version)
  /\ change[u].at = "fill" => mcp.tmp = Torn
  /\ change[u].at = "rename" => mcp.tmp = change[u].config
  /\ change[u].at = "write" => mcp.file = Torn

SavesApart ==
  /\ \A u \in Users : Saving(u) => SaveOK(u)
  /\ (\A u \in Users : change[u].at # "write") => LoadConfig = reported

(* The version that is being saved is new: no tool has it, and nobody was  *)
(* told of it.  A reload works with the version that was reported.         *)
NewVersion(v) ==
  /\ v \in 1 .. used
  /\ \A t \in tools : t[3] # v
  /\ \A s \in DOMAIN reported : reported[s] # v

Versioned ==
  /\ \A s \in DOMAIN reported : reported[s] \in 1 .. used
  /\ \A t \in tools : t[3] \in 1 .. used
  /\ \A u \in Users : Saving(u) /\ change[u].version # 0 => NewVersion(change[u].version)
  /\ \A u \in Users : change[u].at \in {"connecting", "register"} =>
       change[u].name \in DOMAIN reported /\ change[u].version = reported[change[u].name]

(* The version v of server s runs what it offers, or nothing.              *)
Serves(s, v) ==
  \/ \A t \in tools : t[1] # s \/ t[3] # v
  \/ \A t \in tools : (t[1] = s /\ t[2] \in Offers[v]) => t[3] = v

ServersOK == ~muddled => SavesApart /\ Versioned /\ \A s \in DOMAIN reported : Serves(s, reported[s])

McpInv == McpTypes /\ Running /\ ServersOK

LEMMA ConfigIs == \A c : c \in ServerConfigs <=> DOMAIN c \in SUBSET Servers /\ c \in [DOMAIN c -> Versions]
BY DEF ServerConfigs

LEMMA ConfigIsNoHole == \A c \in ServerConfigs : c # Torn /\ c # Absent
BY McpAssumption DEF ServerConfigs

LEMMA VersionIsNumber == \A v \in Versions : v \in Nat /\ v # 0
BY McpAssumption

LEMMA ServersLoad == McpTypes => LoadConfig \in ServerConfigs
BY ConfigIs DEF McpTypes, Files, LoadConfig, NoServers

LEMMA WithTypes ==
  ASSUME NEW c \in ServerConfigs, NEW s \in Servers, NEW v \in Versions
  PROVE  /\ With(c, s, v) \in ServerConfigs /\ DOMAIN With(c, s, v) = DOMAIN c \cup {s}
         /\ With(c, s, v)[s] = v /\ \A n \in DOMAIN c \ {s} : With(c, s, v)[n] = c[n]
<1>1. DOMAIN c \in SUBSET Servers /\ c \in [DOMAIN c -> Versions]
  BY ConfigIs
<1>2. With(c, s, v) \in [DOMAIN c \cup {s} -> Versions]
  BY <1>1 DEF With
<1> QED
  BY <1>1, <1>2, ConfigIs DEF With

LEMMA WithoutTypes ==
  ASSUME NEW c \in ServerConfigs, NEW s \in Servers
  PROVE  /\ Without(c, s) \in ServerConfigs /\ DOMAIN Without(c, s) = DOMAIN c \ {s}
         /\ \A n \in DOMAIN c \ {s} : Without(c, s)[n] = c[n]
<1>1. DOMAIN c \in SUBSET Servers /\ c \in [DOMAIN c -> Versions]
  BY ConfigIs
<1>2. Without(c, s) \in [DOMAIN c \ {s} -> Versions]
  BY <1>1 DEF Without
<1> QED
  BY <1>1, <1>2, ConfigIs DEF Without

LEMMA ChangeTypes ==
  ASSUME McpTypes, NEW u \in Users, change[u].at # "idle"
  PROVE  change[u] \in Changes
BY DEF McpTypes, NoChange

LEMMA McpInit == InitMcp => McpInv
<1> SUFFICES ASSUME InitMcp PROVE McpInv
  OBVIOUS
<1>1. NoServers \in ServerConfigs /\ DOMAIN NoServers = {}
  BY ConfigIs DEF NoServers
<1>2. McpTypes
  BY <1>1 DEF InitMcp, McpTypes, Files, Saved
<1>3. LoadConfig = reported
  BY DEF InitMcp, LoadConfig, Saved
<1>4. \A u \in Users : change[u].at = "idle"
  BY DEF InitMcp, NoChange
<1>5. Running
  BY <1>4 DEF InitMcp, Running
<1> QED
  BY <1>1, <1>2, <1>3, <1>4, <1>5 DEF InitMcp, McpInv, ServersOK, SavesApart, Versioned, Saving

(* A change begins: what it is going to write comes from the file.         *)
LEMMA ChangeBegins ==
  ASSUME McpInv, NEW u \in Users, NEW s \in Servers, NEW at \in {"create", "truncate"},
         NEW loaded, NEW cfg \in ServerConfigs, NEW v \in {0} \cup Versions,
         BeginChange(u, s, at, loaded, cfg, v),
         cfg = IF v = 0 THEN Without(loaded, s) ELSE With(loaded, s, v),
         v = 0 => used' = used, v # 0 => used' = used + 1 /\ v = used + 1
  PROVE  McpInv'
<1> USE DEF McpInv
<1>0. v \in Nat
  BY VersionIsNumber
<1>1. /\ change'[u] = [at |-> at, name |-> s, config |-> cfg, version |-> v]
      /\ \A o \in Users \ {u} : change'[o] = change[o]
      /\ change' \in [Users -> Changes \cup {NoChange}]
      /\ change[u].at = "idle"
      /\ UNCHANGED <<mcp, holder, handles, tools, reported>> /\ LoadConfig' = LoadConfig
  BY DEF BeginChange, McpTypes, Changes, SaveSteps, LoadConfig
<1>2. muddled' \in BOOLEAN
  BY DEF BeginChange, McpTypes
<1>3. McpTypes'
  BY <1>0, <1>1, <1>2 DEF McpTypes
<1>4. Running'
  BY <1>1 DEF Running
<1>5. ASSUME ~muddled' PROVE SavesApart' /\ Versioned' /\ \A n \in DOMAIN reported : Serves(n, reported[n])'
  <2>1. /\ ~muddled /\ loaded = LoadConfig
        /\ \A o \in Users \ {u} : ~Saving(o) /\ ~(Reloading(o) /\ change[o].name = s)
    BY <1>5 DEF BeginChange, McpTypes
  <2>2. SavesApart /\ Versioned /\ \A n \in DOMAIN reported : Serves(n, reported[n])
    BY <2>1 DEF ServersOK
  <2>3. LoadConfig = reported
    BY <1>1, <2>1, <2>2 DEF SavesApart, Saving
  <2>4. \A o \in Users \ {u} : (Saving(o)' <=> Saving(o)) /\ (Reloading(o)' <=> Reloading(o))
    BY <1>1 DEF Saving, Reloading
  <2>5. SaveOK(u)'
    BY <1>1, <2>1, <2>3, <2>4 DEF SaveOK
  <2>6. SavesApart'
    BY <1>1, <2>1, <2>3, <2>4, <2>5 DEF SavesApart
  <2>7. used' \in Nat /\ used <= used' /\ (v # 0 => used < v /\ v <= used')
    BY <1>3 DEF McpTypes
  <2>8. v # 0 => NewVersion(v)'
    <3>1. ASSUME v # 0 PROVE \A x \in 1 .. used : x # v
      BY <1>0, <2>7, <3>1 DEF McpTypes
    <3> QED
      BY <1>0, <1>1, <2>2, <2>7, <3>1 DEF NewVersion, Versioned, McpTypes
  <2>9. Versioned'
    <3>1. \A x \in 1 .. used : x \in 1 .. used'
      BY <2>7 DEF McpTypes
    <3>2. \A o \in Users : Saving(o)' /\ change'[o].version # 0 => NewVersion(change[o].version)'
      BY <1>1, <2>1, <2>4, <2>8
    <3> QED
      BY <1>1, <2>2, <3>1, <3>2 DEF Versioned
  <2> QED
    BY <1>1, <2>2, <2>6, <2>9 DEF Serves
<1> QED
  BY <1>1, <1>3, <1>4, <1>5 DEF ServersOK

(* Steps that leave the file, the tools and what was reported alone: a     *)
(* change goes on to a step of the same kind, or ends.                     *)
LEMMA ChangeGoesOn ==
  ASSUME McpInv, NEW u \in Users, McpTypes', Running',
         \A o \in Users \ {u} : change'[o] = change[o],
         LoadConfig' = LoadConfig, UNCHANGED <<used, tools, reported, muddled>>,
         change[u].at # "write", change'[u].at # "write",
         \/ change'[u].at = "idle"
         \/ /\ change'[u].name = change[u].name
            /\ \/ /\ Saving(u) /\ Saving(u)'
                  /\ change'[u].config = change[u].config /\ change'[u].version = change[u].version
               \/ /\ Reloading(u) /\ change'[u].at \in {"connecting", "register"}
                  /\ ~muddled => /\ change[u].name \in DOMAIN reported
                                 /\ change'[u].version = reported[change[u].name],
         \A o \in Users \ {u} : Saving(o) /\ ~muddled => mcp' = mcp,
         ~muddled /\ Saving(u)' => /\ change'[u].at = "fill" => mcp'.tmp = Torn
                                   /\ change'[u].at = "rename" => mcp'.tmp = change[u].config
  PROVE  McpInv'
<1> USE DEF McpInv
<1>1. ASSUME ~muddled PROVE SavesApart' /\ Versioned' /\ \A s \in DOMAIN reported : Serves(s, reported[s])'
  <2>1. SavesApart /\ Versioned /\ \A s \in DOMAIN reported : Serves(s, reported[s])
    BY <1>1 DEF ServersOK
  <2>2. \A o \in Users \ {u} : (Saving(o)' <=> Saving(o)) /\ (Reloading(o)' <=> Reloading(o))
    BY DEF Saving, Reloading
  <2>3. (Saving(u)' => Saving(u)) /\ (Reloading(u)' => Reloading(u) /\ change'[u].name = change[u].name)
    BY DEF Saving, Reloading
  <2>4. ASSUME Saving(u)' PROVE SaveOK(u)'
    <3>1. change'[u].config = change[u].config /\ change'[u].version = change[u].version
          /\ change'[u].name = change[u].name
      BY <2>4 DEF Saving, Reloading
    <3> QED
      BY <1>1, <2>1, <2>2, <2>3, <2>4, <3>1 DEF SavesApart, SaveOK
  <2>5. ASSUME NEW o \in Users \ {u}, Saving(o)' PROVE SaveOK(o)'
    <3>1. SaveOK(o) /\ mcp' = mcp
      BY <1>1, <2>1, <2>2, <2>5 DEF SavesApart
    <3>2. \A x \in Users \ {o} : ~Saving(x)'
      BY <2>2, <2>3, <3>1 DEF SaveOK
    <3>3. \A x \in Users \ {o} : Reloading(x)' => change'[x].name # change[o].name
      BY <2>2, <2>3, <3>1 DEF SaveOK
    <3> QED
      BY <3>1, <3>2, <3>3 DEF SaveOK
  <2>6. SavesApart'
    <3>1. (\A o \in Users : change'[o].at # "write") => LoadConfig' = reported'
      BY <2>1 DEF SavesApart
    <3> QED
      BY <2>4, <2>5, <3>1 DEF SavesApart
  <2>7. Versioned'
    <3>1. \A o \in Users : Saving(o)' /\ change'[o].version # 0 => NewVersion(change[o].version)'
      <4>1. \A o \in Users : Saving(o)' => Saving(o) /\ change'[o].version = change[o].version
        BY <2>2, <2>3 DEF Saving, Reloading
      <4> QED
        BY <2>1, <4>1 DEF Versioned, NewVersion
    <3>2. \A o \in Users : change'[o].at \in {"connecting", "register"} =>
            change'[o].name \in DOMAIN reported /\ change'[o].version = reported[change'[o].name]
      BY <1>1, <2>1 DEF Versioned, Saving, Reloading
    <3> QED
      BY <2>1, <3>1, <3>2 DEF Versioned
  <2> QED
    BY <2>1, <2>6, <2>7 DEF Serves
<1> QED
  BY <1>1 DEF ServersOK

(* A change is answered for: what it wrote is what was reported.           *)
LEMMA ChangeAnswered ==
  ASSUME McpInv, NEW u \in Users, Saving(u), McpTypes', Running', Answered(u),
         \A o \in Users \ {u} : change'[o] = change[o],
         ~muddled => mcp'.file = change[u].config,
         UNCHANGED <<used, tools, muddled>>,
         change'[u].at = "idle" \/ change'[u].at = "reload"
  PROVE  McpInv'
<1> USE DEF McpInv
<1>1. ASSUME ~muddled PROVE SavesApart' /\ Versioned' /\ \A s \in DOMAIN reported' : Serves(s, reported[s])'
  <2>1. Versioned /\ SaveOK(u) /\ \A s \in DOMAIN reported : Serves(s, reported[s])
    BY <1>1 DEF ServersOK, SavesApart
  <2>2. \A o \in Users \ {u} : ~Saving(o)' /\ (Reloading(o)' => change'[o].name # change[u].name)
    BY <2>1 DEF SaveOK, Saving, Reloading
  <2>3. ~Saving(u)' /\ change'[u].at \notin {"connecting", "register"}
    BY DEF Saving
  <2>4. change[u] \in Changes /\ reported \in ServerConfigs
    BY ChangeTypes DEF Saving, McpTypes
  <2>5. reported' = change[u].config
    BY <2>1 DEF SaveOK, Answered
  <2>6. LoadConfig' = reported'
    BY <1>1, <2>4, <2>5, ConfigIsNoHole DEF LoadConfig, Changes
  <2>7. SavesApart'
    BY <2>2, <2>3, <2>6 DEF SavesApart
  <2>8. \A s \in DOMAIN reported' : \/ s \in DOMAIN reported \ {change[u].name} /\ reported'[s] = reported[s]
                                    \/ change[u].version # 0 /\ reported'[s] = change[u].version
    <3>1. CASE change[u].version = 0
      <4>1. reported' = Without(reported, change[u].name)
        BY <3>1 DEF Answered
      <4> QED
        BY ZenonT(30), <2>4, <4>1, WithoutTypes DEF Changes
    <3>2. CASE change[u].version # 0
      <4>1. reported' = With(reported, change[u].name, change[u].version)
        BY <3>2 DEF Answered
      <4> QED
        BY <3>2, <4>1 DEF With
    <3> QED
      BY <3>1, <3>2
  <2>9. \A s \in DOMAIN reported \ {change[u].name} : s \in DOMAIN reported' /\ reported'[s] = reported[s]
    <3>1. CASE change[u].version = 0
      <4>1. reported' = Without(reported, change[u].name)
        BY <3>1 DEF Answered
      <4> QED
        BY <2>4, <4>1, WithoutTypes DEF Changes
    <3>2. CASE change[u].version # 0
      <4>1. reported' = With(reported, change[u].name, change[u].version)
        BY <3>2 DEF Answered
      <4> QED
        BY <4>1 DEF With
    <3> QED
      BY <3>1, <3>2
  <2>10. change[u].version # 0 => NewVersion(change[u].version)
    BY <2>1 DEF Versioned
  <2>11. Versioned'
    <3>1. \A s \in DOMAIN reported' : reported'[s] \in 1 .. used
      BY <2>1, <2>8, <2>10 DEF Versioned, NewVersion
    <3>2. \A o \in Users : change'[o].at \in {"connecting", "register"} =>
            change'[o].name \in DOMAIN reported' /\ change'[o].version = reported'[change'[o].name]
      <4> SUFFICES ASSUME NEW o \in Users, change'[o].at \in {"connecting", "register"}
                   PROVE  change'[o].name \in DOMAIN reported' /\ change'[o].version = reported'[change'[o].name]
        OBVIOUS
      <4>1. o # u /\ change'[o] = change[o] /\ Reloading(o)'
        BY <2>3 DEF Reloading
      <4>2. change[o].name # change[u].name
        BY <2>2, <4>1
      <4> QED
        BY <2>1, <2>9, <4>1, <4>2 DEF Versioned
    <3> QED
      BY <2>1, <2>2, <2>3, <3>1, <3>2 DEF Versioned
  <2>12. ASSUME NEW s \in DOMAIN reported' PROVE Serves(s, reported[s])'
    <3>1. CASE s \in DOMAIN reported /\ reported'[s] = reported[s]
      BY <2>1, <3>1 DEF Serves
    <3>2. CASE change[u].version # 0 /\ reported'[s] = change[u].version
      BY <2>10, <3>2 DEF Serves, NewVersion
    <3> QED
      BY <2>8, <3>1, <3>2
  <2> QED
    BY <2>7, <2>11, <2>12
<1> QED
  BY <1>1 DEF ServersOK

LEMMA SaveServersKept ==
  ASSUME McpInv, NEW u \in Users, SaveServers(u) PROVE McpInv'
<1> USE DEF McpInv
<1>1. change[u] \in Changes /\ Saving(u) /\ change[u].at \in {"create", "fill", "rename"}
  BY ChangeTypes DEF SaveServers, Saving
<1>2. UNCHANGED <<used, holder, handles, tools, muddled>>
  BY DEF SaveServers
<1>3. ASSUME ~muddled PROVE SaveOK(u)
  BY <1>1, <1>3 DEF ServersOK, SavesApart
<1>4. \A o \in Users \ {u} : change'[o] = change[o]
  BY DEF SaveServers, StepTo, EndChange, McpTypes
<1>5. ASSUME change[u].at = "create", mcp' = Emptied(mcp), StepTo(u, "fill"), UNCHANGED reported PROVE McpInv'
  <2>1. mcp' \in Files(ServerConfigs) /\ mcp'.tmp = Torn /\ mcp'.file = mcp.file
    BY <1>5, EmptiedFile DEF McpTypes
  <2>2. change' \in [Users -> Changes \cup {NoChange}] /\ change'[u] = [change[u] EXCEPT !.at = "fill"]
    BY <1>1, <1>5 DEF StepTo, McpTypes, Changes, SaveSteps
  <2>3. McpTypes' /\ LoadConfig' = LoadConfig
    BY <1>2, <1>5, <2>1, <2>2 DEF McpTypes, LoadConfig
  <2>4. Running'
    BY <1>2, <1>4, <2>2, <1>1 DEF Running, Changes
  <2> QED
    BY <1>1, <1>2, <1>3, <1>4, <1>5, <2>1, <2>2, <2>3, <2>4, ChangeGoesOn DEF SaveOK, Saving, Changes
<1>6. ASSUME change[u].at = "fill", mcp' = Filled(mcp, change[u].config), StepTo(u, "rename"), UNCHANGED reported
      PROVE  McpInv'
  <2>1. mcp' \in Files(ServerConfigs)
    BY <1>1, <1>6, FilledFile DEF McpTypes, Changes
  <2>2. change' \in [Users -> Changes \cup {NoChange}] /\ change'[u] = [change[u] EXCEPT !.at = "rename"]
    BY <1>1, <1>6 DEF StepTo, McpTypes, Changes, SaveSteps
  <2>3. ASSUME ~muddled PROVE mcp'.tmp = change[u].config /\ mcp'.file = mcp.file
    BY <1>1, <1>3, <1>6, <2>3, SavedFileAssumption DEF SaveOK, Filled, McpTypes, Files
  <2>4. McpTypes'
    BY <1>2, <1>6, <2>1, <2>2 DEF McpTypes
  <2>5. Running'
    BY <1>2, <1>4, <2>2, <1>1 DEF Running, Changes
  <2>6. CASE muddled
    BY <1>2, <2>4, <2>5, <2>6 DEF ServersOK
  <2>7. CASE ~muddled
    <3>1. LoadConfig' = LoadConfig
      BY <2>3, <2>7 DEF LoadConfig
    <3> QED
      BY <1>1, <1>2, <1>3, <1>4, <1>6, <2>2, <2>3, <2>4, <2>5, <2>7, <3>1, ChangeGoesOn DEF SaveOK, Saving, Changes
  <2> QED
    BY <2>6, <2>7
<1>7. ASSUME change[u].at = "rename", mcp' = Renamed(mcp), Answered(u), EndChange(u) \/ StepTo(u, "reload")
      PROVE  McpInv'
  <2>1. mcp' \in Files(ServerConfigs)
    BY <1>7, RenamedFile DEF McpTypes
  <2>2. /\ change' \in [Users -> Changes \cup {NoChange}]
        /\ change'[u].at = "idle" \/ change'[u].at = "reload"
    BY <1>1, <1>7 DEF StepTo, EndChange, McpTypes, Changes, ReloadSteps, NoChange
  <2>3. reported' \in ServerConfigs
    <3>1. CASE change[u].version = 0
      BY <1>1, <1>7, <3>1, WithoutTypes DEF Answered, McpTypes, Changes
    <3>2. CASE change[u].version # 0
      BY <1>1, <1>7, <3>2, WithTypes DEF Answered, McpTypes, Changes
    <3> QED
      BY <3>1, <3>2
  <2>4. McpTypes'
    BY <1>2, <2>1, <2>2, <2>3 DEF McpTypes
  <2>5. Running'
    BY <1>2, <1>4, <2>2 DEF Running
  <2>6. ASSUME ~muddled PROVE mcp'.file = change[u].config
    <3>1. mcp.tmp = change[u].config /\ mcp.tmp # Absent
      BY <1>1, <1>3, <1>7, <2>6, ConfigIsNoHole DEF SaveOK, Changes
    <3> QED
      BY <1>7, <3>1, RenamedFile DEF McpTypes
  <2> QED
    BY <1>1, <1>2, <1>4, <1>7, <2>2, <2>4, <2>5, <2>6, ChangeAnswered
<1>8. ASSUME EndChange(u), UNCHANGED <<mcp, reported>> PROVE McpInv'
  <2>1. change' \in [Users -> Changes \cup {NoChange}] /\ change'[u].at = "idle"
    BY <1>8 DEF EndChange, McpTypes, NoChange
  <2>2. McpTypes' /\ LoadConfig' = LoadConfig
    BY <1>2, <1>8, <2>1 DEF McpTypes, LoadConfig
  <2>3. Running'
    BY <1>2, <1>4, <2>1 DEF Running
  <2> QED
    BY <1>1, <1>2, <1>4, <1>8, <2>1, <2>2, <2>3, ChangeGoesOn DEF Saving
<1> QED
  BY <1>5, <1>6, <1>7, <1>8 DEF SaveServers

LEMMA OverwriteKept ==
  ASSUME McpInv, NEW u \in Users, OverwriteServers(u) PROVE McpInv'
<1> USE DEF McpInv
<1>1. change[u] \in Changes /\ Saving(u) /\ change[u].at \in {"truncate", "write"}
  BY ChangeTypes DEF OverwriteServers, Saving
<1>2. UNCHANGED <<used, holder, handles, tools>>
  BY DEF OverwriteServers
<1>3. \A o \in Users \ {u} : change'[o] = change[o]
  BY DEF OverwriteServers, StepTo, EndChange, McpTypes
<1>4. ASSUME change[u].at = "truncate", mcp' = [mcp EXCEPT !.file = Torn], StepTo(u, "write"),
             UNCHANGED <<reported, muddled>>
      PROVE  McpInv'
  <2>1. mcp' \in Files(ServerConfigs) /\ mcp'.file = Torn
    BY <1>4 DEF McpTypes, Files
  <2>2. change' \in [Users -> Changes \cup {NoChange}] /\ change'[u] = [change[u] EXCEPT !.at = "write"]
    BY <1>1, <1>4 DEF StepTo, McpTypes, Changes, SaveSteps
  <2>3. McpTypes'
    BY <1>2, <1>4, <2>1, <2>2 DEF McpTypes
  <2>4. /\ change'[u].at = "write"
        /\ change'[u].name = change[u].name /\ change'[u].config = change[u].config
        /\ change'[u].version = change[u].version
    BY <1>1, <2>2 DEF Changes
  <2>5. Running'
    BY <1>2, <1>3, <2>4 DEF Running
  <2>6. ASSUME ~muddled PROVE SavesApart' /\ Versioned' /\ \A s \in DOMAIN reported : Serves(s, reported[s])'
    <3>1. SaveOK(u) /\ Versioned /\ \A s \in DOMAIN reported : Serves(s, reported[s])
      BY <1>1, <2>6 DEF ServersOK, SavesApart
    <3>2. \A o \in Users \ {u} : ~Saving(o)' /\ (Reloading(o)' => change'[o].name # change[u].name)
      BY <1>3, <3>1 DEF SaveOK, Saving, Reloading
    <3>3. SaveOK(u)'
      BY <1>4, <2>1, <2>4, <3>1, <3>2 DEF SaveOK
    <3>4. SavesApart'
      BY <2>4, <3>2, <3>3 DEF SavesApart
    <3>5. Versioned'
      BY <1>1, <1>2, <1>3, <1>4, <2>4, <3>1, <3>2 DEF Versioned, NewVersion
    <3> QED
      BY <1>2, <1>4, <3>1, <3>4, <3>5 DEF Serves
  <2> QED
    BY <1>2, <1>4, <2>3, <2>5, <2>6 DEF ServersOK
<1>5. ASSUME change[u].at = "write", mcp' = [mcp EXCEPT !.file = change[u].config], Answered(u),
             EndChange(u) \/ StepTo(u, "reload"), UNCHANGED muddled
      PROVE  McpInv'
  <2>1. mcp' \in Files(ServerConfigs) /\ mcp'.file = change[u].config
    BY <1>1, <1>5 DEF McpTypes, Files, Changes
  <2>2. /\ change' \in [Users -> Changes \cup {NoChange}]
        /\ change'[u].at = "idle" \/ change'[u].at = "reload"
    BY <1>1, <1>5 DEF StepTo, EndChange, McpTypes, Changes, ReloadSteps, NoChange
  <2>3. reported' \in ServerConfigs
    <3>1. CASE change[u].version = 0
      BY <1>1, <1>5, <3>1, WithoutTypes DEF Answered, McpTypes, Changes
    <3>2. CASE change[u].version # 0
      BY <1>1, <1>5, <3>2, WithTypes DEF Answered, McpTypes, Changes
    <3> QED
      BY <3>1, <3>2
  <2>4. McpTypes'
    BY <1>2, <1>5, <2>1, <2>2, <2>3 DEF McpTypes
  <2>5. Running'
    BY <1>2, <1>3, <2>2 DEF Running
  <2> QED
    BY <1>1, <1>2, <1>3, <1>5, <2>1, <2>2, <2>4, <2>5, ChangeAnswered
<1>6. ASSUME EndChange(u), muddled' = (muddled \/ change[u].at = "write"), UNCHANGED <<mcp, reported>>
      PROVE  McpInv'
  <2>1. change' \in [Users -> Changes \cup {NoChange}] /\ change'[u].at = "idle"
    BY <1>6 DEF EndChange, McpTypes, NoChange
  <2>2. McpTypes' /\ LoadConfig' = LoadConfig
    BY <1>2, <1>6, <2>1 DEF McpTypes, LoadConfig
  <2>3. Running'
    BY <1>2, <1>3, <2>1 DEF Running
  <2>4. CASE muddled'
    BY <2>2, <2>3, <2>4 DEF ServersOK
  <2>5. CASE ~muddled'
    <3>1. UNCHANGED muddled /\ change[u].at # "write"
      BY <1>6, <2>5 DEF McpTypes
    <3> QED
      BY <1>1, <1>2, <1>3, <1>6, <2>1, <2>2, <2>3, <3>1, ChangeGoesOn DEF Saving
  <2> QED
    BY <2>4, <2>5
<1> QED
  BY <1>4, <1>5, <1>6 DEF OverwriteServers

(* A reload works with what was reported: while mcp.json is empty, no      *)
(* server is found in it.                                                  *)
LEMMA LockKept ==
  ASSUME McpInv, NEW u \in Users, LockManager(u) PROVE McpInv'
<1> USE DEF McpInv
<1>1. change[u] \in Changes /\ Reloading(u) /\ change[u].at = "reload" /\ LoadConfig \in ServerConfigs
  BY ChangeTypes, ServersLoad DEF LockManager, Reloading
<1>2. UNCHANGED <<mcp, used, handles, tools, reported, muddled>> /\ LoadConfig' = LoadConfig
  BY DEF LockManager, LoadConfig
<1>3. \A o \in Users \ {u} : change'[o] = change[o]
  BY DEF LockManager, EndChange, McpTypes
<1>4. CASE /\ change[u].name \in DOMAIN LoadConfig
           /\ change' = [change EXCEPT ![u].at = "connecting",
                                       ![u].version = LoadConfig[change[u].name]]
           /\ holder' = {u}
  <2>1. LoadConfig[change[u].name] \in Versions
    BY <1>1, <1>4, ConfigIs
  <2>2. change'[u] = [change[u] EXCEPT !.at = "connecting", !.version = LoadConfig[change[u].name]]
    BY <1>4 DEF LockManager, McpTypes
  <2>3. change'[u] \in Changes
    BY <1>1, <2>1, <2>2 DEF Changes, ReloadSteps
  <2>4. change' \in [Users -> Changes \cup {NoChange}]
    BY <1>4, <2>2, <2>3 DEF LockManager, McpTypes
  <2>5. /\ change'[u].at = "connecting" /\ change'[u].name = change[u].name
        /\ change'[u].version = LoadConfig[change[u].name]
    BY <1>1, <2>2 DEF Changes
  <2>6. McpTypes'
    BY <1>2, <2>4 DEF McpTypes
  <2>7. Running'
    BY <1>2, <1>3, <2>5 DEF Running
  <2>8. ASSUME ~muddled PROVE LoadConfig = reported
    <3>1. SavesApart
      BY <2>8 DEF ServersOK
    <3>2. ASSUME NEW o \in Users, change[o].at = "write" PROVE FALSE
      <4>1. mcp.file = Torn
        BY <3>1, <3>2 DEF SavesApart, SaveOK, Saving
      <4> QED
        BY <1>4, <4>1 DEF LoadConfig, NoServers
    <3> QED
      BY <3>1, <3>2 DEF SavesApart
  <2> QED
    BY <1>1, <1>2, <1>3, <1>4, <2>5, <2>6, <2>7, <2>8, ChangeGoesOn DEF Saving
<1>5. CASE EndChange(u) /\ UNCHANGED holder
  <2>1. change' \in [Users -> Changes \cup {NoChange}] /\ change'[u].at = "idle"
    BY <1>5 DEF LockManager, EndChange, McpTypes, NoChange
  <2>2. McpTypes' /\ Running'
    BY <1>2, <1>3, <2>1 DEF McpTypes, Running
  <2> QED
    BY <1>1, <1>2, <1>3, <2>1, <2>2, ChangeGoesOn DEF Saving
<1> QED
  BY <1>4, <1>5 DEF LockManager

LEMMA ConnectKept ==
  ASSUME McpInv, NEW u \in Users, Connect(u) PROVE McpInv'
<1> USE DEF McpInv
<1>1. change[u] \in Changes /\ Reloading(u) /\ change[u].at = "connecting"
  BY ChangeTypes DEF Connect, Reloading
<1>2. UNCHANGED <<mcp, used, tools, reported, muddled>> /\ LoadConfig' = LoadConfig
  BY DEF Connect, LoadConfig
<1>3. PICK connection \in ConnectServer(u) :
        /\ handles' = handles \cup connection
        /\ \/ EndChange(u)
           \/ connection # {} /\ Offers[change[u].version] # {} /\ StepTo(u, "register")
  BY DEF Connect
<1>4. \A o \in Users \ {u} : change'[o] = change[o]
  BY <1>3 DEF StepTo, EndChange, McpTypes
<1>5. CASE EndChange(u)
  <2>1. change' \in [Users -> Changes \cup {NoChange}] /\ change'[u].at = "idle"
    BY <1>5 DEF EndChange, McpTypes, NoChange
  <2>2. McpTypes' /\ Running'
    BY <1>2, <1>3, <1>4, <2>1 DEF McpTypes, Running
  <2> QED
    BY <1>1, <1>2, <1>4, <2>1, <2>2, ChangeGoesOn DEF Saving
<1>6. CASE connection # {} /\ StepTo(u, "register")
  <2>1. change'[u] = [change[u] EXCEPT !.at = "register"] /\ change' \in [Users -> Changes \cup {NoChange}]
    BY <1>1, <1>6 DEF StepTo, McpTypes, Changes, ReloadSteps
  <2>2. /\ change'[u].at = "register" /\ change'[u].name = change[u].name
        /\ change'[u].version = change[u].version
    BY <1>1, <2>1 DEF Changes
  <2>3. <<change[u].name, change[u].version>> \in handles'
    BY <1>3, <1>6 DEF ConnectServer
  <2>4. McpTypes' /\ Running'
    BY <1>2, <1>3, <1>4, <2>1, <2>2, <2>3 DEF McpTypes, Running
  <2>5. ~muddled => change[u].name \in DOMAIN reported /\ change[u].version = reported[change[u].name]
    BY <1>1 DEF ServersOK, Versioned
  <2> QED
    BY <1>1, <1>2, <1>4, <2>2, <2>4, <2>5, ChangeGoesOn DEF Saving
<1> QED
  BY <1>3, <1>5, <1>6

(* The tools that are registered replace the server's tools of the same    *)
(* names, and no others.                                                   *)
LEMMA RegisterKept ==
  ASSUME McpInv, NEW u \in Users, RegisterTools(u) PROVE McpInv'
<1> USE DEF McpInv
<1> DEFINE name == change[u].name
           version == change[u].version
           new == ToolsOf(name, version)
<1>1. change[u].at = "register"
  BY DEF RegisterTools
<1>2. /\ UNCHANGED <<mcp, used, holder, handles, reported, muddled>> /\ LoadConfig' = LoadConfig
      /\ tools' = Retained(new) \cup new
  BY DEF RegisterTools, LoadConfig
<1>3. /\ \A o \in Users \ {u} : change'[o] = change[o]
      /\ change' \in [Users -> Changes \cup {NoChange}] /\ change'[u].at = "idle"
  BY DEF RegisterTools, EndChange, McpTypes, NoChange
<1>4. McpTypes'
  BY <1>2, <1>3 DEF McpTypes
<1>5. \A t \in new : t[1] = name /\ t[2] \in Offers[version] /\ t[3] = version
  BY DEF ToolsOf
<1>6. \A t \in tools : t \notin tools' => \E n \in new : n[1] = t[1] /\ n[2] = t[2]
  BY <1>2 DEF Retained
<1>7. \A t \in tools' : t \in new \/ (t \in tools /\ ~ \E n \in new : n[1] = t[1] /\ n[2] = t[2])
  BY <1>2 DEF Retained
<1>8. Running'
  <2>1. <<name, version>> \in handles
    BY <1>1 DEF Running
  <2> HIDE DEF new, name, version
  <2>2. \A t \in tools' : <<t[1], t[3]>> \in handles
    BY <1>5, <1>7, <2>1 DEF Running
  <2>3. \A o \in Users : change'[o].at = "register" => <<change'[o].name, change'[o].version>> \in handles
    BY <1>3 DEF Running
  <2> QED
    BY <1>2, <2>2, <2>3 DEF Running
<1>9. ASSUME ~muddled PROVE SavesApart' /\ Versioned' /\ \A s \in DOMAIN reported : Serves(s, reported[s])'
  <2>1. SavesApart /\ Versioned /\ \A s \in DOMAIN reported : Serves(s, reported[s])
    BY <1>9 DEF ServersOK
  <2>2. name \in DOMAIN reported /\ version = reported[name]
    BY <1>1, <2>1 DEF Versioned
  <2>3. \A o \in Users : Saving(o)' => o # u /\ Saving(o) /\ change'[o] = change[o]
    BY <1>3 DEF Saving
  <2>4. \A o \in Users : Reloading(o)' => o # u /\ Reloading(o) /\ change'[o] = change[o]
    BY <1>3 DEF Reloading
  <2>5. SavesApart'
    <3>1. ASSUME NEW o \in Users, Saving(o)' PROVE SaveOK(o)'
      <4>1. SaveOK(o) /\ change'[o] = change[o]
        BY <2>1, <2>3, <3>1 DEF SavesApart
      <4>2. \A x \in Users \ {o} : ~Saving(x)' /\ (Reloading(x)' => change'[x].name # change[o].name)
        BY <2>3, <2>4, <4>1 DEF SaveOK
      <4> QED
        BY <1>2, <4>1, <4>2 DEF SaveOK
    <3>2. (\A o \in Users : change'[o].at # "write") => LoadConfig' = reported'
      BY <1>1, <1>2, <1>3, <2>1 DEF SavesApart
    <3> QED
      BY <3>1, <3>2 DEF SavesApart
  <2>6. Versioned'
    <3>1. version \in 1 .. used
      BY <2>1, <2>2 DEF Versioned
    <3> HIDE DEF new, version
    <3>2. \A t \in tools' : t[3] \in 1 .. used /\ (t \in tools \/ t[3] = version)
      BY <1>5, <1>7, <2>1, <3>1 DEF Versioned
    <3>3. ASSUME NEW o \in Users, Saving(o)', change'[o].version # 0 PROVE NewVersion(change[o].version)'
      <4>1. NewVersion(change[o].version) /\ change'[o] = change[o]
        BY <2>1, <2>3, <3>3 DEF Versioned
      <4>2. version # change[o].version
        BY <2>2, <4>1 DEF NewVersion
      <4> QED
        BY <1>2, <3>2, <4>1, <4>2 DEF NewVersion
    <3>4. \A o \in Users : change'[o].at \in {"connecting", "register"} =>
            change'[o].name \in DOMAIN reported /\ change'[o].version = reported[change'[o].name]
      BY <1>3, <2>1 DEF Versioned
    <3> QED
      BY <1>2, <2>1, <3>2, <3>3, <3>4 DEF Versioned
  <2>7. ASSUME NEW s \in DOMAIN reported PROVE Serves(s, reported[s])'
    <3>1. CASE s = name
      <4>1. ASSUME NEW t \in tools', t[1] = name, t[2] \in Offers[version] PROVE t[3] = version
        <5>1. CASE t \in new
          BY <1>5, <5>1
        <5>2. CASE t \notin new
          <6>1. <<name, t[2], version>> \in new
            BY <4>1 DEF ToolsOf
          <6> HIDE DEF new
          <6> QED
            BY <1>7, <4>1, <5>2, <6>1
        <5> QED
          BY <5>1, <5>2
      <4> HIDE DEF new, version
      <4> QED
        BY <1>2, <2>2, <3>1, <4>1 DEF Serves
    <3>2. CASE s # name
      <4>1. \A t \in tools' : t[1] = s => t \in tools
        BY <1>5, <1>7, <3>2
      <4> HIDE DEF new, name, version
      <4> QED
        BY <1>2, <2>1, <4>1 DEF Serves
    <3> QED
      BY <3>1, <3>2
  <2> QED
    BY <2>5, <2>6, <2>7
<1> QED
  BY <1>2, <1>4, <1>8, <1>9 DEF ServersOK

(* A process that starts serves what mcp.json has, as far as it reaches it. *)
LEMMA RestartMcpKept ==
  ASSUME McpInv, RestartMcp PROVE McpInv'
<1> USE DEF McpInv
<1>1. /\ UNCHANGED <<mcp, used, reported>> /\ LoadConfig' = LoadConfig
      /\ \A u \in Users : change'[u].at = "idle"
      /\ change' \in [Users -> Changes \cup {NoChange}]
  BY DEF RestartMcp, NoChange, LoadConfig
<1>2. PICK reached \in SUBSET DOMAIN LoadConfig :
        /\ handles' = {<<s, LoadConfig[s]>> : s \in reached}
        /\ \E listed \in SUBSET reached : tools' = UNION {ToolsOf(s, LoadConfig[s]) : s \in listed}
  BY DEF RestartMcp
<1>3. McpTypes'
  <2>1. muddled' \in BOOLEAN
    BY DEF RestartMcp, McpTypes
  <2> QED
    BY <1>1, <2>1 DEF McpTypes
<1>4. \A t \in tools' : t[1] \in reached /\ t[3] = LoadConfig[t[1]]
  BY <1>2 DEF ToolsOf
<1>5. Running'
  BY <1>1, <1>2, <1>4 DEF Running
<1>6. ASSUME ~muddled' PROVE SavesApart' /\ Versioned' /\ \A s \in DOMAIN reported : Serves(s, reported[s])'
  <2>1. ~muddled /\ \A u \in Users : change[u].at # "write"
    BY <1>6 DEF RestartMcp, McpTypes
  <2>2. LoadConfig = reported /\ Versioned
    BY <2>1 DEF ServersOK, SavesApart
  <2>3. SavesApart'
    BY <1>1, <2>2 DEF SavesApart, Saving
  <2>4. Versioned'
    BY <1>1, <1>2, <1>4, <2>2 DEF Versioned, Saving
  <2>5. \A s \in DOMAIN reported : Serves(s, reported[s])'
    BY <1>1, <1>4, <2>2 DEF Serves
  <2> QED
    BY <2>3, <2>4, <2>5
<1> QED
  BY <1>1, <1>3, <1>5, <1>6 DEF ServersOK

LEMMA McpKept ==
  ASSUME McpInv, [NextMcp]_mcpVars PROVE McpInv'
<1>1. ASSUME NEW u \in Users, NEW s \in Servers, NEW at \in {"create", "truncate"}, Put(u, s, at) PROVE McpInv'
  <2>1. PICK loaded \in {LoadConfig, NoServers} :
          BeginChange(u, s, at, loaded, With(loaded, s, used + 1), used + 1)
    BY <1>1 DEF Put
  <2>2. /\ loaded \in ServerConfigs
        /\ used \in Nat /\ used + 1 \in Versions /\ used + 1 # 0 /\ used' = used + 1
    <3>1. LoadConfig \in ServerConfigs /\ used \in Nat
      BY ServersLoad DEF McpInv, McpTypes
    <3>2. NoServers \in ServerConfigs
      BY ConfigIs DEF NoServers
    <3>3. used + 1 \in Versions /\ used' = used + 1
      BY <1>1 DEF Put
    <3> QED
      BY <2>1, <3>1, <3>2, <3>3
  <2>3. With(loaded, s, used + 1) \in ServerConfigs
    BY <2>2, WithTypes
  <2> QED
    BY <2>1, <2>2, <2>3, ChangeBegins
<1>2. ASSUME NEW u \in Users, NEW s \in Servers, HandleRemove(u, s) PROVE McpInv'
  <2>1. LoadConfig \in ServerConfigs /\ Without(LoadConfig, s) \in ServerConfigs
    BY ServersLoad, WithoutTypes DEF McpInv
  <2> QED
    BY <1>2, <2>1, ChangeBegins DEF HandleRemove
<1>3. ASSUME UNCHANGED mcpVars PROVE McpInv'
  <2>1. LoadConfig' = LoadConfig
    BY <1>3 DEF mcpVars, LoadConfig
  <2>2. \A u \in Users : (Saving(u)' <=> Saving(u)) /\ (Reloading(u)' <=> Reloading(u))
    BY <1>3 DEF mcpVars, Saving, Reloading
  <2>3. McpTypes' /\ Running'
    BY <1>3 DEF mcpVars, McpInv, McpTypes, Running
  <2>4. SavesApart => SavesApart'
    BY <1>3, <2>1, <2>2 DEF mcpVars, SavesApart, SaveOK
  <2>5. Versioned => Versioned'
    BY <1>3, <2>2 DEF mcpVars, Versioned, NewVersion
  <2>6. ServersOK'
    BY <1>3, <2>4, <2>5 DEF mcpVars, McpInv, ServersOK, Serves
  <2> QED
    BY <2>3, <2>6 DEF McpInv
<1> QED
  BY <1>1, <1>2, <1>3, SaveServersKept, OverwriteKept, LockKept, ConnectKept, RegisterKept, RestartMcpKept
  DEF NextMcp, HandleAdd, ConnectMcpNode

(* The invariant of the MCP servers.                                       *)
THEOREM McpInvariant == McpSpec => []McpInv
BY McpInit, McpKept, PTL DEF McpSpec

(* save_config of manage_mcp: the servers whose change was answered for    *)
(* are in mcp.json, whatever step of a later change fails or the process   *)
(* ends in, unless two changes overlapped, one could not read the file, or *)
(* a connect_mcp node was cut off while it wrote the file in place.        *)
THEOREM McpServersKept == McpSpec => []ServersSurvive
<1>1. McpInv => ServersSurvive
  BY DEF McpInv, ServersOK, SavesApart, Saving, ServersSurvive
<1> QED
  BY <1>1, McpInvariant, PTL

(* connect_new_mcp_servers reads mcp.json again, connects, asks for the    *)
(* tools and replaces those it had of the server, while other runs change  *)
(* other servers: a tool runs on a connection that is kept, and what the   *)
(* configured version offers is not run by an earlier one.                 *)
THEOREM McpNewestServes == McpSpec => []NewestServes
<1>1. McpInv => NewestServes
  <2> SUFFICES ASSUME McpInv PROVE NewestServes
    OBVIOUS
  <2>1. \A t \in tools : <<t[1], t[3]>> \in handles
    BY DEF McpInv, Running
  <2>2. ASSUME ~muddled, NEW s \in DOMAIN LoadConfig, \A u \in Users : ~Saving(u)
        PROVE  \/ \A t \in tools : t[1] # s \/ t[3] # LoadConfig[s]
               \/ \A t \in tools : (t[1] = s /\ t[2] \in Offers[LoadConfig[s]]) => t[3] = LoadConfig[s]
    <3>1. LoadConfig = reported
      BY <2>2 DEF McpInv, ServersOK, SavesApart, Saving
    <3> QED
      BY <2>2, <3>1 DEF McpInv, ServersOK, Serves
  <2> QED
    BY <2>1, <2>2 DEF NewestServes
<1> QED
  BY <1>1, McpInvariant, PTL

-----------------------------------------------------------------------------
(* policy.json: what it holds, and what a call of manage_policy saves.     *)
PolicyTypes ==
  /\ policy \in Files(Configs)
  /\ saving \in [at : Steps, config : Configs, means : Configs]
  /\ answered \in Configs
  /\ spoiled \in BOOLEAN

(* Until it is edited by hand, the file holds what was answered for; a     *)
(* call saves what its answer will mean, and has it in the temporary file  *)
(* before the rename.                                                      *)
RulesKept ==
  ~spoiled =>
    /\ LoadPolicy = answered
    /\ saving.at # "idle" => saving.config = saving.means
    /\ saving.at = "fill" => policy.tmp = Torn
    /\ saving.at = "rename" => policy.tmp = saving.config

PolicyInv == PolicyTypes /\ RulesKept

LEMMA ConfigIsWhole == \A c \in Configs : c # Torn /\ c # Absent
BY PolicyFileAssumption

LEMMA DefaultRules == Default \in Configs
BY DEF Default, Configs

LEMMA PolicyLoads == PolicyTypes => LoadPolicy \in Configs
BY DefaultRules DEF PolicyTypes, LoadPolicy, Files

(* A call that begins: the file is left, and what it saves is what the     *)
(* answers so far and its own amount to.                                   *)
LEMMA ChangeKept ==
  ASSUME PolicyInv, NEW loaded, NEW c \in Configs, NEW m \in Configs, Change(loaded, c, m),
         loaded = answered => c = m
  PROVE  PolicyInv'
<1>1. saving' \in [at : Steps, config : Configs, means : Configs]
  BY DEF Change, Steps
<1>2. /\ saving'.at = "create" /\ saving'.config = c /\ saving'.means = m
      /\ UNCHANGED <<policy, engine, answered>>
      /\ spoiled' \in BOOLEAN /\ (~spoiled' => ~spoiled /\ loaded = LoadPolicy)
  BY DEF Change, PolicyInv, PolicyTypes
<1>3. LoadPolicy' = LoadPolicy
  BY <1>2 DEF LoadPolicy
<1> QED
  BY <1>1, <1>2, <1>3 DEF PolicyInv, PolicyTypes, RulesKept

LEMMA EnableKept ==
  ASSUME PolicyInv, NEW on \in BOOLEAN, Enable(on)
  PROVE  PolicyInv'
<1>1. PICK loaded \in Loaded :
        Change(loaded, [loaded EXCEPT !.enabled = on], [answered EXCEPT !.enabled = on])
  BY DEF Enable
<1>2. loaded \in Configs /\ answered \in Configs
  BY PolicyLoads, DefaultRules DEF PolicyInv, PolicyTypes, Loaded
<1>3. [loaded EXCEPT !.enabled = on] \in Configs /\ [answered EXCEPT !.enabled = on] \in Configs
  BY <1>2 DEF Configs
<1> QED
  BY <1>1, <1>3, ChangeKept

LEMMA RuleKept ==
  ASSUME PolicyInv, NEW list \in {"allow", "deny", "require_approval"}, NEW pattern \in Patterns,
         AddRule(list, pattern) \/ RemoveRule(list, pattern)
  PROVE  PolicyInv'
<1>0. answered \in Configs /\ \A loaded \in Loaded : loaded \in Configs
  BY PolicyLoads, DefaultRules DEF PolicyInv, PolicyTypes, Loaded
<1>1. ASSUME NEW c \in Configs
      PROVE  /\ [c EXCEPT ![list] = @ \cup {pattern}] \in Configs
             /\ [c EXCEPT ![list] = @ \ {pattern}] \in Configs
  <2>1. CASE list = "allow"
    BY <2>1 DEF Configs
  <2>2. CASE list = "deny"
    BY <2>2 DEF Configs
  <2>3. CASE list = "require_approval"
    BY <2>3 DEF Configs
  <2> QED
    BY <2>1, <2>2, <2>3
<1>2. CASE AddRule(list, pattern)
  <2>1. PICK loaded \in Loaded :
          Change(loaded, [loaded EXCEPT ![list] = @ \cup {pattern}],
                 [answered EXCEPT ![list] = @ \cup {pattern}])
    BY <1>2 DEF AddRule
  <2> QED
    BY <1>0, <1>1, <2>1, ChangeKept
<1>3. CASE RemoveRule(list, pattern)
  <2>1. PICK loaded \in Loaded :
          Change(loaded, [loaded EXCEPT ![list] = @ \ {pattern}],
                 [answered EXCEPT ![list] = @ \ {pattern}])
    BY <1>3 DEF RemoveRule
  <2> QED
    BY <1>0, <1>1, <2>1, ChangeKept
<1> QED
  BY <1>2, <1>3

LEMMA SaveRulesKept ==
  ASSUME PolicyInv, SaveConfig
  PROVE  PolicyInv'
<1>0. /\ policy \in Files(Configs) /\ UNCHANGED spoiled
      /\ saving \in [at : Steps, config : Configs, means : Configs]
      /\ saving.config \in Configs /\ saving.means \in Configs /\ answered \in Configs
  BY DEF PolicyInv, PolicyTypes, SaveConfig
<1>1. CASE saving.at = "create" /\ policy' = Emptied(policy)
           /\ saving' = [saving EXCEPT !.at = "fill"] /\ UNCHANGED answered
  <2>1. policy' \in Files(Configs) /\ policy'.tmp = Torn /\ policy'.file = policy.file
    BY <1>0, <1>1, EmptiedFile
  <2>2. /\ saving' \in [at : Steps, config : Configs, means : Configs]
        /\ saving'.at = "fill" /\ saving'.config = saving.config /\ saving'.means = saving.means
    BY <1>0, <1>1 DEF Steps
  <2> QED
    BY <1>0, <1>1, <2>1, <2>2 DEF PolicyInv, PolicyTypes, RulesKept, LoadPolicy
<1>2. CASE saving.at = "fill" /\ policy' = Filled(policy, saving.config)
           /\ saving' = [saving EXCEPT !.at = "rename"] /\ UNCHANGED answered
  <2>1. /\ policy' \in Files(Configs)
        /\ policy.tmp = Torn => policy'.tmp = saving.config /\ policy'.file = policy.file
    BY <1>0, <1>2, FilledFile
  <2>2. /\ saving' \in [at : Steps, config : Configs, means : Configs]
        /\ saving'.at = "rename" /\ saving'.config = saving.config /\ saving'.means = saving.means
    BY <1>0, <1>2 DEF Steps
  <2> QED
    BY <1>0, <1>2, <2>1, <2>2 DEF PolicyInv, PolicyTypes, RulesKept, LoadPolicy
<1>3. CASE saving.at = "rename" /\ policy' = Renamed(policy)
           /\ saving' = NotSaving /\ answered' = saving.means
  <2>1. /\ policy' \in Files(Configs)
        /\ policy.tmp # Absent => policy'.file = policy.tmp
    BY <1>0, <1>3, RenamedFile
  <2>2. /\ saving' \in [at : Steps, config : Configs, means : Configs] /\ saving'.at = "idle"
    BY <1>3, DefaultRules DEF NotSaving, Steps
  <2>3. ~spoiled => LoadPolicy' = answered'
    BY <1>0, <1>3, <2>1, ConfigIsWhole DEF PolicyInv, RulesKept, LoadPolicy
  <2> QED
    BY <1>0, <1>3, <2>1, <2>2, <2>3 DEF PolicyInv, PolicyTypes, RulesKept
<1>4. CASE saving' = NotSaving /\ UNCHANGED <<policy, answered>>
  <2>1. saving' \in [at : Steps, config : Configs, means : Configs] /\ saving'.at = "idle"
    BY <1>4, DefaultRules DEF NotSaving, Steps
  <2> QED
    BY <1>0, <1>4, <2>1 DEF PolicyInv, PolicyTypes, RulesKept, LoadPolicy
<1> QED
  BY <1>1, <1>2, <1>3, <1>4 DEF SaveConfig

LEMMA PolicyKept == PolicyInv /\ [NextPolicy]_policyVars => PolicyInv'
<1> SUFFICES ASSUME PolicyInv, [NextPolicy]_policyVars PROVE PolicyInv'
  OBVIOUS
<1>1. CASE RestartPolicy
  <2>1. saving' \in [at : Steps, config : Configs, means : Configs] /\ saving'.at = "idle"
    BY <1>1, DefaultRules DEF RestartPolicy, NotSaving, Steps
  <2> QED
    BY <1>1, <2>1 DEF RestartPolicy, PolicyInv, PolicyTypes, RulesKept, LoadPolicy
<1>2. CASE EditByHand
  <2>1. policy' \in Files(Configs)
    BY <1>2 DEF EditByHand, Saved, Files
  <2> QED
    BY <1>2, <2>1 DEF EditByHand, PolicyInv, PolicyTypes, RulesKept
<1>3. CASE UNCHANGED policyVars
  BY <1>3 DEF policyVars, PolicyInv, PolicyTypes, RulesKept, LoadPolicy
<1> QED
  BY <1>1, <1>2, <1>3, EnableKept, RuleKept, SaveRulesKept DEF NextPolicy, Lists

(* manage_policy loads, changes and saves policy.json in steps, any of     *)
(* which may fail and the end of the process may cut off: the rules it     *)
(* answered for are those the next start reads, unless the file was edited *)
(* by hand or a call could not read it.                                    *)
THEOREM PolicyRulesKept == PolicySpec => []RulesSurvive
<1>1. InitPolicy => PolicyInv
  <2> SUFFICES ASSUME InitPolicy PROVE PolicyInv
    OBVIOUS
  <2>1. policy \in Files(Configs) /\ policy.file = Absent
    BY DEF InitPolicy, Saved, Files
  <2>2. saving \in [at : Steps, config : Configs, means : Configs] /\ saving.at = "idle"
    BY DefaultRules DEF InitPolicy, NotSaving, Steps
  <2> QED
    BY <2>1, <2>2, DefaultRules DEF InitPolicy, PolicyInv, PolicyTypes, RulesKept, LoadPolicy
<1>2. PolicyInv => RulesSurvive
  BY DEF PolicyInv, RulesKept, RulesSurvive
<1> QED
  BY <1>1, <1>2, PolicyKept, PTL DEF PolicySpec

(* The three files have what was saved there and what the callers of       *)
(* manage_policy and manage_mcp were told, whatever step of a save failed  *)
(* or the process ended in (with the exceptions that the three name).      *)
THEOREM SettingsKept == ModelsSpec /\ PolicySpec /\ McpSpec => []SettingsSurvive
BY AddedModelsKept, PolicyRulesKept, McpServersKept, PTL DEF SettingsSurvive

-----------------------------------------------------------------------------
(* The verdict on a command.  Commands to judge are put together of others *)
(* (PolicyFile), so it is shown, by how long they are, that each of them   *)
(* ends as it began - no quote, no parenthesis and no escape is open - and *)
(* that the parts it was made of are among its fragments (SoundCase).  The *)
(* recursive functions of Policy are solved first; then what they do to a  *)
(* command is related to what they do to it inside another.                *)

(* What holds of 0 and is handed on holds up to N.                         *)
LEMMA Counting ==
  ASSUME NEW N \in Nat, NEW T, 0 \in T, \A n \in Nat : n < N /\ n \in T => n + 1 \in T
  PROVE  \A n \in 0 .. N : n \in T
<1> DEFINE D == {m \in Nat : m <= N /\ m \notin T}
<1> SUFFICES ASSUME D # {} PROVE FALSE
  OBVIOUS
<1>1. PICK m \in D : \A k \in D : ~(<<k, m>> \in OpToRel(<, Nat))
  <2>1. D \subseteq Nat
    OBVIOUS
  <2> HIDE DEF D
  <2> QED
    BY <2>1, NatLessThanWellFounded, WFMin
<1>2. m \in Nat /\ m # 0 /\ m - 1 \in Nat /\ m - 1 < m
  OBVIOUS
<1>3. m - 1 \notin D
  BY <1>1, <1>2 DEF OpToRel
<1> QED
  BY <1>2, <1>3

-----------------------------------------------------------------------------
(* What is computed from one token to the next.                            *)

(* A step for each of N tokens takes a first state to a last one.          *)
Iterates(f, N, S, s0, T) ==
  f \in [0 .. N -> S] /\ f[0] = s0 /\ \A n \in 1 .. N : f[n] = T[n][f[n - 1]]

(* There is such a function.                                               *)
LEMMA IterationExists ==
  ASSUME NEW N \in Nat, NEW S, NEW s0 \in S, NEW T, \A n \in 1 .. N : T[n] \in [S -> S]
  PROVE  \E f : Iterates(f, N, S, s0, T)
<1> DEFINE Follows(f, n) == f[0] = s0 /\ \A m \in 1 .. n : f[m] = T[m][f[m - 1]]
           U == {n \in Nat : \E f \in [0 .. n -> S] : Follows(f, n)}
<1>1. 0 \in U
  <2>1. [m \in 0 .. 0 |-> s0] \in [0 .. 0 -> S] /\ Follows([m \in 0 .. 0 |-> s0], 0)
    OBVIOUS
  <2> QED
    BY <2>1
<1>2. ASSUME NEW n \in Nat, n < N, n \in U PROVE n + 1 \in U
  <2>1. PICK f \in [0 .. n -> S] : Follows(f, n)
    BY <1>2
  <2> DEFINE g == [m \in 0 .. n + 1 |-> IF m <= n THEN f[m] ELSE T[n + 1][f[n]]]
  <2>2. T[n + 1] \in [S -> S] /\ f[n] \in S
    BY <1>2
  <2>3. g \in [0 .. n + 1 -> S]
    BY <2>2
  <2>4. g[0] = s0
    BY <2>1
  <2>5. ASSUME NEW m \in 1 .. n + 1 PROVE g[m] = T[m][g[m - 1]]
    <3>1. CASE m <= n
      <4>1. g[m] = f[m] /\ g[m - 1] = f[m - 1] /\ m \in 1 .. n
        BY <3>1
      <4> QED
        BY <2>1, <4>1
    <3>2. CASE m = n + 1
      <4>1. g[m] = T[n + 1][f[n]] /\ g[m - 1] = f[n]
        BY <3>2
      <4> QED
        BY <3>2, <4>1
    <3> QED
      BY <3>1, <3>2
  <2>6. n + 1 \in Nat /\ Follows(g, n + 1)
    <3> HIDE DEF g
    <3> QED
      BY <2>4, <2>5
  <2> QED
    BY <2>3, <2>6
<1>3. N \in U
  <2> HIDE DEF U
  <2>1. \A n \in 0 .. N : n \in U
    BY <1>1, <1>2, Counting
  <2> QED
    BY <2>1
<1> QED
  BY <1>3 DEF Iterates

(* What holds at first and is kept by every step holds at last.            *)
LEMMA Lasts ==
  ASSUME NEW N \in Nat, NEW S, NEW f, f[0] \in S,
         \A n \in 1 .. N : f[n - 1] \in S => f[n] \in S
  PROVE  \A n \in 0 .. N : f[n] \in S
<1> DEFINE U == {n \in Nat : f[n] \in S}
<1>1. 0 \in U
  OBVIOUS
<1>2. ASSUME NEW n \in Nat, n < N, n \in U PROVE n + 1 \in U
  <2>1. n + 1 \in 1 .. N /\ (n + 1) - 1 = n /\ f[n] \in S
    BY <1>2
  <2>2. f[(n + 1) - 1] \in S => f[n + 1] \in S
    BY <2>1
  <2> QED
    BY <2>1, <2>2
<1> HIDE DEF U
<1>3. \A n \in 0 .. N : n \in U
  BY <1>1, <1>2, Counting
<1> QED
  BY <1>3 DEF U

-----------------------------------------------------------------------------
(* split_compound_commands.                                                *)
Fresh == [mode |-> "normal", depth |-> 0, fragment |-> <<>>, out |-> {}]
Modes == {"normal", "single", "double", "escape", "quoted escape"}
Scans == [mode : Modes, depth : Nat, fragment : Seq(STRING), out : SUBSET Seq(STRING)]

(* One token further, a scan is still one.                                 *)
LEMMA ScanTyped ==
  ASSUME NEW s \in Scans, NEW ch \in STRING
  PROVE  Scan(s, ch) \in Scans
<1>1. Scanned(s.mode, s.depth, ch) \in Modes
  BY DEF Scanned, Modes, Scans
<1>2. Depth(s.mode, s.depth, ch) \in Nat
  BY DEF Depth, Scans
<1>3. Append(s.fragment, ch) \in Seq(STRING) /\ <<>> \in Seq(STRING)
  BY DEF Scans
<1>4. Pushed(s.out, s.fragment) \in SUBSET Seq(STRING)
  BY DEF Scans, Pushed
<1>5. CASE Cuts(s, ch)
  <2>1. Scan(s, ch) = [mode |-> s.mode, depth |-> s.depth, fragment |-> <<>>,
                       out |-> Pushed(s.out, s.fragment)]
    BY <1>5 DEF Scan, Scans
  <2> QED
    BY <1>3, <1>4, <2>1 DEF Scans
<1>6. CASE ~Cuts(s, ch)
  BY <1>1, <1>2, <1>3, <1>6 DEF Scan, Scans
<1> QED
  BY <1>5, <1>6

(* A scan starts fresh and takes one token after the other.                *)
LEMMA ScanSolved ==
  ASSUME NEW c \in Seq(STRING)
  PROVE  /\ Len(c) \in Nat /\ ScanOf(c)[0] = Fresh
         /\ \A n \in 0 .. Len(c) : ScanOf(c)[n] \in Scans
         /\ \A n \in 1 .. Len(c) : ScanOf(c)[n] = Scan(ScanOf(c)[n - 1], c[n]) /\ c[n] \in STRING
<1> DEFINE T == [n \in 1 .. Len(c) |-> [s \in Scans |-> Scan(s, c[n])]]
           Solves(x) == x = [n \in 0 .. Len(c) |->
             IF n = 0 THEN [mode |-> "normal", depth |-> 0, fragment |-> <<>>, out |-> {}]
             ELSE Scan(x[n - 1], c[n])]
           s == CHOOSE x : Solves(x)
<1>1. Len(c) \in Nat /\ \A n \in 1 .. Len(c) : c[n] \in STRING
  OBVIOUS
<1>2. Fresh \in Scans
  <2>1. <<>> \in Seq(STRING)
    OBVIOUS
  <2> QED
    BY <2>1 DEF Fresh, Scans, Modes
<1>3. \A n \in 1 .. Len(c) : T[n] \in [Scans -> Scans]
  BY <1>1, ScanTyped
<1>4. PICK f : Iterates(f, Len(c), Scans, Fresh, T)
  <2> HIDE DEF T
  <2> QED
    BY <1>1, <1>2, <1>3, IterationExists
<1>5. \A n \in 1 .. Len(c) : f[n] = Scan(f[n - 1], c[n])
  <2> TAKE n \in 1 .. Len(c)
  <2>1. f[n - 1] \in Scans
    BY <1>1, <1>4 DEF Iterates
  <2> QED
    BY <1>4, <2>1 DEF Iterates
<1>6. Solves(f)
  BY <1>1, <1>4, <1>5 DEF Fresh, Iterates
<1>7. Solves(s)
  <2> HIDE DEF Solves
  <2> QED
    BY <1>6
<1>8. ScanOf(c) = s
  BY DEF ScanOf
<1> HIDE DEF s, T
<1>9. s[0] = Fresh /\ \A n \in 1 .. Len(c) : s[n] = Scan(s[n - 1], c[n])
  <2>1. \A n \in 0 .. Len(c) : s[n] = IF n = 0 THEN Fresh ELSE Scan(s[n - 1], c[n])
    BY <1>7 DEF Fresh
  <2> QED
    BY <1>1, <2>1
<1> HIDE DEF Solves
<1>10. \A n \in 0 .. Len(c) : s[n] \in Scans
  <2>1. \A n \in 1 .. Len(c) : s[n - 1] \in Scans => s[n] \in Scans
    BY <1>1, <1>9, ScanTyped
  <2> QED
    BY <1>1, <1>2, <1>9, <2>1, Lasts
<1> QED
  BY <1>1, <1>8, <1>9, <1>10

(* Counts of what is open.                                                *)
Numbers == Int

(* The parentheses that are open, from one token to the next.              *)
LEMMA NestingSolved ==
  ASSUME NEW c \in Seq(STRING)
  PROVE  /\ Nesting(c)[0] = 0 /\ \A n \in 0 .. Len(c) : Nesting(c)[n] \in Int
         /\ \A n \in 1 .. Len(c) : Nesting(c)[n] = Nesting(c)[n - 1] + Opened(c[n])
<1> DEFINE T == [n \in 1 .. Len(c) |-> [s \in Numbers |-> s + Opened(c[n])]]
           Solves(x) == x = [n \in 0 .. Len(c) |-> IF n = 0 THEN 0 ELSE x[n - 1] + Opened(c[n])]
           s == CHOOSE x : Solves(x)
<1>1. Len(c) \in Nat /\ 0 \in Numbers
      /\ \A n \in 1 .. Len(c), t \in Numbers : (t + Opened(c[n])) \in Numbers
  BY DEF Opened, Numbers
<1>2. \A n \in 1 .. Len(c) : T[n] \in [Numbers -> Numbers]
  BY <1>1
<1>3. PICK f : Iterates(f, Len(c), Numbers, 0, T)
  <2> HIDE DEF T
  <2> QED
    BY <1>1, <1>2, IterationExists
<1>4. Solves(f)
  <2>1. \A n \in 1 .. Len(c) : f[n - 1] \in Numbers
    <3> HIDE DEF T
    <3>1. f \in [0 .. Len(c) -> Numbers] /\ \A n \in 1 .. Len(c) : n - 1 \in 0 .. Len(c)
      BY <1>1, <1>3 DEF Iterates
    <3> QED
      BY <3>1
  <2>2. f \in [0 .. Len(c) -> Numbers] /\ f[0] = 0
    BY <1>3 DEF Iterates
  <2>3. \A n \in 1 .. Len(c) : f[n] = f[n - 1] + Opened(c[n])
    BY <1>3, <2>1 DEF Iterates
  <2>4. \A n \in 0 .. Len(c) : f[n] = IF n = 0 THEN 0 ELSE f[n - 1] + Opened(c[n])
    BY <1>1, <2>2, <2>3
  <2> QED
    BY <2>2, <2>4
<1>5. Solves(s)
  <2> HIDE DEF Solves
  <2> QED
    BY <1>4
<1>6. Nesting(c) = s
  BY DEF Nesting
<1> HIDE DEF s, T
<1>7. s[0] = 0 /\ \A n \in 1 .. Len(c) : s[n] = s[n - 1] + Opened(c[n])
  <2>1. \A n \in 0 .. Len(c) : s[n] = IF n = 0 THEN 0 ELSE s[n - 1] + Opened(c[n])
    BY <1>5
  <2> QED
    BY <1>1, <2>1
<1> HIDE DEF Solves
<1>8. \A n \in 0 .. Len(c) : s[n] \in Numbers
  <2>1. \A n \in 1 .. Len(c) : s[n - 1] \in Numbers => s[n] \in Numbers
    BY <1>1, <1>7
  <2>2. s[0] \in Numbers
    BY <1>1, <1>7
  <2> QED
    BY <1>1, <2>1, <2>2, Lasts
<1> QED
  BY <1>6, <1>7, <1>8 DEF Numbers

(* The single quotes that are open, from one token to the next.            *)
LEMMA QuotingSolved ==
  ASSUME NEW c \in Seq(STRING)
  PROVE  /\ Quoting(c)[0] = 0 /\ \A n \in 0 .. Len(c) : Quoting(c)[n] \in Int
         /\ \A n \in 1 .. Len(c) : Quoting(c)[n] = IF c[n] = "'" THEN 1 - Quoting(c)[n - 1] ELSE Quoting(c)[n - 1]
<1> DEFINE T == [n \in 1 .. Len(c) |-> [s \in Numbers |-> IF c[n] = "'" THEN 1 - s ELSE s]]
           Solves(x) == x = [n \in 0 .. Len(c) |-> IF n = 0 THEN 0 ELSE IF c[n] = "'" THEN 1 - x[n - 1] ELSE x[n - 1]]
           s == CHOOSE x : Solves(x)
<1>1. Len(c) \in Nat /\ 0 \in Numbers
      /\ \A n \in 1 .. Len(c), t \in Numbers : (IF c[n] = "'" THEN 1 - t ELSE t) \in Numbers
  BY DEF Opened, Numbers
<1>2. \A n \in 1 .. Len(c) : T[n] \in [Numbers -> Numbers]
  BY <1>1
<1>3. PICK f : Iterates(f, Len(c), Numbers, 0, T)
  <2> HIDE DEF T
  <2> QED
    BY <1>1, <1>2, IterationExists
<1>4. Solves(f)
  <2>1. \A n \in 1 .. Len(c) : f[n - 1] \in Numbers
    <3> HIDE DEF T
    <3>1. f \in [0 .. Len(c) -> Numbers] /\ \A n \in 1 .. Len(c) : n - 1 \in 0 .. Len(c)
      BY <1>1, <1>3 DEF Iterates
    <3> QED
      BY <3>1
  <2>2. f \in [0 .. Len(c) -> Numbers] /\ f[0] = 0
    BY <1>3 DEF Iterates
  <2>3. \A n \in 1 .. Len(c) : f[n] = IF c[n] = "'" THEN 1 - f[n - 1] ELSE f[n - 1]
    BY <1>3, <2>1 DEF Iterates
  <2>4. \A n \in 0 .. Len(c) : f[n] = IF n = 0 THEN 0 ELSE IF c[n] = "'" THEN 1 - f[n - 1] ELSE f[n - 1]
    BY <1>1, <2>2, <2>3
  <2> QED
    BY <2>2, <2>4
<1>5. Solves(s)
  <2> HIDE DEF Solves
  <2> QED
    BY <1>4
<1>6. Quoting(c) = s
  BY DEF Quoting
<1> HIDE DEF s, T
<1>7. s[0] = 0 /\ \A n \in 1 .. Len(c) : s[n] = IF c[n] = "'" THEN 1 - s[n - 1] ELSE s[n - 1]
  <2>1. \A n \in 0 .. Len(c) : s[n] = IF n = 0 THEN 0 ELSE IF c[n] = "'" THEN 1 - s[n - 1] ELSE s[n - 1]
    BY <1>5
  <2> QED
    BY <1>1, <2>1
<1> HIDE DEF Solves
<1>8. \A n \in 0 .. Len(c) : s[n] \in Numbers
  <2>1. \A n \in 1 .. Len(c) : s[n - 1] \in Numbers => s[n] \in Numbers
    BY <1>1, <1>7
  <2>2. s[0] \in Numbers
    BY <1>1, <1>7
  <2> QED
    BY <1>1, <2>1, <2>2, Lasts
<1> QED
  BY <1>6, <1>7, <1>8 DEF Numbers

-----------------------------------------------------------------------------
(* extract_subshells.                                                      *)

(* The first of some positions.                                            *)
LEMMA FirstIs ==
  ASSUME NEW S \in SUBSET Nat, S # {}
  PROVE  First(S) \in S /\ \A j \in S : First(S) <= j
<1>1. PICK m \in S : \A k \in S : ~(<<k, m>> \in OpToRel(<, Nat))
  <2>1. S \subseteq Nat
    OBVIOUS
  <2> QED
    BY <2>1, NatLessThanWellFounded, WFMin
<1>2. ASSUME NEW k \in S PROVE m <= k
  <2>1. m \in Nat /\ k \in Nat
    OBVIOUS
  <2>2. ~(<<k, m>> \in OpToRel(<, Nat))
    BY <1>1
  <2>3. ~(k < m)
    BY <2>1, <2>2 DEF OpToRel
  <2> QED
    BY <2>1, <2>3
<1> QED
  BY <1>2 DEF First

NoBodies == [quoted |-> FALSE, next |-> 1, bodies |-> {}]
Extracts == [quoted : BOOLEAN, next : Nat, bodies : SUBSET Seq(STRING)]

(* One token further, it is still a record of bodies.                      *)
LEMMA ExtractTyped ==
  ASSUME NEW c \in Seq(STRING), NEW i \in 1 .. Len(c), NEW s \in Extracts
  PROVE  Extracting(s, c, i) \in Extracts
<1> DEFINE E == BodyEnds(c, i)
           end == First(E)
           begin == IF c[i] = "tick" THEN i + 1 ELSE i + 2
<1>1. Len(c) \in Nat /\ E \subseteq i + 1 .. Len(c)
  BY DEF BodyEnds
<1>2. ASSUME E # {} PROVE end \in i + 1 .. Len(c) /\ SubSeq(c, begin, end - 1) \in Seq(STRING)
  <2>1. E \in SUBSET Nat
    BY <1>1
  <2> HIDE DEF E
  <2>2. end \in i + 1 .. Len(c)
    BY <1>1, <1>2, <2>1, FirstIs
  <2> HIDE DEF end
  <2>3. begin \in 1 .. Len(c) + 2 /\ end - 1 \in 0 .. Len(c)
    BY <1>1, <2>2
  <2> HIDE DEF begin
  <2> QED
    BY <1>1, <2>2, <2>3
<1>3. CASE E = {}
  BY <1>3 DEF Extracting, Extracts
<1>4. CASE E # {}
  <2>1. PICK b : b = SubSeq(c, begin, end - 1)
    OBVIOUS
  <2>2. \/ Extracting(s, c, i) = s
        \/ Extracting(s, c, i) = [s EXCEPT !.quoted = ~@]
        \/ Extracting(s, c, i) = [s EXCEPT !.next = end + 1, !.bodies = @ \cup {b}]
    BY <2>1 DEF Extracting
  <2>3. end + 1 \in Nat /\ b \in Seq(STRING)
    BY <1>1, <1>2, <1>4, <2>1
  <2> HIDE DEF E, end, begin
  <2> QED
    BY <2>2, <2>3 DEF Extracts
<1> QED
  BY <1>3, <1>4

(* The bodies that were found, from one token to the next.                 *)
LEMMA ExtractSolved ==
  ASSUME NEW c \in Seq(STRING)
  PROVE  /\ ExtractOf(c)[0] = NoBodies /\ \A n \in 0 .. Len(c) : ExtractOf(c)[n] \in Extracts
         /\ \A n \in 1 .. Len(c) : ExtractOf(c)[n] = Extracting(ExtractOf(c)[n - 1], c, n)
<1> DEFINE T == [n \in 1 .. Len(c) |-> [s \in Extracts |-> Extracting(s, c, n)]]
           Solves(x) == x = [n \in 0 .. Len(c) |->
             IF n = 0 THEN [quoted |-> FALSE, next |-> 1, bodies |-> {}] ELSE Extracting(x[n - 1], c, n)]
           s == CHOOSE x : Solves(x)
<1>1. Len(c) \in Nat /\ \A n \in 1 .. Len(c), t \in Extracts : Extracting(t, c, n) \in Extracts
  BY ExtractTyped
<1>2. NoBodies \in Extracts
  BY DEF NoBodies, Extracts
<1>3. \A n \in 1 .. Len(c) : T[n] \in [Extracts -> Extracts]
  BY <1>1
<1>4. PICK f : Iterates(f, Len(c), Extracts, NoBodies, T)
  <2> HIDE DEF T
  <2> QED
    BY <1>1, <1>2, <1>3, IterationExists
<1>5. Solves(f)
  <2>1. \A n \in 1 .. Len(c) : f[n - 1] \in Extracts
    <3> HIDE DEF T
    <3>1. f \in [0 .. Len(c) -> Extracts] /\ \A n \in 1 .. Len(c) : n - 1 \in 0 .. Len(c)
      BY <1>1, <1>4 DEF Iterates
    <3> QED
      BY <3>1
  <2>2. f \in [0 .. Len(c) -> Extracts] /\ f[0] = NoBodies
    BY <1>4 DEF Iterates
  <2>3. \A n \in 1 .. Len(c) : f[n] = Extracting(f[n - 1], c, n)
    BY <1>4, <2>1 DEF Iterates
  <2>4. \A n \in 0 .. Len(c) : f[n] = IF n = 0 THEN NoBodies ELSE Extracting(f[n - 1], c, n)
    BY <1>1, <2>2, <2>3
  <2> QED
    BY <2>2, <2>4 DEF NoBodies
<1>6. Solves(s)
  <2> HIDE DEF Solves
  <2> QED
    BY <1>5
<1>7. ExtractOf(c) = s
  BY DEF ExtractOf
<1> HIDE DEF s, T
<1>8. s[0] = NoBodies /\ \A n \in 1 .. Len(c) : s[n] = Extracting(s[n - 1], c, n)
  <2>1. \A n \in 0 .. Len(c) : s[n] = IF n = 0 THEN NoBodies ELSE Extracting(s[n - 1], c, n)
    BY <1>6 DEF NoBodies
  <2> QED
    BY <1>1, <2>1
<1> HIDE DEF Solves
<1>9. \A n \in 0 .. Len(c) : s[n] \in Extracts
  <2>1. \A n \in 1 .. Len(c) : s[n - 1] \in Extracts => s[n] \in Extracts
    BY <1>1, <1>8
  <2> QED
    BY <1>1, <1>2, <1>8, <2>1, Lasts
<1> QED
  BY <1>7, <1>8, <1>9

-----------------------------------------------------------------------------
(* Parts, bodies and arguments are commands.                               *)
LEMMA PartsTyped ==
  ASSUME NEW c \in Seq(STRING)
  PROVE  Split(c) \in SUBSET Seq(STRING)
<1>1. ScanOf(c)[Len(c)] \in Scans
  BY ScanSolved
<1> QED
  BY <1>1 DEF Split, Pushed, Scans

(* So is what is inside a part ...                                         *)
LEMMA InsideTyped ==
  ASSUME NEW c \in Seq(STRING)
  PROVE  Inside(c) \in SUBSET Seq(STRING)
<1>1. Len(c) \in Nat
  OBVIOUS
<1>2. Subshells(c) \in SUBSET Seq(STRING)
  <2>1. ExtractOf(c)[Len(c)] \in Extracts
    BY <1>1, ExtractSolved
  <2> QED
    BY <2>1 DEF Subshells, Extracts
<1>3. ShellArgs(c) \in SUBSET Seq(STRING)
  <2> DEFINE at == {i \in 1 .. Len(c) - 2 : c[i] \in Shells /\ c[i + 1] = "-c"}
             arg == SubSeq(c, First(at) + 2, Len(c))
             bare == IF Len(arg) > 1 /\ arg[1] = arg[Len(arg)] /\ arg[1] \in {"'", "\""}
                       THEN SubSeq(arg, 2, Len(arg) - 1) ELSE arg
  <2>1. ShellArgs(c) = IF at = {} \/ bare = <<>> THEN {} ELSE {bare}
    BY DEF ShellArgs
  <2>2. ASSUME at # {} PROVE bare \in Seq(STRING)
    <3>1. at \in SUBSET Nat /\ at \subseteq 1 .. Len(c) - 2
      BY <1>1
    <3> HIDE DEF at
    <3>2. First(at) \in 1 .. Len(c) - 2
      BY <2>2, <3>1, FirstIs
    <3>3. arg \in Seq(STRING)
      BY <1>1, <3>2
    <3> HIDE DEF arg
    <3>4. Len(arg) \in Nat
      BY <3>3
    <3>5. Len(arg) > 1 => SubSeq(arg, 2, Len(arg) - 1) \in Seq(STRING)
      BY <3>3, <3>4
    <3> QED
      BY <3>3, <3>5
  <2> HIDE DEF at, bare
  <2> QED
    BY <2>1, <2>2
<1> QED
  BY <1>2, <1>3 DEF Inside

(* collect_all_fragments: the commands of a depth, and what came before.   *)
Levels == [commands : SUBSET Seq(STRING), fragments : SUBSET Seq(STRING)]
Top(c) == [commands |-> {c}, fragments |-> {}]

(* ... and so is what is found one layer deeper.                           *)
LEMMA DeeperTyped ==
  ASSUME NEW s \in Levels
  PROVE  Deeper(s) \in Levels
<1>1. s.commands \in SUBSET Seq(STRING) /\ s.fragments \in SUBSET Seq(STRING)
  BY DEF Levels
<1>2. Parts(s.commands) \in SUBSET Seq(STRING)
  BY <1>1, PartsTyped DEF Parts
<1>3. UNION {Inside(part) : part \in Parts(s.commands)} \in SUBSET Seq(STRING)
  BY <1>2, InsideTyped
<1> QED
  BY <1>1, <1>2, <1>3 DEF Deeper, Levels

(* The layers, from the command itself to the deepest.                     *)
LEMMA LayersSolved ==
  ASSUME NEW c \in Seq(STRING)
  PROVE  /\ Layers(c)[0] = Top(c) /\ \A d \in 0 .. MaxDepth : Layers(c)[d] \in Levels
         /\ \A d \in 1 .. MaxDepth : Layers(c)[d] = Deeper(Layers(c)[d - 1])
<1> DEFINE T == [n \in 1 .. MaxDepth |-> [s \in Levels |-> Deeper(s)]]
           Solves(x) == x = [depth \in 0 .. MaxDepth |->
             IF depth = 0 THEN [commands |-> {c}, fragments |-> {}] ELSE Deeper(x[depth - 1])]
           s == CHOOSE x : Solves(x)
<1>1. MaxDepth \in Nat /\ \A t \in Levels : Deeper(t) \in Levels
  BY PolicyAssumption, DeeperTyped
<1>2. Top(c) \in Levels
  BY DEF Top, Levels
<1>3. \A n \in 1 .. MaxDepth : T[n] \in [Levels -> Levels]
  BY <1>1
<1>4. PICK f : Iterates(f, MaxDepth, Levels, Top(c), T)
  <2> HIDE DEF T
  <2> QED
    BY <1>1, <1>2, <1>3, IterationExists
<1>5. Solves(f)
  <2>1. \A n \in 1 .. MaxDepth : f[n - 1] \in Levels
    <3> HIDE DEF T
    <3>1. f \in [0 .. MaxDepth -> Levels] /\ \A n \in 1 .. MaxDepth : n - 1 \in 0 .. MaxDepth
      BY <1>1, <1>4 DEF Iterates
    <3> QED
      BY <3>1
  <2>2. f \in [0 .. MaxDepth -> Levels] /\ f[0] = Top(c)
    BY <1>4 DEF Iterates
  <2>3. \A n \in 1 .. MaxDepth : f[n] = Deeper(f[n - 1])
    BY <1>4, <2>1 DEF Iterates
  <2>4. \A n \in 0 .. MaxDepth : f[n] = IF n = 0 THEN Top(c) ELSE Deeper(f[n - 1])
    BY <1>1, <2>2, <2>3
  <2> QED
    BY <2>2, <2>4 DEF Top
<1>6. Solves(s)
  <2> HIDE DEF Solves
  <2> QED
    BY <1>5
<1>7. Layers(c) = s
  BY DEF Layers
<1> HIDE DEF s, T
<1>8. s[0] = Top(c) /\ \A n \in 1 .. MaxDepth : s[n] = Deeper(s[n - 1])
  <2>1. \A n \in 0 .. MaxDepth : s[n] = IF n = 0 THEN Top(c) ELSE Deeper(s[n - 1])
    BY <1>6 DEF Top
  <2> QED
    BY <1>1, <2>1
<1> HIDE DEF Solves
<1>9. \A n \in 0 .. MaxDepth : s[n] \in Levels
  <2>1. \A n \in 1 .. MaxDepth : s[n - 1] \in Levels => s[n] \in Levels
    BY <1>1, <1>8
  <2> QED
    BY <1>1, <1>2, <1>8, <2>1, Lasts
<1> QED
  BY <1>7, <1>8, <1>9

-----------------------------------------------------------------------------
(* A command that stands in another.                                       *)

(* x stands in z after the k-th token.                                     *)
StandsAt(z, k, x) == k + Len(x) <= Len(z) /\ \A i \in 1 .. Len(x) : z[k + i] = x[i]

(* The tokens of z after the k-th, up to the n-th, are none of S.          *)
Lacks(z, k, n, S) == \A i \in k + 1 .. n : z[i] \notin S

(* Its parentheses open and close there as they do by themselves ...       *)
LEMMA NestingMoved ==
  ASSUME NEW z \in Seq(STRING), NEW x \in Seq(STRING), NEW k \in Nat, StandsAt(z, k, x)
  PROVE  \A m \in 0 .. Len(x) : Nesting(z)[k + m] = Nesting(z)[k] + Nesting(x)[m]
<1> DEFINE U == {m \in Nat : Nesting(z)[k + m] = Nesting(z)[k] + Nesting(x)[m]}
<1>1. Len(x) \in Nat /\ Len(z) \in Nat /\ k + Len(x) <= Len(z)
  BY DEF StandsAt
<1>2. 0 \in U
  <2>1. k + 0 = k /\ k \in 0 .. Len(z)
    BY <1>1
  <2>2. Nesting(x)[0] = 0 /\ Nesting(z)[k] \in Int
    BY <2>1, NestingSolved
  <2> QED
    BY <2>1, <2>2
<1>3. ASSUME NEW m \in Nat, m < Len(x), m \in U PROVE m + 1 \in U
  <2>1. /\ k + (m + 1) \in 1 .. Len(z) /\ (k + (m + 1)) - 1 = k + m /\ m + 1 \in 1 .. Len(x)
        /\ (m + 1) - 1 = m /\ k \in 0 .. Len(z) /\ m \in 0 .. Len(x)
    BY <1>1, <1>3
  <2>2. z[k + (m + 1)] = x[m + 1]
    BY <2>1 DEF StandsAt
  <2>3. Nesting(z)[k + (m + 1)] = Nesting(z)[k + m] + Opened(z[k + (m + 1)])
    BY <2>1, NestingSolved
  <2>4. Nesting(x)[m + 1] = Nesting(x)[m] + Opened(x[m + 1])
    BY <2>1, NestingSolved
  <2>5. Nesting(z)[k] \in Int /\ Nesting(x)[m] \in Int /\ Opened(x[m + 1]) \in Int
    BY <2>1, NestingSolved DEF Opened
  <2>6. Nesting(z)[k + m] = Nesting(z)[k] + Nesting(x)[m]
    BY <1>3
  <2>7. Nesting(z)[k + (m + 1)] = Nesting(z)[k] + Nesting(x)[m + 1]
    BY <2>2, <2>3, <2>4, <2>5, <2>6
  <2> QED
    BY <2>7
<1> HIDE DEF U
<1>4. \A m \in 0 .. Len(x) : m \in U
  BY <1>1, <1>2, <1>3, Counting
<1> QED
  BY <1>4 DEF U

(* ... and so do its quotes, where none is open before it.                 *)
LEMMA QuotingMoved ==
  ASSUME NEW z \in Seq(STRING), NEW x \in Seq(STRING), NEW k \in Nat, StandsAt(z, k, x),
         Quoting(z)[k] = 0
  PROVE  \A m \in 0 .. Len(x) : Quoting(z)[k + m] = Quoting(x)[m]
<1> DEFINE U == {m \in Nat : Quoting(z)[k + m] = Quoting(x)[m]}
<1>1. Len(x) \in Nat /\ Len(z) \in Nat /\ k + Len(x) <= Len(z)
  BY DEF StandsAt
<1>2. 0 \in U
  <2>1. k + 0 = k /\ Quoting(x)[0] = 0
    BY QuotingSolved
  <2> QED
    BY <2>1
<1>3. ASSUME NEW m \in Nat, m < Len(x), m \in U PROVE m + 1 \in U
  <2>1. /\ k + (m + 1) \in 1 .. Len(z) /\ (k + (m + 1)) - 1 = k + m /\ m + 1 \in 1 .. Len(x)
        /\ (m + 1) - 1 = m
    BY <1>1, <1>3
  <2>2. z[k + (m + 1)] = x[m + 1]
    BY <2>1 DEF StandsAt
  <2>3. Quoting(z)[k + (m + 1)] = IF z[k + (m + 1)] = "'" THEN 1 - Quoting(z)[k + m]
                                  ELSE Quoting(z)[k + m]
    BY <2>1, QuotingSolved
  <2>4. Quoting(x)[m + 1] = IF x[m + 1] = "'" THEN 1 - Quoting(x)[m] ELSE Quoting(x)[m]
    BY <2>1, QuotingSolved
  <2>5. Quoting(z)[k + m] = Quoting(x)[m]
    BY <1>3
  <2>6. Quoting(z)[k + (m + 1)] = Quoting(x)[m + 1]
    BY <2>2, <2>3, <2>4, <2>5
  <2> QED
    BY <2>6
<1> HIDE DEF U
<1>4. \A m \in 0 .. Len(x) : m \in U
  BY <1>1, <1>2, <1>3, Counting
<1> QED
  BY <1>4 DEF U

(* Where there are no parentheses none opens ...                           *)
LEMMA NestingStays ==
  ASSUME NEW z \in Seq(STRING), NEW k \in Nat, NEW n \in Nat, n <= Len(z), Lacks(z, k, n, {"(", ")"})
  PROVE  \A i \in k .. n : Nesting(z)[i] = Nesting(z)[k]
<1> DEFINE U == {m \in Nat : k + m <= n => Nesting(z)[k + m] = Nesting(z)[k]}
<1>1. Len(z) \in Nat
  OBVIOUS
<1>2. 0 \in U
  OBVIOUS
<1>3. ASSUME NEW m \in Nat, m < n, m \in U PROVE m + 1 \in U
  <2> SUFFICES ASSUME k + (m + 1) <= n PROVE Nesting(z)[k + (m + 1)] = Nesting(z)[k]
    OBVIOUS
  <2>1. /\ k + (m + 1) \in 1 .. Len(z) /\ (k + (m + 1)) - 1 = k + m /\ k + (m + 1) \in k + 1 .. n
        /\ k \in 0 .. Len(z) /\ k + m <= n
    BY <1>1
  <2>2. Opened(z[k + (m + 1)]) = 0
    BY <2>1 DEF Lacks, Opened
  <2>3. Nesting(z)[k + (m + 1)] = Nesting(z)[k + m] + Opened(z[k + (m + 1)]) /\ Nesting(z)[k] \in Int
    BY <2>1, NestingSolved
  <2>4. Nesting(z)[k + m] = Nesting(z)[k]
    BY <1>3, <2>1
  <2> QED
    BY <2>2, <2>3, <2>4
<1> HIDE DEF U
<1>4. \A m \in 0 .. n : m \in U
  BY <1>2, <1>3, Counting
<1>5. ASSUME NEW i \in k .. n PROVE Nesting(z)[i] = Nesting(z)[k]
  <2>1. i - k \in 0 .. n /\ k + (i - k) = i /\ i <= n
    OBVIOUS
  <2>2. i - k \in U
    BY <1>4, <2>1
  <2> QED
    BY <2>1, <2>2 DEF U
<1> QED
  BY <1>5

(* ... and where there are no quotes none is.                              *)
LEMMA QuotingStays ==
  ASSUME NEW z \in Seq(STRING), NEW k \in Nat, NEW n \in Nat, n <= Len(z), Lacks(z, k, n, {"'"})
  PROVE  \A i \in k .. n : Quoting(z)[i] = Quoting(z)[k]
<1> DEFINE U == {m \in Nat : k + m <= n => Quoting(z)[k + m] = Quoting(z)[k]}
<1>1. Len(z) \in Nat
  OBVIOUS
<1>2. 0 \in U
  OBVIOUS
<1>3. ASSUME NEW m \in Nat, m < n, m \in U PROVE m + 1 \in U
  <2> SUFFICES ASSUME k + (m + 1) <= n PROVE Quoting(z)[k + (m + 1)] = Quoting(z)[k]
    OBVIOUS
  <2>1. /\ k + (m + 1) \in 1 .. Len(z) /\ (k + (m + 1)) - 1 = k + m /\ k + (m + 1) \in k + 1 .. n
        /\ k + m <= n
    BY <1>1
  <2>2. z[k + (m + 1)] # "'"
    BY <2>1 DEF Lacks
  <2>3. Quoting(z)[k + (m + 1)] = IF z[k + (m + 1)] = "'" THEN 1 - Quoting(z)[k + m]
                                  ELSE Quoting(z)[k + m]
    BY <2>1, QuotingSolved
  <2>4. Quoting(z)[k + m] = Quoting(z)[k]
    BY <1>3, <2>1
  <2> QED
    BY <2>2, <2>3, <2>4
<1> HIDE DEF U
<1>4. \A m \in 0 .. n : m \in U
  BY <1>2, <1>3, Counting
<1>5. ASSUME NEW i \in k .. n PROVE Quoting(z)[i] = Quoting(z)[k]
  <2>1. i - k \in 0 .. n /\ k + (i - k) = i /\ i <= n
    OBVIOUS
  <2>2. i - k \in U
    BY <1>4, <2>1
  <2> QED
    BY <2>1, <2>2 DEF U
<1> QED
  BY <1>5

-----------------------------------------------------------------------------
(* Commands in the parts of a command.                                     *)

(* What has the parts of another, k deep, has all that is in it, k deeper. *)
LEMMA LayersMoved ==
  ASSUME NEW a \in Seq(STRING), NEW c \in Seq(STRING), NEW k \in 0 .. MaxDepth,
         Split(a) \subseteq Parts(Layers(c)[k].commands)
  PROVE  \A d \in 0 .. MaxDepth - k :
           Parts(Layers(a)[d].commands) \subseteq Parts(Layers(c)[k + d].commands)
<1> DEFINE U == {d \in Nat : Parts(Layers(a)[d].commands) \subseteq Parts(Layers(c)[k + d].commands)}
<1>1. MaxDepth \in Nat /\ MaxDepth - k \in Nat
  BY PolicyAssumption
<1>2. 0 \in U
  <2>1. Layers(a)[0].commands = {a}
    <3>1. Layers(a)[0] = Top(a)
      BY LayersSolved
    <3> QED
      BY <3>1 DEF Top
  <2>2. Parts({a}) = Split(a) /\ k + 0 = k
    BY <1>1 DEF Parts
  <2> QED
    BY <2>1, <2>2
<1>3. ASSUME NEW d \in Nat, d < MaxDepth - k, d \in U PROVE d + 1 \in U
  <2>1. /\ d + 1 \in 1 .. MaxDepth /\ (d + 1) - 1 = d
        /\ k + (d + 1) \in 1 .. MaxDepth /\ (k + (d + 1)) - 1 = k + d
    BY <1>1, <1>3
  <2> DEFINE In(x, n) == UNION {Inside(part) : part \in Parts(Layers(x)[n].commands)}
  <2>2. Layers(a)[d + 1] = Deeper(Layers(a)[d])
    BY <2>1, LayersSolved
  <2>3. Layers(c)[k + (d + 1)] = Deeper(Layers(c)[k + d])
    BY <2>1, LayersSolved
  <2>4. Layers(a)[d + 1].commands = In(a, d) /\ Layers(c)[k + (d + 1)].commands = In(c, k + d)
    BY <2>2, <2>3 DEF Deeper
  <2>5. Parts(Layers(a)[d].commands) \subseteq Parts(Layers(c)[k + d].commands)
    BY <1>3
  <2>6. In(a, d) \subseteq In(c, k + d)
    BY <2>5
  <2> HIDE DEF In
  <2>7. Parts(In(a, d)) \subseteq Parts(In(c, k + d))
    BY <2>6 DEF Parts
  <2> QED
    BY <2>4, <2>7
<1> HIDE DEF U
<1>4. \A d \in 0 .. MaxDepth - k : d \in U
  BY <1>1, <1>2, <1>3, Counting
<1> QED
  BY <1>4 DEF U

(* Every part of every depth is a fragment.                                *)
LEMMA Collected ==
  ASSUME NEW c \in Seq(STRING), NEW d \in 0 .. MaxDepth - 1
  PROVE  Parts(Layers(c)[d].commands) \subseteq Collect(c)
<1> DEFINE P == Parts(Layers(c)[d].commands)
           U == {n \in Nat : n <= MaxDepth - (d + 1) => P \subseteq Layers(c)[(d + 1) + n].fragments}
<1>1. MaxDepth \in Nat /\ MaxDepth - (d + 1) \in Nat /\ d + 1 \in 1 .. MaxDepth /\ (d + 1) - 1 = d
  BY PolicyAssumption
<1>2. 0 \in U
  <2>1. Layers(c)[d + 1] = Deeper(Layers(c)[d]) /\ (d + 1) + 0 = d + 1
    BY <1>1, LayersSolved
  <2>2. P \subseteq Layers(c)[d + 1].fragments
    BY <2>1 DEF Deeper
  <2> HIDE DEF P
  <2> QED
    BY <2>1, <2>2
<1>3. ASSUME NEW n \in Nat, n < MaxDepth - (d + 1), n \in U PROVE n + 1 \in U
  <2>1. (d + 1) + (n + 1) \in 1 .. MaxDepth /\ ((d + 1) + (n + 1)) - 1 = (d + 1) + n
    BY <1>1, <1>3
  <2>2. Layers(c)[(d + 1) + (n + 1)] = Deeper(Layers(c)[(d + 1) + n])
    BY <2>1, LayersSolved
  <2>3. Layers(c)[(d + 1) + n].fragments \subseteq Layers(c)[(d + 1) + (n + 1)].fragments
    BY <2>2 DEF Deeper
  <2>4. P \subseteq Layers(c)[(d + 1) + n].fragments
    BY <1>1, <1>3
  <2> HIDE DEF P
  <2> QED
    BY <2>3, <2>4
<1> HIDE DEF U
<1>4. \A n \in 0 .. MaxDepth - (d + 1) : n \in U
  BY <1>1, <1>2, <1>3, Counting
<1>5. MaxDepth - (d + 1) \in U /\ (d + 1) + (MaxDepth - (d + 1)) = MaxDepth
  BY <1>1, <1>4
<1>6. P \subseteq Layers(c)[MaxDepth].fragments
  <2> HIDE DEF P
  <2>1. MaxDepth - (d + 1) <= MaxDepth - (d + 1)
    BY <1>1
  <2> QED
    BY <1>5, <2>1 DEF U
<1> QED
  BY <1>6 DEF Collect

(* In x and y together, x comes first and y after it.                      *)
Together(x, y) == x \o y

(* Each stands where it was put.                                           *)
LEMMA TwoStand ==
  ASSUME NEW x \in Seq(STRING), NEW y \in Seq(STRING), NEW z, z = Together(x, y)
  PROVE  /\ z \in Seq(STRING) /\ Len(z) = Len(x) + Len(y) /\ Len(x) \in Nat /\ Len(y) \in Nat
         /\ StandsAt(z, 0, x) /\ StandsAt(z, Len(x), y)
<1>1. z = x \o y
  BY DEF Together
<1>2. Len(x) \in Nat /\ Len(y) \in Nat /\ z \in Seq(STRING) /\ Len(z) = Len(x) + Len(y)
  BY <1>1
<1>3. ASSUME NEW i \in 1 .. Len(x) PROVE z[0 + i] = x[i]
  <2>1. 0 + i = i /\ i <= Len(x)
    BY <1>2
  <2> QED
    BY <1>1, <1>2, <2>1
<1>4. \A i \in 1 .. Len(y) : z[Len(x) + i] = y[i]
  BY <1>1, <1>2
<1> QED
  BY <1>2, <1>3, <1>4 DEF StandsAt

(* What stands in a part stands in the whole.                              *)
LEMMA StandsIn ==
  ASSUME NEW z \in Seq(STRING), NEW u \in Seq(STRING), NEW x \in Seq(STRING),
         NEW j \in Nat, NEW k \in Nat, StandsAt(z, j, u), StandsAt(u, k, x)
  PROVE  StandsAt(z, j + k, x)
<1>1. Len(z) \in Nat /\ Len(u) \in Nat /\ Len(x) \in Nat
  OBVIOUS
<1>2. j + Len(u) <= Len(z) /\ k + Len(x) <= Len(u)
  BY DEF StandsAt
<1>3. (j + k) + Len(x) <= Len(z)
  BY <1>1, <1>2
<1>4. ASSUME NEW i \in 1 .. Len(x) PROVE z[(j + k) + i] = x[i]
  <2>1. k + i \in 1 .. Len(u) /\ (j + k) + i = j + (k + i)
    BY <1>1, <1>2
  <2>2. z[j + (k + i)] = u[k + i] /\ u[k + i] = x[i]
    BY <2>1 DEF StandsAt
  <2> QED
    BY <2>1, <2>2
<1> QED
  BY <1>3, <1>4 DEF StandsAt

(* Three parts ...                                                         *)
LEMMA ThreeStand ==
  ASSUME NEW x \in Seq(STRING), NEW s \in Seq(STRING), NEW y \in Seq(STRING),
         NEW z, z = Together(Together(x, s), y)
  PROVE  /\ z \in Seq(STRING) /\ Len(z) = Len(x) + Len(s) + Len(y)
         /\ Len(x) \in Nat /\ Len(s) \in Nat /\ Len(y) \in Nat
         /\ StandsAt(z, 0, x) /\ StandsAt(z, Len(x), s) /\ StandsAt(z, Len(x) + Len(s), y)
<1>1. PICK u : u = Together(x, s)
  OBVIOUS
<1>2. /\ u \in Seq(STRING) /\ Len(u) = Len(x) + Len(s) /\ Len(x) \in Nat /\ Len(s) \in Nat
      /\ StandsAt(u, 0, x) /\ StandsAt(u, Len(x), s)
  BY <1>1, TwoStand
<1>3. /\ z \in Seq(STRING) /\ Len(z) = Len(u) + Len(y) /\ Len(y) \in Nat
      /\ StandsAt(z, 0, u) /\ StandsAt(z, Len(u), y)
  BY ZenonT(30), <1>1, <1>2, TwoStand
<1>4. StandsAt(z, 0 + 0, x) /\ StandsAt(z, 0 + Len(x), s)
  BY <1>2, <1>3, StandsIn
<1> QED
  BY <1>2, <1>3, <1>4

(* ... and four.                                                           *)
LEMMA FourStand ==
  ASSUME NEW x \in Seq(STRING), NEW s \in Seq(STRING), NEW y \in Seq(STRING), NEW e \in Seq(STRING),
         NEW z, z = Together(Together(Together(x, s), y), e)
  PROVE  /\ z \in Seq(STRING) /\ Len(z) = Len(x) + Len(s) + Len(y) + Len(e)
         /\ Len(x) \in Nat /\ Len(s) \in Nat /\ Len(y) \in Nat /\ Len(e) \in Nat
         /\ StandsAt(z, 0, x) /\ StandsAt(z, Len(x), s) /\ StandsAt(z, Len(x) + Len(s), y)
         /\ StandsAt(z, Len(x) + Len(s) + Len(y), e)
<1>1. PICK u : u = Together(Together(x, s), y)
  OBVIOUS
<1>2. /\ u \in Seq(STRING) /\ Len(u) = Len(x) + Len(s) + Len(y)
      /\ Len(x) \in Nat /\ Len(s) \in Nat /\ Len(y) \in Nat
      /\ StandsAt(u, 0, x) /\ StandsAt(u, Len(x), s) /\ StandsAt(u, Len(x) + Len(s), y)
  BY <1>1, ThreeStand
<1>3. /\ z \in Seq(STRING) /\ Len(z) = Len(u) + Len(e) /\ Len(e) \in Nat
      /\ StandsAt(z, 0, u) /\ StandsAt(z, Len(u), e)
  BY ZenonT(30), <1>1, <1>2, TwoStand
<1>4. Len(x) + Len(s) \in Nat
  BY <1>2
<1>5. StandsAt(z, 0 + 0, x) /\ StandsAt(z, 0 + Len(x), s) /\ StandsAt(z, 0 + (Len(x) + Len(s)), y)
  BY <1>2, <1>3, <1>4, StandsIn
<1> QED
  BY <1>2, <1>3, <1>4, <1>5

-----------------------------------------------------------------------------
(* The same scan with parts cut before it.                                 *)
After(o, s) == [mode |-> s.mode, depth |-> s.depth, fragment |-> s.fragment, out |-> o \cup s.out]

(* Parts cut before do not matter to a step.                               *)
LEMMA ScanAfter ==
  ASSUME NEW s \in Scans, NEW o, NEW ch
  PROVE  Scan(After(o, s), ch) = After(o, Scan(s, ch))
<1> DEFINE t == After(o, s)
<1>1. t.mode = s.mode /\ t.depth = s.depth /\ t.fragment = s.fragment /\ t.out = o \cup s.out
  BY DEF After
<1>2. Pushed(o \cup s.out, s.fragment) = o \cup Pushed(s.out, s.fragment)
  BY DEF Pushed
<1>3. Cuts(t, ch) <=> Cuts(s, ch)
  BY <1>1 DEF Cuts
<1>4. CASE Cuts(s, ch)
  <2>1. Scan(s, ch) = [mode |-> s.mode, depth |-> s.depth, fragment |-> <<>>,
                       out |-> Pushed(s.out, s.fragment)]
    BY <1>4 DEF Scan, Scans
  <2>2. Scan(t, ch) = [mode |-> s.mode, depth |-> s.depth, fragment |-> <<>>,
                       out |-> Pushed(o \cup s.out, s.fragment)]
    BY <1>3, <1>4 DEF Scan, After
  <2>3. After(o, Scan(s, ch)) = [mode |-> s.mode, depth |-> s.depth, fragment |-> <<>>,
                                 out |-> o \cup Pushed(s.out, s.fragment)]
    BY <2>1 DEF After
  <2> QED
    BY <1>2, <2>2, <2>3
<1>5. CASE ~Cuts(s, ch)
  <2> HIDE DEF t
  <2>1. Scan(t, ch) = [mode |-> Scanned(s.mode, s.depth, ch), depth |-> Depth(s.mode, s.depth, ch),
                       fragment |-> Append(s.fragment, ch), out |-> o \cup s.out]
    BY <1>1, <1>3, <1>5 DEF Scan
  <2>2. Scan(s, ch) = [mode |-> Scanned(s.mode, s.depth, ch), depth |-> Depth(s.mode, s.depth, ch),
                       fragment |-> Append(s.fragment, ch), out |-> s.out]
    BY <1>5 DEF Scan
  <2> QED
    BY <2>1, <2>2 DEF After, t
<1> QED
  BY <1>4, <1>5

(* From where x stands, a scan of z goes on as one of x begins.            *)
LEMMA ScanMoved ==
  ASSUME NEW z \in Seq(STRING), NEW x \in Seq(STRING), NEW k \in Nat, StandsAt(z, k, x),
         NEW o, ScanOf(z)[k] = After(o, Fresh)
  PROVE  \A m \in 0 .. Len(x) : ScanOf(z)[k + m] = After(o, ScanOf(x)[m])
<1> DEFINE U == {m \in Nat : ScanOf(z)[k + m] = After(o, ScanOf(x)[m])}
<1>1. Len(x) \in Nat /\ Len(z) \in Nat
  OBVIOUS
<1>2. 0 \in U
  <2>1. k + 0 = k /\ ScanOf(x)[0] = Fresh
    BY ScanSolved
  <2> QED
    BY <2>1
<1>3. ASSUME NEW m \in Nat, m < Len(x), m \in U PROVE m + 1 \in U
  <2>1. /\ k + (m + 1) \in 1 .. Len(z) /\ (k + (m + 1)) - 1 = k + m /\ m + 1 \in 1 .. Len(x)
        /\ (m + 1) - 1 = m /\ m \in 0 .. Len(x)
    BY <1>1, <1>3 DEF StandsAt
  <2>2. z[k + (m + 1)] = x[m + 1]
    BY <2>1 DEF StandsAt
  <2>3. ScanOf(z)[k + (m + 1)] = Scan(ScanOf(z)[k + m], z[k + (m + 1)])
    BY <2>1, ScanSolved
  <2>4. ScanOf(x)[m + 1] = Scan(ScanOf(x)[m], x[m + 1]) /\ ScanOf(x)[m] \in Scans
    BY <2>1, ScanSolved
  <2>5. ScanOf(z)[k + m] = After(o, ScanOf(x)[m])
    BY <1>3
  <2>6. ScanOf(z)[k + (m + 1)] = After(o, ScanOf(x)[m + 1])
    BY <2>2, <2>3, <2>4, <2>5, ScanAfter
  <2> QED
    BY <2>6
<1> HIDE DEF U
<1>4. \A m \in 0 .. Len(x) : m \in U
  BY <1>1, <1>2, <1>3, Counting
<1> QED
  BY <1>4 DEF U

(* A scan that ends outside of quotes and parentheses.                     *)
Ends(c) == ScanOf(c)[Len(c)].mode = "normal" /\ ScanOf(c)[Len(c)].depth = 0

(* A separator after a command that ends cuts off its last part.           *)
LEMMA ScanSeparated ==
  ASSUME NEW z \in Seq(STRING), NEW k \in Nat, k < Len(z), z[k + 1] \in Separators,
         NEW s \in Scans, s.mode = "normal", s.depth = 0, ScanOf(z)[k] = s
  PROVE  ScanOf(z)[k + 1] = After(Pushed(s.out, s.fragment), Fresh)
<1>1. ScanOf(z)[k + 1] = Scan(s, z[k + 1])
  <2>1. k + 1 \in 1 .. Len(z) /\ (k + 1) - 1 = k
    OBVIOUS
  <2> QED
    BY <2>1, ScanSolved
<1>2. Cuts(s, z[k + 1])
  BY DEF Cuts
<1>3. Scan(s, z[k + 1]) = [mode |-> s.mode, depth |-> s.depth, fragment |-> <<>>,
                           out |-> Pushed(s.out, s.fragment)]
  BY <1>2 DEF Scan, Scans
<1> QED
  BY <1>1, <1>3 DEF After, Fresh

-----------------------------------------------------------------------------
(* Joined commands are split where they were joined.                       *)
LEMMA JoinSplits ==
  ASSUME NEW x \in Seq(STRING), NEW y \in Seq(STRING), NEW s \in Seq(STRING), Len(s) \in {1, 2},
         \A i \in 1 .. Len(s) : s[i] \in Separators,
         Ends(x), NEW z, z = Together(Together(x, s), y)
  PROVE  Split(z) = Split(x) \cup Split(y) /\ (Ends(y) => Ends(z))
<1> DEFINE Sz == ScanOf(z)
           K == Len(x) + Len(s)
<1>1. /\ z \in Seq(STRING) /\ Len(z) = Len(x) + Len(s) + Len(y)
      /\ Len(x) \in Nat /\ Len(s) \in Nat /\ Len(y) \in Nat
      /\ StandsAt(z, 0, x) /\ StandsAt(z, Len(x), s) /\ StandsAt(z, Len(x) + Len(s), y)
  BY ThreeStand
<1>2. PICK last : last = ScanOf(x)[Len(x)] /\ last \in Scans /\ last.mode = "normal" /\ last.depth = 0
  <2>1. Len(x) \in 0 .. Len(x)
    BY <1>1
  <2> QED
    BY <2>1, ScanSolved DEF Ends
<1>3. Split(x) = Pushed(last.out, last.fragment)
  BY <1>2 DEF Split
<1>4. Sz[Len(x)] = last
  <2>1. Sz[0] = Fresh /\ Fresh = After({}, Fresh)
    BY <1>1, ScanSolved DEF Fresh, After
  <2>2. 0 \in Nat /\ Len(x) \in 0 .. Len(x) /\ 0 + Len(x) = Len(x)
    BY <1>1
  <2>3. Sz[0 + Len(x)] = After({}, ScanOf(x)[Len(x)])
    BY <1>1, <2>1, <2>2, ScanMoved
  <2>4. After({}, last) = last
    BY <1>2 DEF After, Scans
  <2> QED
    BY <1>2, <2>2, <2>3, <2>4
<1>5. Sz[Len(x) + 1] = After(Split(x), Fresh)
  <2>1. Len(x) < Len(z) /\ 1 \in 1 .. Len(s)
    <3>1. CASE Len(s) = 1
      BY <1>1, <3>1
    <3>2. CASE Len(s) = 2
      BY <1>1, <3>2
    <3> QED
      BY <3>1, <3>2
  <2>2. z[Len(x) + 1] = s[1]
    BY <1>1, <2>1 DEF StandsAt
  <2>3. s[1] \in Separators
    BY <2>1
  <2>4. z[Len(x) + 1] \in Separators
    BY <2>2, <2>3
  <2>5. Sz[Len(x) + 1] = After(Pushed(last.out, last.fragment), Fresh)
    BY <1>1, <1>2, <1>4, <2>1, <2>4, ScanSeparated
  <2> QED
    BY <1>3, <2>5
<1>6. Sz[K] = After(Split(x), Fresh)
  <2>1. CASE Len(s) = 1
    BY <1>5, <2>1
  <2>2. CASE Len(s) = 2
    <3> DEFINE t == After(Split(x), Fresh)
    <3>1. t.mode = "normal" /\ t.depth = 0 /\ t.fragment = <<>> /\ t.out = Split(x)
      BY DEF After, Fresh
    <3>2. t \in Scans
      <4>1. Split(x) \in SUBSET Seq(STRING) /\ <<>> \in Seq(STRING)
        BY PartsTyped
      <4> QED
        BY <4>1 DEF After, Fresh, Scans, Modes
    <3>3. Len(x) + 1 < Len(z) /\ 2 \in 1 .. Len(s) /\ Len(x) + 1 \in Nat /\ (Len(x) + 1) + 1 = Len(x) + 2
      BY <1>1, <2>2
    <3>4. z[Len(x) + 2] = s[2] /\ s[2] \in Separators
      BY <1>1, <3>3 DEF StandsAt
    <3>5. Pushed(t.out, t.fragment) = Split(x)
      BY <3>1 DEF Pushed
    <3>6. Sz[Len(x) + 1] = t
      BY <1>5
    <3> HIDE DEF t
    <3>7. Sz[(Len(x) + 1) + 1] = After(Pushed(t.out, t.fragment), Fresh)
      <4>1. PICK k : k = Len(x) + 1
        OBVIOUS
      <4>2. k \in Nat /\ k < Len(z) /\ k + 1 = Len(x) + 2
        BY <3>3, <4>1
      <4>3. z[k + 1] \in Separators
        BY <3>4, <4>2
      <4>4. Sz[k] = t
        BY <3>6, <4>1
      <4>5. z \in Seq(STRING) /\ t.mode = "normal" /\ t.depth = 0
        BY <1>1, <3>1
      <4>6. Sz[k + 1] = After(Pushed(t.out, t.fragment), Fresh)
        BY ZenonT(30), <3>2, <4>2, <4>3, <4>4, <4>5, ScanSeparated
      <4> QED
        BY <4>1, <4>6
    <3> QED
      BY <2>2, <3>3, <3>5, <3>7
  <2> QED
    BY <2>1, <2>2
<1>7. PICK end : end = ScanOf(y)[Len(y)] /\ Sz[Len(z)] = After(Split(x), end)
  <2>1. K \in Nat /\ Len(y) \in 0 .. Len(y) /\ K + Len(y) = Len(z)
    BY <1>1
  <2>2. Sz[K + Len(y)] = After(Split(x), ScanOf(y)[Len(y)])
    BY <1>1, <1>6, <2>1, ScanMoved
  <2> QED
    BY <2>1, <2>2
<1>8. Split(y) = Pushed(end.out, end.fragment)
  BY <1>7 DEF Split
<1>9. Split(z) = Split(x) \cup Split(y)
  <2>1. Split(z) = Pushed(Split(x) \cup end.out, end.fragment)
    BY <1>7 DEF Split, After
  <2> QED
    BY <1>8, <2>1 DEF Pushed
<1>10. Ends(y) => Ends(z)
  BY <1>7 DEF Ends, After
<1> QED
  BY <1>9, <1>10

-----------------------------------------------------------------------------
(* Commands that are not split.                                            *)

(* The n-th token does not cut, and changes the mode and the depth so.     *)
Uncuts(M, D, z, n) ==
  /\ ~(M[n - 1] = "normal" /\ D[n - 1] = 0 /\ z[n] \in Separators)
  /\ M[n] = Scanned(M[n - 1], D[n - 1], z[n]) /\ D[n] = Depth(M[n - 1], D[n - 1], z[n])

(* A command is one part when no token of it is cut off.                   *)
LEMMA Uncut ==
  ASSUME NEW z \in Seq(STRING), z # <<>>, NEW M, NEW D, M[0] = "normal", D[0] = 0,
         \A n \in 1 .. Len(z) : Uncuts(M, D, z, n)
  PROVE  /\ Split(z) = {z}
         /\ M[Len(z)] = "normal" /\ D[Len(z)] = 0 => Ends(z)
<1> DEFINE ScanAt(n) == [mode |-> M[n], depth |-> D[n], fragment |-> SubSeq(z, 1, n), out |-> {}]
           U == {n \in Nat : ScanOf(z)[n] = ScanAt(n)}
<1>1. Len(z) \in Nat
  OBVIOUS
<1>2. 0 \in U
  <2>1. SubSeq(z, 1, 0) = <<>>
    OBVIOUS
  <2>2. ScanOf(z)[0] = ScanAt(0)
    BY <2>1, ScanSolved DEF Fresh
  <2> QED
    BY <2>2
<1>3. ASSUME NEW n \in Nat, n < Len(z), n \in U PROVE n + 1 \in U
  <2>1. n + 1 \in 1 .. Len(z) /\ (n + 1) - 1 = n
    BY <1>1, <1>3
  <2>2. ScanOf(z)[n + 1] = Scan(ScanOf(z)[n], z[n + 1]) /\ z[n + 1] \in STRING
    BY <2>1, ScanSolved
  <2>3. ScanOf(z)[n] = ScanAt(n)
    BY <1>3
  <2>4. Append(SubSeq(z, 1, n), z[n + 1]) = SubSeq(z, 1, n + 1)
    BY <1>1, <2>1
  <2>5. /\ ~(M[n] = "normal" /\ D[n] = 0 /\ z[n + 1] \in Separators)
        /\ M[n + 1] = Scanned(M[n], D[n], z[n + 1]) /\ D[n + 1] = Depth(M[n], D[n], z[n + 1])
    BY <2>1 DEF Uncuts
  <2>6. ~Cuts(ScanAt(n), z[n + 1])
    BY <2>5 DEF Cuts
  <2>7. Scan(ScanAt(n), z[n + 1]) = [mode |-> M[n + 1], depth |-> D[n + 1],
                                 fragment |-> Append(SubSeq(z, 1, n), z[n + 1]), out |-> {}]
    BY <2>5, <2>6 DEF Scan
  <2>8. ScanOf(z)[n + 1] = ScanAt(n + 1)
    BY <2>2, <2>3, <2>4, <2>7
  <2> QED
    BY <2>8
<1> HIDE DEF U
<1>4. \A n \in 0 .. Len(z) : n \in U
  BY <1>1, <1>2, <1>3, Counting
<1>5. ScanOf(z)[Len(z)] = ScanAt(Len(z))
  BY <1>1, <1>4 DEF U
<1>6. SubSeq(z, 1, Len(z)) = z
  OBVIOUS
<1>7. ScanOf(z)[Len(z)] = [mode |-> M[Len(z)], depth |-> D[Len(z)], fragment |-> z, out |-> {}]
  BY <1>5, <1>6
<1>8. Split(z) = {z}
  BY <1>7 DEF Split, Pushed
<1> QED
  BY <1>7, <1>8 DEF Ends

(* Tokens the shell gives no meaning to, in quotes or not ...              *)
Marks == Special \ {"tick"}

(* ... without quotes, parentheses and separators, ...                     *)
LEMMA PlainUncut ==
  ASSUME NEW z \in Seq(STRING), z # <<>>, Lacks(z, 0, Len(z), Marks)
  PROVE  Split(z) = {z} /\ Ends(z)
<1> DEFINE M == [n \in 0 .. Len(z) |-> "normal"]
           D == [n \in 0 .. Len(z) |-> 0]
<1>1. Len(z) \in Nat
  OBVIOUS
<1>2. ASSUME NEW n \in 1 .. Len(z) PROVE Uncuts(M, D, z, n)
  <2>1. M[n - 1] = "normal" /\ D[n - 1] = 0 /\ M[n] = "normal" /\ D[n] = 0
    BY <1>1
  <2>2. z[n] \notin Marks
    BY <1>1 DEF Lacks
  <2>3. Scanned("normal", 0, z[n]) = "normal" /\ Depth("normal", 0, z[n]) = 0
    BY <2>2 DEF Scanned, Depth, Marks, Special
  <2>4. z[n] \notin Separators
    BY <2>2 DEF Marks, Special, Separators
  <2> QED
    BY <2>1, <2>3, <2>4 DEF Uncuts
<1>3. M[0] = "normal" /\ D[0] = 0 /\ M[Len(z)] = "normal" /\ D[Len(z)] = 0
  BY <1>1
<1> HIDE DEF M, D
<1> QED
  BY <1>2, <1>3, Uncut

(* ... that end in quotes ...                                              *)
Quotes == {"'", "\""}
Stops(quote) == IF quote = "'" THEN {"'"} ELSE {"\"", "\\"}

(* ... with nothing but what is in quotes after words, ...                 *)
LEMMA QuotedUncut ==
  ASSUME NEW z \in Seq(STRING), NEW k \in Nat, k + 2 <= Len(z), Lacks(z, 0, k, Marks),
         NEW quote \in Quotes, z[k + 1] = quote, z[Len(z)] = quote,
         Lacks(z, k + 1, Len(z) - 1, Stops(quote))
  PROVE  Split(z) = {z} /\ Ends(z)
<1> DEFINE in == IF quote = "'" THEN "single" ELSE "double"
           M == [n \in 0 .. Len(z) |-> IF n <= k \/ n = Len(z) THEN "normal" ELSE in]
           D == [n \in 0 .. Len(z) |-> 0]
<1>1. Len(z) \in Nat
  OBVIOUS
<1>2. in \in {"single", "double"} /\ (in = "single" <=> quote = "'")
  OBVIOUS
<1>3. ASSUME NEW n \in 1 .. Len(z) PROVE Uncuts(M, D, z, n)
  <2>1. D[n - 1] = 0 /\ D[n] = 0
    BY <1>1
  <2>2. CASE n <= k
    <3>1. M[n - 1] = "normal" /\ M[n] = "normal"
      BY <1>1, <2>2
    <3>2. z[n] \notin Marks
      BY <2>2 DEF Lacks
    <3>3. Scanned("normal", 0, z[n]) = "normal" /\ Depth("normal", 0, z[n]) = 0
      BY <3>2 DEF Scanned, Depth, Marks, Special
    <3>4. z[n] \notin Separators
      BY <3>2 DEF Marks, Special, Separators
    <3> QED
      BY <2>1, <3>1, <3>3, <3>4 DEF Uncuts
  <2>3. CASE n = k + 1
    <3>1. M[n - 1] = "normal" /\ M[n] = in
      BY <1>1, <2>3
    <3>2. Scanned("normal", 0, quote) = in /\ Depth("normal", 0, quote) = 0
      <4>1. ~(0 > 0)
        OBVIOUS
      <4>2. CASE quote = "'"
        BY <4>1, <4>2 DEF Scanned, Depth
      <4>3. CASE quote = "\""
        BY <4>1, <4>3, Zenon DEF Scanned, Depth
      <4> QED
        BY <4>2, <4>3 DEF Quotes
    <3>3. quote \notin Separators
      BY DEF Separators, Quotes
    <3> HIDE DEF in, M, D
    <3> QED
      BY <2>1, <2>3, <3>1, <3>2, <3>3 DEF Uncuts
  <2>4. CASE n > k + 1 /\ n < Len(z)
    <3>1. M[n - 1] = in /\ M[n] = in
      BY <1>1, <2>4
    <3>2. z[n] \notin Stops(quote)
      BY <1>1, <2>4 DEF Lacks
    <3>3. Scanned(in, 0, z[n]) = in /\ Depth(in, 0, z[n]) = 0 /\ in # "normal"
      BY <3>2 DEF Scanned, Depth, Stops, Quotes
    <3> HIDE DEF in, M, D
    <3> QED
      BY <2>1, <3>1, <3>3 DEF Uncuts
  <2>5. CASE n = Len(z)
    <3>1. M[n - 1] = in /\ M[n] = "normal"
      BY <1>1, <2>5
    <3>2. Scanned(in, 0, quote) = "normal" /\ Depth(in, 0, quote) = 0 /\ in # "normal"
      BY DEF Scanned, Depth, Quotes
    <3> HIDE DEF in, M, D
    <3> QED
      BY <2>1, <2>5, <3>1, <3>2 DEF Uncuts
  <2> QED
    BY <1>1, <2>2, <2>3, <2>4, <2>5
<1>4. M[0] = "normal" /\ D[0] = 0 /\ M[Len(z)] = "normal" /\ D[Len(z)] = 0 /\ z # <<>>
  BY <1>1
<1> HIDE DEF M, D
<1> QED
  BY <1>3, <1>4, Uncut

(* ... and with nothing but what is in parentheses after words, around     *)
(* what closes all it opens.                                               *)
LEMMA NestedUncut ==
  ASSUME NEW z \in Seq(STRING), NEW k \in Nat, NEW a \in Seq(STRING), Balanced(a),
         Lacks(z, 0, k + 1, Marks), z[k + 2] = "(", StandsAt(z, k + 2, a),
         Len(z) = (k + 2) + Len(a) + 1, z[Len(z)] = ")"
  PROVE  Split(z) = {z} /\ Ends(z)
<1> DEFINE M == [n \in 0 .. Len(z) |-> "normal"]
           D == [n \in 0 .. Len(z) |-> IF n < k + 2 \/ n = Len(z) THEN 0
                                       ELSE 1 + Nesting(a)[n - (k + 2)]]
<1>1. Len(z) \in Nat /\ Len(a) \in Nat
  OBVIOUS
<1>2. ASSUME NEW n \in 1 .. Len(z) PROVE Uncuts(M, D, z, n)
  <2>1. M[n - 1] = "normal" /\ M[n] = "normal"
    BY <1>1
  <2>2. CASE n <= k + 1
    <3>1. D[n - 1] = 0 /\ D[n] = 0
      BY <1>1, <2>2
    <3>2. z[n] \notin Marks
      BY <2>2 DEF Lacks
    <3>3. Scanned("normal", 0, z[n]) = "normal" /\ Depth("normal", 0, z[n]) = 0
      BY <3>2 DEF Scanned, Depth, Marks, Special
    <3>4. z[n] \notin Separators
      BY <3>2 DEF Marks, Special, Separators
    <3> QED
      BY <2>1, <3>1, <3>3, <3>4 DEF Uncuts
  <2>3. CASE n = k + 2
    <3>1. D[n - 1] = 0 /\ D[n] = 1
      <4>1. Nesting(a)[0] = 0 /\ n - (k + 2) = 0
        BY <2>3, NestingSolved
      <4> QED
        BY <1>1, <2>3, <4>1
    <3>2. Scanned("normal", 0, "(") = "normal" /\ Depth("normal", 0, "(") = 1
      BY DEF Scanned, Depth
    <3>3. "(" \notin Separators
      BY DEF Separators
    <3> QED
      BY <2>1, <2>3, <3>1, <3>2, <3>3 DEF Uncuts
  <2>4. CASE n > k + 2 /\ n < Len(z)
    <3> DEFINE m == n - (k + 2)
               b == Nesting(a)[m - 1]
               ch == a[m]
    <3>1. m \in 1 .. Len(a) /\ m - 1 \in 0 .. Len(a) /\ (k + 2) + m = n /\ m - 1 = (n - 1) - (k + 2)
      BY <1>1, <2>4
    <3>2. z[n] = ch
      BY <3>1 DEF StandsAt
    <3>3. Nesting(a)[m] = b + Opened(ch) /\ b \in Int /\ b >= 0 /\ Nesting(a)[m] >= 0
      BY <3>1, NestingSolved DEF Balanced
    <3>4. D[n - 1] = 1 + b /\ D[n] = 1 + Nesting(a)[m]
      BY <1>1, <2>4, <3>1
    <3> HIDE DEF D, M, b, ch, m
    <3>5. D[n - 1] \in Int /\ D[n - 1] > 0 /\ D[n] = D[n - 1] + Opened(ch)
      <4>1. Opened(ch) \in Int
        BY DEF Opened
      <4> QED
        BY <3>3, <3>4, <4>1
    <3>6. Depth("normal", D[n - 1], ch) = D[n - 1] + Opened(ch)
      BY <3>5 DEF Depth, Opened
    <3>7. Scanned("normal", D[n - 1], ch) = "normal"
      BY <3>5 DEF Scanned
    <3>8. D[n - 1] # 0
      BY <3>5
    <3> QED
      BY <2>1, <3>2, <3>5, <3>6, <3>7, <3>8 DEF Uncuts
  <2>5. CASE n = Len(z)
    <3>1. D[n - 1] = 1 /\ D[n] = 0
      <4>1. Nesting(a)[Len(a)] = 0 /\ (n - 1) - (k + 2) = Len(a)
        BY <1>1, <2>5 DEF Balanced
      <4> QED
        BY <1>1, <2>5, <4>1
    <3>2. Scanned("normal", 1, ")") = "normal" /\ Depth("normal", 1, ")") = 0
      BY DEF Scanned, Depth
    <3>3. z[n] = ")" /\ D[n - 1] # 0
      BY <2>5, <3>1
    <3> HIDE DEF D, M
    <3> QED
      BY <2>1, <3>1, <3>2, <3>3 DEF Uncuts
  <2>6. n <= k + 1 \/ n = k + 2 \/ (n > k + 2 /\ n < Len(z)) \/ n = Len(z)
    BY <1>1
  <2> HIDE DEF M, D
  <2> QED
    BY <2>2, <2>3, <2>4, <2>5, <2>6
<1>3. M[0] = "normal" /\ D[0] = 0 /\ M[Len(z)] = "normal" /\ D[Len(z)] = 0 /\ z # <<>>
  BY <1>1
<1> HIDE DEF M, D
<1> QED
  BY <1>2, <1>3, Uncut

-----------------------------------------------------------------------------
(* Which tokens there are.                                                 *)
LEMMA LacksAll ==
  ASSUME NEW c \in Seq(STRING), NEW S, ToSet(c) \cap S = {}
  PROVE  Lacks(c, 0, Len(c), S)
<1>1. \A i \in DOMAIN c : c[i] \notin S
  BY DEF ToSet
<1>2. DOMAIN c = 0 + 1 .. Len(c)
  OBVIOUS
<1> QED
  BY <1>1, <1>2 DEF Lacks

(* What lacks all of some tokens lacks each of them.                       *)
LEMMA LacksFewer ==
  ASSUME NEW z, NEW k, NEW n, NEW S, NEW T, Lacks(z, k, n, S), T \subseteq S
  PROVE  Lacks(z, k, n, T)
BY DEF Lacks

(* A token that is another ...                                             *)
LEMMA LacksOne ==
  ASSUME NEW z, NEW k \in Nat, NEW S, z[k + 1] \notin S
  PROVE  Lacks(z, k, k + 1, S)
BY DEF Lacks

(* ... and two stretches that lack it, one after the other, ...            *)
LEMMA LacksJoined ==
  ASSUME NEW z, NEW k \in Nat, NEW m \in Nat, NEW n \in Nat, NEW S, Lacks(z, k, m, S), Lacks(z, m, n, S)
  PROVE  Lacks(z, k, n, S)
<1>1. ASSUME NEW i \in k + 1 .. n PROVE z[i] \notin S
  <2>1. i \in k + 1 .. m \/ i \in m + 1 .. n
    OBVIOUS
  <2> QED
    BY <2>1 DEF Lacks
<1> QED
  BY <1>1 DEF Lacks

(* ... and a text that lacks it where it stands in another.                *)
LEMMA LacksMoved ==
  ASSUME NEW z \in Seq(STRING), NEW x \in Seq(STRING), NEW k \in Nat, NEW S, StandsAt(z, k, x),
         Lacks(x, 0, Len(x), S)
  PROVE  Lacks(z, k, k + Len(x), S)
<1>1. ASSUME NEW i \in k + 1 .. k + Len(x) PROVE z[i] \notin S
  <2>1. i - k \in 1 .. Len(x) /\ k + (i - k) = i /\ i - k \in 0 + 1 .. Len(x)
    OBVIOUS
  <2>2. z[i] = x[i - k]
    BY <2>1 DEF StandsAt
  <2> QED
    BY <2>1, <2>2 DEF Lacks
<1> QED
  BY <1>1 DEF Lacks

(* What stands between two tokens.                                         *)
LEMMA StandsBetween ==
  ASSUME NEW z \in Seq(STRING), NEW x \in Seq(STRING), NEW k \in Nat, StandsAt(z, k, x)
  PROVE  SubSeq(z, k + 1, k + Len(x)) = x
<1> DEFINE y == SubSeq(z, k + 1, k + Len(x))
<1>1. Len(x) \in Nat /\ Len(z) \in Nat /\ k + Len(x) <= Len(z)
  BY DEF StandsAt
<1>2. y \in Seq(STRING) /\ Len(y) = Len(x)
  BY <1>1
<1>3. ASSUME NEW i \in 1 .. Len(x) PROVE y[i] = x[i]
  <2>1. y[i] = z[k + i]
    BY <1>1
  <2> QED
    BY <2>1 DEF StandsAt
<1> HIDE DEF y
<1>4. y = [i \in 1 .. Len(x) |-> y[i]] /\ x = [i \in 1 .. Len(x) |-> x[i]]
  BY <1>2
<1>5. y = x
  BY <1>3, <1>4, Zenon
<1> QED
  BY <1>5 DEF y

-----------------------------------------------------------------------------
(* Variables.                                                              *)
LEMMA ExpandsMoved ==
  ASSUME NEW z \in Seq(STRING), NEW x \in Seq(STRING), NEW k \in Nat, StandsAt(z, k, x),
         Quoting(z)[k] = 0, Expands(x)
  PROVE  Expands(z)
<1>1. Len(x) \in Nat /\ Len(z) \in Nat /\ k + Len(x) <= Len(z)
  BY DEF StandsAt
<1>2. PICK i \in 1 .. Len(x) - 1 : x[i] = "$" /\ x[i + 1] \in Names /\ Quoting(x)[i] = 0
  BY DEF Expands
<1>3. k + i \in 1 .. Len(z) - 1 /\ i \in 1 .. Len(x) /\ i + 1 \in 1 .. Len(x) /\ i \in 0 .. Len(x)
      /\ k + (i + 1) = (k + i) + 1
  BY <1>1
<1>4. z[k + i] = x[i] /\ z[(k + i) + 1] = x[i + 1]
  BY <1>3 DEF StandsAt
<1>5. Quoting(z)[k + i] = Quoting(x)[i]
  BY <1>3, QuotingMoved
<1> QED
  BY <1>2, <1>3, <1>4, <1>5 DEF Expands

(* Words are one part, without quotes and parentheses.                     *)
LEMMA WordsPlain ==
  ASSUME NEW w, IsWords(w)
  PROVE  /\ w \in Seq(STRING) /\ Len(w) \in Nat /\ Len(w) >= 1 /\ w # <<>>
         /\ Lacks(w, 0, Len(w), Special) /\ Lacks(w, 0, Len(w), Marks)
         /\ Split(w) = {w} /\ Ends(w)
         /\ \A i \in 0 .. Len(w) : Nesting(w)[i] = 0 /\ Quoting(w)[i] = 0
         /\ Named(w) => Expands(w)
<1>1. w \in Seq(STRING) /\ w # <<>> /\ ToSet(w) \cap Special = {}
  BY DEF IsWords
<1>2. Len(w) \in Nat /\ Len(w) >= 1
  BY <1>1
<1>3. Lacks(w, 0, Len(w), Special)
  BY <1>1, LacksAll
<1>4. Marks \subseteq Special /\ {"(", ")"} \subseteq Special /\ {"'"} \subseteq Special
  BY DEF Marks, Special
<1>5. Lacks(w, 0, Len(w), Marks) /\ Lacks(w, 0, Len(w), {"(", ")"}) /\ Lacks(w, 0, Len(w), {"'"})
  BY <1>3, <1>4, LacksFewer
<1>6. Split(w) = {w} /\ Ends(w)
  BY <1>1, <1>5, PlainUncut
<1>7. \A i \in 0 .. Len(w) : Nesting(w)[i] = 0
  BY <1>1, <1>2, <1>5, NestingStays, NestingSolved
<1>8. \A i \in 0 .. Len(w) : Quoting(w)[i] = 0
  BY <1>1, <1>2, <1>5, QuotingStays, QuotingSolved
<1>9. Named(w) => Expands(w)
  <2>1. \A i \in 1 .. Len(w) - 1 : i \in 0 .. Len(w)
    BY <1>2
  <2> QED
    BY <1>8, <2>1 DEF Named, Expands
<1> QED
  BY <1>1, <1>2, <1>3, <1>5, <1>6, <1>7, <1>8, <1>9

-----------------------------------------------------------------------------
(* Bodies and arguments.                                                   *)

(* A body that begins where none did before is found.                      *)
LEMMA BodyFound ==
  ASSUME NEW z \in Seq(STRING), NEW k \in Nat, k < Len(z),
         Lacks(z, 0, k + 1, {"(", "'"}), Lacks(z, 0, k, {"tick"}),
         NEW end \in Nat, BodyEnds(z, k + 1) = {end}
  PROVE  SubSeq(z, IF z[k + 1] = "tick" THEN k + 2 ELSE k + 3, end - 1) \in Subshells(z)
<1> DEFINE b == SubSeq(z, IF z[k + 1] = "tick" THEN k + 2 ELSE k + 3, end - 1)
           U == {n \in Nat : n <= k => ExtractOf(z)[n] = NoBodies}
<1>1. Len(z) \in Nat
  OBVIOUS
<1>2. 0 \in U
  BY ExtractSolved
<1>3. ASSUME NEW n \in Nat, n < k, n \in U PROVE n + 1 \in U
  <2> DEFINE i == n + 1
  <2>1. i \in 1 .. Len(z) /\ i - 1 = n /\ i \in 0 + 1 .. k + 1 /\ i + 1 \in 0 + 1 .. k + 1 /\ i \in 0 + 1 .. k
        /\ ~(i < 1)
    BY <1>1, <1>3
  <2>2. ExtractOf(z)[i] = Extracting(ExtractOf(z)[n], z, i)
    BY <2>1, ExtractSolved
  <2>3. ExtractOf(z)[n] = NoBodies
    BY <1>3
  <2>4. z[i] # "'" /\ z[i + 1] # "(" /\ z[i] # "tick"
    BY <2>1 DEF Lacks
  <2>5. BodyEnds(z, i) = {}
    BY <2>4 DEF BodyEnds
  <2> HIDE DEF i
  <2>6. Extracting(NoBodies, z, i) = NoBodies
    BY <2>1, <2>4, <2>5 DEF Extracting, NoBodies
  <2>7. ExtractOf(z)[i] = NoBodies
    BY <2>2, <2>3, <2>6
  <2> QED
    BY <2>7 DEF i
<1> HIDE DEF U
<1>4. \A n \in 0 .. k : n \in U
  BY <1>2, <1>3, Counting
<1>5. ExtractOf(z)[k] = NoBodies
  BY <1>4 DEF U
<1>6. b \in ExtractOf(z)[k + 1].bodies
  <2> DEFINE i == k + 1
  <2>1. i \in 1 .. Len(z) /\ i - 1 = k /\ i \in 0 + 1 .. k + 1 /\ ~(i < 1) /\ i + 1 = k + 2 /\ i + 2 = k + 3
    BY <1>1
  <2>2. ExtractOf(z)[i] = Extracting(NoBodies, z, i)
    BY <1>5, <2>1, ExtractSolved
  <2>3. z[i] # "'"
    BY <2>1 DEF Lacks
  <2>4. BodyEnds(z, i) = {end} /\ First({end}) = end
    <3>1. {end} \in SUBSET Nat /\ {end} # {}
      OBVIOUS
    <3>2. First({end}) \in {end}
      BY <3>1, FirstIs
    <3> QED
      BY <3>2
  <2>5. b = SubSeq(z, IF z[i] = "tick" THEN i + 1 ELSE i + 2, end - 1)
    BY <2>1
  <2> HIDE DEF i, b
  <2>6. Extracting(NoBodies, z, i) = [NoBodies EXCEPT !.next = end + 1, !.bodies = @ \cup {b}]
    BY <2>1, <2>3, <2>4, <2>5 DEF Extracting, NoBodies
  <2>7. b \in ExtractOf(z)[i].bodies
    BY <2>2, <2>6 DEF NoBodies
  <2> QED
    BY <2>7 DEF i
<1> DEFINE V == {n \in Nat : (k + 1) + n <= Len(z) => b \in ExtractOf(z)[(k + 1) + n].bodies}
<1>7. 0 \in V
  BY <1>6
<1>8. ASSUME NEW n \in Nat, n < Len(z), n \in V PROVE n + 1 \in V
  <2> DEFINE i == (k + 1) + (n + 1)
  <2> SUFFICES ASSUME i <= Len(z) PROVE b \in ExtractOf(z)[i].bodies
    OBVIOUS
  <2>1. i \in 1 .. Len(z) /\ i - 1 = (k + 1) + n /\ i - 1 \in 0 .. Len(z) /\ i - 1 <= Len(z)
    BY <1>1
  <2>2. ExtractOf(z)[i] = Extracting(ExtractOf(z)[i - 1], z, i) /\ ExtractOf(z)[i - 1] \in Extracts
    BY <2>1, ExtractSolved
  <2>3. b \in ExtractOf(z)[i - 1].bodies
    BY <1>8, <2>1
  <2> HIDE DEF i, b, V
  <2>4. PICK s : s = ExtractOf(z)[i - 1]
    OBVIOUS
  <2>5. s.bodies \subseteq Extracting(s, z, i).bodies
    <3>1. s \in Extracts
      BY <2>2, <2>4
    <3> QED
      BY <3>1 DEF Extracting, Extracts
  <2> QED
    BY <2>2, <2>3, <2>4, <2>5
<1> HIDE DEF V
<1>9. \A n \in 0 .. Len(z) : n \in V
  BY <1>1, <1>7, <1>8, Counting
<1>10. Len(z) - (k + 1) \in V /\ (k + 1) + (Len(z) - (k + 1)) = Len(z)
  BY <1>1, <1>9
<1>11. b \in ExtractOf(z)[Len(z)].bodies
  <2> HIDE DEF b
  <2>1. Len(z) <= Len(z)
    BY <1>1
  <2> QED
    BY <1>10, <2>1 DEF V
<1> QED
  BY <1>11 DEF Subshells

(* The body of $(...) ...                                                  *)
LEMMA SubstitutedBody ==
  ASSUME NEW z \in Seq(STRING), NEW k \in Nat, NEW a \in Seq(STRING), Balanced(a),
         Lacks(z, 0, k + 1, {"(", ")"}), Lacks(z, 0, k + 1, {"(", "'"}), Lacks(z, 0, k, {"tick"}),
         z[k + 1] = "$", z[k + 2] = "(", StandsAt(z, k + 2, a),
         Len(z) = (k + 2) + Len(a) + 1, z[Len(z)] = ")"
  PROVE  a \in Inside(z)
<1>1. Len(a) \in Nat /\ Len(z) \in Nat /\ k + 1 < Len(z)
  OBVIOUS
<1>2. \A i \in 0 .. k + 1 : Nesting(z)[i] = 0
  <2>1. \A i \in 0 .. k + 1 : Nesting(z)[i] = Nesting(z)[0]
    BY <1>1, NestingStays
  <2> QED
    BY <2>1, NestingSolved
<1>3. Nesting(z)[k + 2] = 1
  <2>1. k + 2 \in 1 .. Len(z) /\ (k + 2) - 1 = k + 1 /\ k + 1 \in 0 .. k + 1
    BY <1>1
  <2>2. Nesting(z)[k + 2] = Nesting(z)[k + 1] + Opened("(")
    BY <2>1, NestingSolved
  <2>3. Opened("(") = 1
    BY DEF Opened
  <2> QED
    BY <1>2, <2>1, <2>2, <2>3
<1>4. ASSUME NEW j \in k + 2 .. Len(z) - 1 PROVE Nesting(z)[j] \in Int /\ Nesting(z)[j] >= 1
  <2>1. j - (k + 2) \in 0 .. Len(a) /\ (k + 2) + (j - (k + 2)) = j /\ k + 2 \in Nat
    BY <1>1
  <2>2. Nesting(z)[(k + 2) + (j - (k + 2))] = Nesting(z)[k + 2] + Nesting(a)[j - (k + 2)]
    BY <2>1, NestingMoved
  <2>3. Nesting(a)[j - (k + 2)] \in Int /\ Nesting(a)[j - (k + 2)] >= 0
    BY <2>1, NestingSolved DEF Balanced
  <2> QED
    BY <1>3, <2>1, <2>2, <2>3
<1>5. Nesting(z)[Len(z)] = 0
  <2>1. Len(a) \in 0 .. Len(a) /\ (k + 2) + Len(a) = Len(z) - 1 /\ k + 2 \in Nat /\ Len(z) \in 1 .. Len(z)
    BY <1>1
  <2>2. Nesting(z)[(k + 2) + Len(a)] = Nesting(z)[k + 2] + Nesting(a)[Len(a)]
    BY <2>1, NestingMoved
  <2>3. Nesting(z)[Len(z)] = Nesting(z)[Len(z) - 1] + Opened(")")
    BY <2>1, NestingSolved
  <2>4. Opened(")") = -1
    BY DEF Opened
  <2> QED
    BY <1>3, <2>1, <2>2, <2>3, <2>4 DEF Balanced
<1>6. BodyEnds(z, k + 1) = {Len(z)}
  <2>1. BodyEnds(z, k + 1) = {j \in k + 3 .. Len(z) : Nesting(z)[j] = 0}
    <3>1. /\ (k + 1) + 1 = k + 2 /\ (k + 1) + 2 = k + 3
          /\ Nesting(z)[k + 1] = 0
      BY <1>1, <1>2
    <3> QED
      BY <1>1, <3>1 DEF BodyEnds
  <2>2. \A j \in k + 3 .. Len(z) : j \in k + 2 .. Len(z) - 1 \/ j = Len(z)
    BY <1>1
  <2>3. \A j \in k + 3 .. Len(z) : Nesting(z)[j] = 0 <=> j = Len(z)
    BY <1>4, <1>5, <2>2
  <2>4. Len(z) \in k + 3 .. Len(z)
    BY <1>1
  <2> QED
    BY <2>1, <2>3, <2>4
<1>7. SubSeq(z, k + 3, Len(z) - 1) = a
  <2>1. k + 2 \in Nat /\ (k + 2) + 1 = k + 3 /\ (k + 2) + Len(a) = Len(z) - 1
    BY <1>1
  <2> QED
    BY <2>1, StandsBetween
<1>8. a \in Subshells(z)
  <2>1. z[k + 1] # "tick" /\ k < Len(z)
    BY <1>1
  <2>2. SubSeq(z, IF z[k + 1] = "tick" THEN k + 2 ELSE k + 3, Len(z) - 1) \in Subshells(z)
    BY <1>1, <1>6, <2>1, BodyFound
  <2> QED
    BY <1>7, <2>1, <2>2
<1> QED
  BY <1>8 DEF Inside

(* ... the one of backticks ...                                            *)
LEMMA TickedBody ==
  ASSUME NEW z \in Seq(STRING), NEW k \in Nat, NEW v \in Seq(STRING),
         Lacks(z, 0, k + 1, {"(", "'"}), Lacks(z, 0, k, {"tick"}), Lacks(z, k + 1, Len(z) - 1, {"tick"}),
         z[k + 1] = "tick", StandsAt(z, k + 1, v),
         Len(z) = (k + 1) + Len(v) + 1, z[Len(z)] = "tick"
  PROVE  v \in Inside(z)
<1>1. Len(v) \in Nat /\ Len(z) \in Nat /\ k < Len(z)
  OBVIOUS
<1>2. BodyEnds(z, k + 1) = {Len(z)}
  <2>1. BodyEnds(z, k + 1) = {j \in k + 2 .. Len(z) : z[j] = "tick"}
    <3>1. (k + 1) + 1 = k + 2
      OBVIOUS
    <3> QED
      BY <3>1 DEF BodyEnds
  <2>2. \A j \in k + 2 .. Len(z) : j \in (k + 1) + 1 .. Len(z) - 1 \/ j = Len(z)
    BY <1>1
  <2>3. \A j \in k + 2 .. Len(z) : z[j] = "tick" <=> j = Len(z)
    BY <2>2 DEF Lacks
  <2>4. Len(z) \in k + 2 .. Len(z)
    BY <1>1
  <2> QED
    BY <2>1, <2>3, <2>4
<1>3. SubSeq(z, k + 2, Len(z) - 1) = v
  <2>1. k + 1 \in Nat /\ (k + 1) + 1 = k + 2 /\ (k + 1) + Len(v) = Len(z) - 1
    BY <1>1
  <2> QED
    BY <2>1, StandsBetween
<1>4. SubSeq(z, IF z[k + 1] = "tick" THEN k + 2 ELSE k + 3, Len(z) - 1) \in Subshells(z)
  BY <1>1, <1>2, BodyFound
<1> QED
  BY <1>3, <1>4 DEF Inside

(* ... and the argument of sh -c.                                          *)
LEMMA WrappedArg ==
  ASSUME NEW z \in Seq(STRING), NEW a \in Seq(STRING), a # <<>>,
         z[1] \in Shells, z[2] = "-c", z[3] \in Quotes, z[Len(z)] = z[3],
         StandsAt(z, 3, a), Len(z) = 3 + Len(a) + 1
  PROVE  a \in Inside(z)
<1> DEFINE at == {i \in 1 .. Len(z) - 2 : z[i] \in Shells /\ z[i + 1] = "-c"}
           arg == SubSeq(z, First(at) + 2, Len(z))
           bare == IF Len(arg) > 1 /\ arg[1] = arg[Len(arg)] /\ arg[1] \in {"'", "\""}
                     THEN SubSeq(arg, 2, Len(arg) - 1) ELSE arg
<1>1. Len(a) \in Nat /\ Len(a) > 0 /\ Len(z) \in Nat
  OBVIOUS
<1>2. 1 \in at /\ at # {} /\ at \in SUBSET Nat
  BY <1>1
<1>3. First(at) = 1
  <2>1. First(at) <= 1 /\ First(at) \in at
    BY <1>2, FirstIs
  <2>2. \A i \in at : i >= 1 /\ i \in Int
    BY <1>1
  <2> HIDE DEF at
  <2> QED
    BY <2>1, <2>2
<1>4. ShellArgs(z) = IF at = {} \/ bare = <<>> THEN {} ELSE {bare}
  BY DEF ShellArgs
<1> HIDE DEF at
<1>5. arg = SubSeq(z, 3, Len(z)) /\ arg \in Seq(STRING) /\ Len(arg) = Len(a) + 2
      /\ \A i \in 1 .. Len(arg) : arg[i] = z[i + 2]
  BY <1>1, <1>3
<1> HIDE DEF arg
<1>6. Len(arg) > 1 /\ arg[1] = z[3] /\ arg[Len(arg)] = z[Len(z)]
  BY <1>1, <1>5
<1>7. SubSeq(arg, 2, Len(arg) - 1) = a
  <2>1. ASSUME NEW i \in 1 .. Len(a) PROVE arg[1 + i] = a[i]
    <3>1. 1 + i \in 1 .. Len(arg) /\ (1 + i) + 2 = 3 + i
      BY <1>1, <1>5
    <3> QED
      BY <1>5, <3>1 DEF StandsAt
  <2>2. StandsAt(arg, 1, a) /\ 1 + 1 = 2 /\ 1 + Len(a) = Len(arg) - 1
    BY <1>1, <1>5, <2>1 DEF StandsAt
  <2>3. 1 \in Nat /\ arg \in Seq(STRING)
    BY <1>5
  <2>4. SubSeq(arg, 1 + 1, 1 + Len(a)) = a
    BY <2>2, <2>3, StandsBetween
  <2> QED
    BY <2>2, <2>4
<1>8. arg[1] \in {"'", "\""} /\ arg[1] = arg[Len(arg)]
  BY <1>6, Zenon DEF Quotes
<1>9. bare = a
  BY <1>6, <1>7, <1>8, Zenon
<1> HIDE DEF bare
<1>10. ShellArgs(z) = {a}
  BY <1>2, <1>4, <1>9
<1> QED
  BY <1>10 DEF Inside

-----------------------------------------------------------------------------
(* What is known of a command to judge: it ends as it began, and so can    *)
(* stand in another; and its parts are found no deeper than it says.       *)
Found(x) == \A p \in x.parts : \E d \in 0 .. x.depth : p \in Parts(Layers(x.text)[d].commands)

Closes(c) ==
  /\ c \in Seq(STRING) /\ c # <<>>
  /\ Ends(c) /\ Quoting(c)[Len(c)] = 0

SoundCase(x) ==
  /\ Closes(x.text) /\ x.depth \in 0 .. MaxDepth - 1
  /\ x.expands => Expands(x.text)
  /\ Found(x)

(* At the top are the parts of the command itself.                         *)
LEMMA TopParts ==
  ASSUME NEW c \in Seq(STRING)
  PROVE  Parts(Layers(c)[0].commands) = Split(c)
<1>1. Layers(c)[0] = Top(c)
  BY LayersSolved
<1> QED
  BY <1>1 DEF Top, Parts

(* A command inside another is found there with all its parts.             *)
LEMMA InsideParts ==
  ASSUME NEW c \in Seq(STRING), NEW a \in Seq(STRING), c \in Split(c), a \in Inside(c)
  PROVE  \A d \in 0 .. MaxDepth - 1 :
           Parts(Layers(a)[d].commands) \subseteq Parts(Layers(c)[1 + d].commands)
<1>1. 1 \in 1 .. MaxDepth /\ 1 - 1 = 0 /\ 1 \in 0 .. MaxDepth
  BY PolicyAssumption
<1>2. Layers(c)[1] = Deeper(Layers(c)[0])
  BY <1>1, LayersSolved
<1>3. a \in Layers(c)[1].commands
  <2>1. c \in Parts(Layers(c)[0].commands)
    BY TopParts
  <2> QED
    BY <1>2, <2>1 DEF Deeper
<1>4. Split(a) \subseteq Parts(Layers(c)[1].commands)
  BY <1>3 DEF Parts
<1> QED
  BY <1>1, <1>4, LayersMoved

(* Words.                                                                  *)
LEMMA WordsSound ==
  ASSUME NEW x, IsWords(x.text), x = Words(x.text)
  PROVE  SoundCase(x)
<1> DEFINE w == x.text
<1>1. x.parts = {w} /\ x.depth = 0 /\ (x.expands => Named(w))
  BY DEF Words, Case
<1>2. /\ w \in Seq(STRING) /\ Len(w) \in Nat /\ w # <<>> /\ Split(w) = {w} /\ Ends(w)
      /\ \A i \in 0 .. Len(w) : Nesting(w)[i] = 0 /\ Quoting(w)[i] = 0
      /\ Named(w) => Expands(w)
  BY WordsPlain
<1>3. Closes(w)
  <2>1. Len(w) \in 0 .. Len(w)
    BY <1>2
  <2> QED
    BY <1>2, <2>1 DEF Closes
<1>4. 0 \in 0 .. MaxDepth - 1
  BY PolicyAssumption
<1>5. Found(x)
  BY <1>1, <1>2, <1>4, TopParts DEF Found
<1> QED
  BY <1>1, <1>2, <1>3, <1>4, <1>5 DEF SoundCase

(* The parts of a text are text.                                           *)
LEMMA PartsAreText ==
  ASSUME NEW S, NEW x \in Seq(S), NEW y \in Seq(S), NEW z \in Seq(STRING), z = Together(x, y)
  PROVE  x \in Seq(STRING) /\ y \in Seq(STRING) /\ Together(x, y) \in Seq(S)
<1>1. z = x \o y
  BY DEF Together
<1>2. Len(x) \in Nat /\ Len(y) \in Nat /\ z \in Seq(S) /\ Len(z) = Len(x) + Len(y)
  BY <1>1
<1>3. ASSUME NEW i \in 1 .. Len(x) PROVE x[i] \in STRING
  <2>1. i \in 1 .. Len(z) /\ i <= Len(x)
    BY <1>2
  <2>2. z[i] = x[i]
    BY <1>1, <1>2, <2>1
  <2> QED
    BY <2>1, <2>2
<1>4. ASSUME NEW i \in 1 .. Len(y) PROVE y[i] \in STRING
  <2>1. Len(x) + i \in 1 .. Len(z)
    BY <1>2
  <2>2. z[Len(x) + i] = y[i]
    BY <1>1, <1>2
  <2> QED
    BY <2>1, <2>2
<1>5. x \in Seq(STRING)
  BY <1>2, <1>3
<1>6. y \in Seq(STRING)
  BY <1>2, <1>4
<1> QED
  BY <1>1, <1>2, <1>5, <1>6 DEF Together

(* A sequence of fewer tokens is one of more.                              *)
LEMMA Widened ==
  ASSUME NEW S, NEW T, S \subseteq T, NEW x \in Seq(S)
  PROVE  x \in Seq(T)
<1>1. Len(x) \in Nat /\ \A i \in 1 .. Len(x) : x[i] \in T
  OBVIOUS
<1> QED
  BY <1>1

(* Together they are one sequence.                                         *)
LEMMA TogetherTyped ==
  ASSUME NEW S, NEW x \in Seq(S), NEW y \in Seq(S)
  PROVE  Together(x, y) \in Seq(S)
BY DEF Together

(* The same for four parts.                                                *)
LEMMA FourAreText ==
  ASSUME NEW S, NEW x \in Seq(S), NEW s \in Seq(S), NEW y \in Seq(S), NEW e \in Seq(S),
         NEW z \in Seq(STRING), z = Together(Together(Together(x, s), y), e)
  PROVE  x \in Seq(STRING) /\ s \in Seq(STRING) /\ y \in Seq(STRING) /\ e \in Seq(STRING)
<1>1. PICK u : u = Together(x, s) /\ u \in Seq(S)
  BY TogetherTyped
<1>2. PICK v : v = Together(u, y) /\ v \in Seq(S)
  BY <1>1, TogetherTyped
<1>3. z = Together(v, e)
  BY <1>1, <1>2
<1>4. v \in Seq(STRING) /\ e \in Seq(STRING)
  BY <1>2, <1>3, PartsAreText
<1>5. u \in Seq(STRING) /\ y \in Seq(STRING)
  BY <1>1, <1>2, <1>4, PartsAreText
<1> QED
  BY <1>1, <1>4, <1>5, PartsAreText

(* One token as a sequence.                                                *)
LEMMA OneToken ==
  ASSUME NEW S, NEW t \in S
  PROVE  <<t>> \in Seq(S) /\ Len(<<t>>) = 1 /\ <<t>>[1] = t
OBVIOUS

(* Words, and something between two marks after them.                      *)
LEMMA FramedBy ==
  ASSUME NEW w \in Seq(STRING), NEW T, NEW t \in Seq(T), NEW q \in Seq(STRING), NEW u \in Seq(T),
         NEW z \in Seq(STRING), z = Together(Together(Together(w, t), q), u)
  PROVE  /\ Len(w) \in Nat /\ Len(t) \in Nat /\ Len(q) \in Nat /\ Len(u) \in Nat
         /\ Len(z) = Len(w) + Len(t) + Len(q) + Len(u)
         /\ StandsAt(z, 0, w) /\ StandsAt(z, Len(w), t) /\ StandsAt(z, Len(w) + Len(t), q)
         /\ StandsAt(z, Len(w) + Len(t) + Len(q), u)
<1> DEFINE S == STRING \cup T
<1>1. w \in Seq(S) /\ q \in Seq(S) /\ t \in Seq(S) /\ u \in Seq(S)
  <2>1. STRING \subseteq S /\ T \subseteq S
    OBVIOUS
  <2> HIDE DEF S
  <2> QED
    BY <2>1, Widened
<1> HIDE DEF S
<1>2. t \in Seq(STRING) /\ u \in Seq(STRING)
  BY <1>1, FourAreText
<1> QED
  BY <1>2, FourStand, SMTT(60)

(* The same with one token before it and one after.                        *)
LEMMA Framed ==
  ASSUME NEW w \in Seq(STRING), NEW t, NEW q \in Seq(STRING), NEW u,
         NEW z \in Seq(STRING), z = Together(Together(Together(w, <<t>>), q), <<u>>)
  PROVE  /\ Len(w) \in Nat /\ Len(q) \in Nat /\ Len(z) = Len(w) + 1 + Len(q) + 1
         /\ StandsAt(z, 0, w) /\ z[Len(w) + 1] = t /\ StandsAt(z, Len(w) + 1, q) /\ z[Len(z)] = u
<1>1. PICK T : t \in T /\ u \in T
  <2>1. t \in {t, u} /\ u \in {t, u}
    OBVIOUS
  <2> QED
    BY <2>1
<1>2. PICK tt : tt = <<t>> /\ tt \in Seq(T) /\ Len(tt) = 1 /\ tt[1] = t
  BY <1>1, OneToken, Zenon
<1>3. PICK uu : uu = <<u>> /\ uu \in Seq(T) /\ Len(uu) = 1 /\ uu[1] = u
  BY <1>1, OneToken, Zenon
<1>4. z = Together(Together(Together(w, tt), q), uu)
  BY <1>2, <1>3
<1>5. /\ Len(z) = Len(w) + Len(tt) + Len(q) + Len(uu)
      /\ Len(w) \in Nat /\ Len(q) \in Nat
      /\ StandsAt(z, 0, w) /\ StandsAt(z, Len(w), tt) /\ StandsAt(z, Len(w) + Len(tt), q)
      /\ StandsAt(z, Len(w) + Len(tt) + Len(q), uu)
  <2>1. tt \in Seq(T) /\ uu \in Seq(T)
    BY <1>2, <1>3
  <2> QED
    BY <1>4, <2>1, FramedBy, SMTT(60)
<1>6. 1 \in 1 .. Len(tt) /\ 1 \in 1 .. Len(uu)
  BY <1>2, <1>3
<1>7. z[Len(w) + 1] = tt[1] /\ z[(Len(w) + Len(tt) + Len(q)) + 1] = uu[1]
  BY <1>5, <1>6 DEF StandsAt
<1> QED
  BY <1>2, <1>3, <1>5, <1>7

(* Text in single quotes after words is one part with them.                *)
LEMMA QuotedCloses ==
  ASSUME NEW z \in Seq(STRING), NEW k \in Nat, NEW q \in Seq(STRING), k >= 1,
         Len(z) = k + 1 + Len(q) + 1, StandsAt(z, k + 1, q), z[k + 1] = "'", z[Len(z)] = "'",
         Lacks(z, 0, k, Marks), Lacks(q, 0, Len(q), {"'"})
  PROVE  Split(z) = {z} /\ Closes(z)
<1>1. Len(z) \in Nat /\ Len(q) \in Nat /\ k + 2 <= Len(z)
  OBVIOUS
<1>2. Lacks(z, 0, k, {"'"})
  <2>1. {"'"} \subseteq Marks
    BY Zenon DEF Marks, Special
  <2> QED
    BY <2>1, LacksFewer
<1>3. Lacks(z, k + 1, Len(z) - 1, {"'"})
  <2>1. k + 1 \in Nat /\ (k + 1) + Len(q) = Len(z) - 1
    BY <1>1
  <2>2. Lacks(z, k + 1, (k + 1) + Len(q), {"'"})
    BY <2>1, LacksMoved
  <2> QED
    BY <2>1, <2>2
<1>4. Split(z) = {z} /\ Ends(z)
  <2>1. PICK quote : quote = "'"
    OBVIOUS
  <2>2. quote \in Quotes /\ Stops(quote) = {"'"}
    BY <2>1, Zenon DEF Quotes, Stops
  <2>3. z[k + 1] = quote /\ z[Len(z)] = quote
    BY <2>1
  <2> QED
    BY ZenonT(30), <1>1, <1>3, <2>2, <2>3, QuotedUncut
<1>5. Quoting(z)[Len(z)] = 0
  <2>1. Quoting(z)[k] = 0
    <3>1. k \in 0 .. k /\ 0 \in Nat /\ k <= Len(z)
      BY <1>1
    <3> QED
      BY <1>2, <3>1, QuotingStays, QuotingSolved
  <2>2. Quoting(z)[k + 1] = 1
    <3>1. k + 1 \in 1 .. Len(z) /\ (k + 1) - 1 = k
      BY <1>1
    <3>2. Quoting(z)[k + 1] = IF z[k + 1] = "'" THEN 1 - Quoting(z)[k] ELSE Quoting(z)[k]
      BY <3>1, QuotingSolved
    <3> QED
      BY <2>1, <3>2
  <2>3. Quoting(z)[Len(z) - 1] = 1
    <3>1. k + 1 \in Nat /\ Len(z) - 1 \in Nat /\ Len(z) - 1 <= Len(z) /\ Len(z) - 1 \in k + 1 .. Len(z) - 1
      BY <1>1
    <3> QED
      BY <1>3, <2>2, <3>1, QuotingStays
  <2>4. Len(z) \in 1 .. Len(z)
    BY <1>1
  <2>5. Quoting(z)[Len(z)] = IF z[Len(z)] = "'" THEN 1 - Quoting(z)[Len(z) - 1] ELSE Quoting(z)[Len(z) - 1]
    BY <2>4, QuotingSolved
  <2> QED
    BY <2>3, <2>5
<1>6. z # <<>>
  BY <1>1
<1> QED
  BY <1>4, <1>5, <1>6 DEF Closes

(* What the words at the start name is expanded.                           *)
LEMMA StartExpands ==
  ASSUME NEW w, IsWords(w), NEW z \in Seq(STRING), StandsAt(z, 0, w), Named(w)
  PROVE  Expands(z)
<1>1. w \in Seq(STRING) /\ Expands(w) /\ 0 \in Nat /\ Quoting(z)[0] = 0
  BY WordsPlain, QuotingSolved
<1> QED
  BY <1>1, ExpandsMoved

(* ... and what they lack is lacking at the start.                         *)
LEMMA StartLacks ==
  ASSUME NEW w, IsWords(w), NEW z \in Seq(STRING), StandsAt(z, 0, w)
  PROVE  Lacks(z, 0, Len(w), Special) /\ Lacks(z, 0, Len(w), Marks)
<1>1. w \in Seq(STRING) /\ Lacks(w, 0, Len(w), Special) /\ Lacks(w, 0, Len(w), Marks)
      /\ 0 \in Nat /\ Len(w) \in Nat /\ 0 + Len(w) = Len(w)
  BY WordsPlain
<1>2. Lacks(z, 0, 0 + Len(w), Special) /\ Lacks(z, 0, 0 + Len(w), Marks)
  BY <1>1, LacksMoved
<1> QED
  BY <1>1, <1>2

(* Words, and text in single quotes.                                       *)
LEMMA QuotedSound ==
  ASSUME NEW x, x.text \in Seq(STRING), NEW w, IsWords(w), NEW q \in Seq(STRING),
         "'" \notin ToSet(q), x = Quoted(w, q)
  PROVE  SoundCase(x)
<1>1. /\ x.text = Together(Together(Together(w, <<"'">>), q), <<"'">>)
      /\ x.parts = {x.text} /\ x.depth = 0 /\ x.expands = Named(w)
  BY DEF Quoted, Case, Together
<1>2. w \in Seq(STRING) /\ Len(w) >= 1
  BY WordsPlain
<1>3. PICK t : t = "'"
  OBVIOUS
<1>4. PICK z : z = x.text /\ z \in Seq(STRING)
  OBVIOUS
<1>5. z = Together(Together(Together(w, <<t>>), q), <<t>>)
  BY <1>1, <1>3, <1>4
<1>6. /\ z \in Seq(STRING) /\ Len(w) \in Nat /\ Len(q) \in Nat /\ Len(z) = Len(w) + 1 + Len(q) + 1
      /\ StandsAt(z, 0, w) /\ z[Len(w) + 1] = t /\ StandsAt(z, Len(w) + 1, q) /\ z[Len(z)] = t
  BY <1>2, <1>4, <1>5, Framed
<1>7. Lacks(z, 0, Len(w), Marks) /\ Lacks(q, 0, Len(q), {"'"})
  <2>1. ToSet(q) \cap {"'"} = {}
    OBVIOUS
  <2> QED
    BY <1>6, <2>1, StartLacks, LacksAll
<1>8. Split(z) = {z} /\ Closes(z)
  BY <1>2, <1>3, <1>6, <1>7, QuotedCloses
<1>9. Named(w) => Expands(z)
  BY <1>6, StartExpands
<1>10. 0 \in 0 .. MaxDepth - 1 /\ 0 \in 0 .. 0
  BY PolicyAssumption
<1>11. Found(x)
  BY <1>1, <1>4, <1>6, <1>8, <1>10, TopParts DEF Found
<1> QED
  BY <1>1, <1>4, <1>8, <1>9, <1>10, <1>11 DEF SoundCase

(* Two tokens ...                                                          *)
LEMMA TwoTokens ==
  ASSUME NEW S, NEW t \in S, NEW u \in S
  PROVE  <<t, u>> \in Seq(S) /\ Len(<<t, u>>) = 2 /\ <<t, u>>[1] = t /\ <<t, u>>[2] = u
OBVIOUS

(* ... and three.                                                          *)
LEMMA ThreeTokens ==
  ASSUME NEW S, NEW t \in S, NEW u \in S, NEW v \in S
  PROVE  /\ <<t, u, v>> \in Seq(S) /\ Len(<<t, u, v>>) = 3
         /\ <<t, u, v>>[1] = t /\ <<t, u, v>>[2] = u /\ <<t, u, v>>[3] = v
OBVIOUS

(* A command in another is found one deeper than in itself.                *)
LEMMA NestFound ==
  ASSUME NEW x, NEW a, SoundCase(a), x.text \in Seq(STRING), Split(x.text) = {x.text},
         a.text \in Inside(x.text), x.parts = {x.text} \cup a.parts, x.depth = a.depth + 1
  PROVE  Found(x)
<1>1. a.text \in Seq(STRING) /\ a.depth \in 0 .. MaxDepth - 1 /\ Found(a) /\ MaxDepth \in Nat
  BY PolicyAssumption DEF SoundCase, Closes
<1>2. ASSUME NEW p \in a.parts
      PROVE  \E d \in 0 .. x.depth : p \in Parts(Layers(x.text)[d].commands)
  <2>1. PICK d \in 0 .. a.depth : p \in Parts(Layers(a.text)[d].commands)
    BY <1>1 DEF Found
  <2>2. d \in 0 .. MaxDepth - 1 /\ 1 + d \in 0 .. x.depth
    BY <1>1
  <2>3. p \in Parts(Layers(x.text)[1 + d].commands)
    BY <1>1, <2>1, <2>2, InsideParts
  <2> QED
    BY <2>2, <2>3
<1>3. x.text \in Parts(Layers(x.text)[0].commands) /\ 0 \in 0 .. x.depth
  BY <1>1, TopParts
<1> QED
  BY <1>2, <1>3 DEF Found

(* Text without quotes and separators is one part.                         *)
LEMMA PlainCloses ==
  ASSUME NEW z \in Seq(STRING), z # <<>>, Lacks(z, 0, Len(z), Marks)
  PROVE  Split(z) = {z} /\ Closes(z) /\ \A i \in 0 .. Len(z) : Quoting(z)[i] = 0
<1>1. Len(z) \in Nat /\ 0 \in Nat /\ Len(z) <= Len(z) /\ Len(z) \in 0 .. Len(z)
  OBVIOUS
<1>2. Lacks(z, 0, Len(z), {"'"})
  <2>1. {"'"} \subseteq Marks
    BY Zenon DEF Marks, Special
  <2> QED
    BY <2>1, LacksFewer
<1>3. \A i \in 0 .. Len(z) : Quoting(z)[i] = 0
  BY <1>1, <1>2, QuotingStays, QuotingSolved
<1> QED
  BY <1>1, <1>3, PlainUncut DEF Closes

(* Words, and words in backticks.                                          *)
LEMMA TickedSound ==
  ASSUME NEW x, x.text \in Seq(STRING), x.depth < MaxDepth, NEW w, IsWords(w), NEW v, IsWords(v),
         x = Ticked(w, v)
  PROVE  SoundCase(x)
<1>1. /\ x.text = Together(Together(Together(w, <<"tick">>), v), <<"tick">>)
      /\ x.parts = {x.text, v} /\ x.depth = 1 /\ x.expands = (Named(w) \/ Named(v))
  BY DEF Ticked, Case, Together
<1>2. /\ w \in Seq(STRING) /\ v \in Seq(STRING) /\ Len(w) >= 1
      /\ Lacks(v, 0, Len(v), Special) /\ Lacks(v, 0, Len(v), Marks)
      /\ Named(v) => Expands(v)
  BY WordsPlain
<1>3. PICK t : t = "tick"
  OBVIOUS
<1>4. PICK z : z = x.text /\ z \in Seq(STRING)
  OBVIOUS
<1>5. z = Together(Together(Together(w, <<t>>), v), <<t>>)
  BY <1>1, <1>3, <1>4
<1> DEFINE k == Len(w)
<1>6. /\ k \in Nat /\ Len(v) \in Nat /\ Len(z) = k + 1 + Len(v) + 1
      /\ StandsAt(z, 0, w) /\ z[k + 1] = t /\ StandsAt(z, k + 1, v) /\ z[Len(z)] = t
  <2>1. /\ Len(w) \in Nat /\ Len(v) \in Nat /\ Len(z) = Len(w) + 1 + Len(v) + 1
        /\ StandsAt(z, 0, w) /\ z[Len(w) + 1] = t /\ StandsAt(z, Len(w) + 1, v) /\ z[Len(z)] = t
    <3> w \in Seq(STRING) /\ v \in Seq(STRING) /\ z \in Seq(STRING)
      BY <1>2, <1>4
    <3> QED
      BY <1>5, Framed
  <2> QED
    BY <2>1
<1>7. Lacks(z, 0, k, Special) /\ Lacks(z, 0, k, Marks)
  BY <1>4, <1>6, StartLacks
<1>8. Lacks(z, k + 1, Len(z) - 1, Special) /\ Lacks(z, k + 1, Len(z) - 1, Marks)
  <2>1. k + 1 \in Nat /\ (k + 1) + Len(v) = Len(z) - 1
    BY <1>6
  <2>2. Lacks(z, k + 1, (k + 1) + Len(v), Special) /\ Lacks(z, k + 1, (k + 1) + Len(v), Marks)
    BY <1>2, <1>4, <1>6, <2>1, LacksMoved
  <2> QED
    BY <2>1, <2>2
<1> HIDE DEF k
<1>9. t \notin Marks /\ t \notin {"(", "'"}
  BY <1>3, Zenon DEF Marks
<1>10. Lacks(z, 0, Len(z), Marks)
  <2>1. \A i \in 0 + 1 .. Len(z) :
          i \in 0 + 1 .. k \/ i = k + 1 \/ i \in k + 1 + 1 .. Len(z) - 1 \/ i = Len(z)
    BY <1>6
  <2> QED
    BY <1>6, <1>7, <1>8, <1>9, <2>1 DEF Lacks
<1>11. Split(z) = {z} /\ Closes(z) /\ \A i \in 0 .. Len(z) : Quoting(z)[i] = 0
  <2>1. z # <<>>
    BY <1>4, <1>6
  <2> QED
    BY <1>4, <1>10, <2>1, PlainCloses
<1>12. v \in Inside(z)
  <2>1. {"(", "'"} \subseteq Special /\ {"tick"} \subseteq Special
    BY Zenon DEF Special
  <2>2. Lacks(z, 0, k, {"(", "'"}) /\ Lacks(z, 0, k, {"tick"}) /\ Lacks(z, k + 1, Len(z) - 1, {"tick"})
    BY <1>7, <1>8, <2>1, LacksFewer
  <2>3. Lacks(z, k, k + 1, {"(", "'"})
    BY <1>6, <1>9, LacksOne
  <2>4. Lacks(z, 0, k + 1, {"(", "'"})
    <3>1. 0 \in Nat /\ k + 1 \in Nat
      BY <1>6
    <3> QED
      BY <1>6, <2>2, <2>3, <3>1, LacksJoined
  <2>5. Len(z) = (k + 1) + Len(v) + 1
    BY <1>6
  <2> QED
    BY <1>2, <1>3, <1>4, <1>6, <2>2, <2>4, <2>5, TickedBody
<1>13. Named(w) \/ Named(v) => Expands(z)
  <2>1. Named(w) => Expands(z)
    BY <1>4, <1>6, StartExpands
  <2>2. k + 1 \in 0 .. Len(z) /\ k + 1 \in Nat
    BY <1>6
  <2>3. Expands(v) => Expands(z)
    BY <1>2, <1>4, <1>6, <1>11, <2>2, ExpandsMoved
  <2> QED
    BY <1>2, <2>1, <2>3
<1>14. Found(x)
  <2>1. PICK a : a = Words(v)
    OBVIOUS
  <2>2. a.text = v /\ a.parts = {v} /\ a.depth = 0 /\ a = Words(a.text)
    BY <2>1 DEF Words, Case
  <2>3. SoundCase(a)
    BY <2>2, WordsSound
  <2>4. x.parts = {x.text} \cup a.parts /\ x.depth = a.depth + 1
    BY <1>1, <2>2
  <2> QED
    BY <1>4, <1>11, <1>12, <2>2, <2>3, <2>4, NestFound
<1>15. 1 \in 0 .. MaxDepth - 1
  BY <1>1, PolicyAssumption
<1> QED
  BY <1>1, <1>4, <1>11, <1>13, <1>14, <1>15 DEF SoundCase

(* What stands in another between nothing of its own is unquoted to its    *)
(* end.                                                                    *)
LEMMA AroundEnds ==
  ASSUME NEW z \in Seq(STRING), NEW k \in Nat, NEW a \in Seq(STRING), StandsAt(z, k, a),
         Len(z) = k + Len(a) + 1, Lacks(z, 0, k, {"'"}), z[Len(z)] # "'", Quoting(a)[Len(a)] = 0
  PROVE  Quoting(z)[k] = 0 /\ Quoting(z)[Len(z)] = 0
<1>1. /\ Len(a) \in Nat /\ Len(z) \in Nat /\ k <= Len(z) /\ k \in 0 .. k /\ 0 \in Nat
      /\ Len(z) \in 1 .. Len(z) /\ Len(z) - 1 = k + Len(a) /\ Len(a) \in 0 .. Len(a)
  OBVIOUS
<1>2. Quoting(z)[k] = 0
  BY <1>1, QuotingStays, QuotingSolved
<1>3. Quoting(z)[k + Len(a)] = 0
  BY <1>1, <1>2, QuotingMoved
<1>4. Quoting(z)[Len(z)] = IF z[Len(z)] = "'" THEN 1 - Quoting(z)[Len(z) - 1] ELSE Quoting(z)[Len(z) - 1]
  BY <1>1, QuotingSolved
<1> QED
  BY <1>1, <1>2, <1>3, <1>4

(* Words with a command in $(...) after them.                              *)
LEMMA SubstitutedCloses ==
  ASSUME NEW z \in Seq(STRING), NEW k \in Nat, NEW a \in Seq(STRING), Closes(a), Balanced(a),
         Lacks(z, 0, k, Special), z[k + 1] = "$", z[k + 2] = "(", z[Len(z)] = ")",
         StandsAt(z, k + 2, a), Len(z) = (k + 2) + Len(a) + 1
  PROVE  Split(z) = {z} /\ Closes(z) /\ a \in Inside(z) /\ Quoting(z)[k + 2] = 0
<1>1. Len(a) \in Nat /\ k + 1 \in Nat /\ k + 2 \in Nat /\ 0 \in Nat /\ (k + 1) + 1 = k + 2
  OBVIOUS
<1>2. Lacks(z, 0, k + 1, Special)
  <2>1. "$" \notin Special
    BY Zenon DEF Special
  <2>2. Lacks(z, k, k + 1, Special)
    BY <2>1, LacksOne, Zenon
  <2> QED
    BY <1>1, <2>2, LacksJoined
<1>3. /\ Lacks(z, 0, k + 1, Marks) /\ Lacks(z, 0, k + 1, {"(", ")"}) /\ Lacks(z, 0, k + 1, {"(", "'"})
      /\ Lacks(z, 0, k + 1, {"'"}) /\ Lacks(z, 0, k, {"tick"})
  <2>1. /\ Marks \subseteq Special /\ {"(", ")"} \subseteq Special /\ {"(", "'"} \subseteq Special
        /\ {"'"} \subseteq Special /\ {"tick"} \subseteq Special
    BY Zenon DEF Marks, Special
  <2> QED
    BY <1>2, <2>1, LacksFewer
<1>4. Split(z) = {z} /\ Ends(z)
  BY <1>3, NestedUncut
<1>5. a \in Inside(z)
  BY <1>3, SubstitutedBody
<1>6. Quoting(z)[k + 2] = 0 /\ Quoting(z)[Len(z)] = 0
  <2>1. Lacks(z, k + 1, (k + 1) + 1, {"'"})
    BY <1>1, LacksOne
  <2>2. Lacks(z, 0, k + 2, {"'"})
    BY <1>1, <1>3, <2>1, LacksJoined
  <2> QED
    BY <1>1, <2>2, AroundEnds DEF Closes
<1>7. z # <<>>
  BY <1>1
<1> QED
  BY <1>4, <1>5, <1>6, <1>7 DEF Closes

(* Such a command is judged with all that is in $(...).                    *)
LEMMA SubstitutedSound ==
  ASSUME NEW x, x.text \in Seq(STRING), x.depth < MaxDepth, NEW w, IsWords(w),
         NEW a, SoundCase(a), Balanced(a.text), x = Substituted(w, a)
  PROVE  SoundCase(x)
<1>1. /\ x.text = Together(Together(Together(w, <<"$", "(">>), a.text), <<")">>)
      /\ x.parts = {x.text} \cup a.parts /\ x.depth = a.depth + 1
      /\ x.expands = (Named(w) \/ a.expands)
  BY DEF Substituted, Case, Together
<1>2. /\ w \in Seq(STRING) /\ a.text \in Seq(STRING) /\ Closes(a.text) /\ a.depth \in 0 .. MaxDepth - 1
      /\ a.expands => Expands(a.text)
  BY WordsPlain DEF SoundCase, Closes
<1>3. PICK T : "$" \in T /\ "(" \in T /\ ")" \in T
  <2>1. "$" \in {"$", "(", ")"} /\ "(" \in {"$", "(", ")"} /\ ")" \in {"$", "(", ")"}
    OBVIOUS
  <2> QED
    BY <2>1
<1>4. PICK t : t = <<"$", "(">> /\ t \in Seq(T) /\ Len(t) = 2 /\ t[1] = "$" /\ t[2] = "("
  <2>1. /\ <<"$", "(">> \in Seq(T) /\ Len(<<"$", "(">>) = 2
        /\ <<"$", "(">>[1] = "$" /\ <<"$", "(">>[2] = "("
    BY <1>3
  <2> QED
    BY <2>1, Zenon
<1>5. PICK u : u = <<")">> /\ u \in Seq(T) /\ Len(u) = 1 /\ u[1] = ")"
  BY <1>3, OneToken, Zenon
<1>6. PICK z : z = x.text /\ z \in Seq(STRING)
  OBVIOUS
<1>7. z = Together(Together(Together(w, t), a.text), u)
  BY <1>1, <1>4, <1>5, <1>6
<1>8. PICK b : b = a.text /\ b \in Seq(STRING)
  BY <1>2
<1>9. PICK k : k = Len(w)
  OBVIOUS
<1>10. /\ Len(w) \in Nat /\ Len(b) \in Nat /\ Len(z) = Len(w) + Len(t) + Len(b) + Len(u)
       /\ StandsAt(z, 0, w) /\ StandsAt(z, Len(w), t) /\ StandsAt(z, Len(w) + Len(t), b)
       /\ StandsAt(z, Len(w) + Len(t) + Len(b), u)
  <2>1. z = Together(Together(Together(w, t), b), u)
    BY <1>7, <1>8
  <2>2. w \in Seq(STRING) /\ b \in Seq(STRING) /\ t \in Seq(T) /\ u \in Seq(T) /\ z \in Seq(STRING)
    BY <1>2, <1>4, <1>5, <1>6, <1>8
  <2> QED
    BY <2>1, <2>2, FramedBy, SMTT(60)
<1>11. /\ k \in Nat /\ Len(b) \in Nat /\ Len(z) = (k + 2) + Len(b) + 1
       /\ StandsAt(z, k + 2, b) /\ z[k + 1] = "$" /\ z[k + 2] = "(" /\ z[Len(z)] = ")"
  <2>1. 1 \in 1 .. Len(t) /\ 2 \in 1 .. Len(t) /\ 1 \in 1 .. Len(u)
    BY <1>4, <1>5
  <2>2. z[Len(w) + 1] = t[1] /\ z[Len(w) + 2] = t[2] /\ z[(Len(w) + Len(t) + Len(b)) + 1] = u[1]
    BY <1>10, <2>1 DEF StandsAt
  <2> QED
    BY <1>4, <1>5, <1>9, <1>10, <2>2
<1>12. Lacks(z, 0, k, Special)
  BY <1>6, <1>9, <1>10, StartLacks
<1>13. Split(z) = {z} /\ Closes(z) /\ b \in Inside(z) /\ Quoting(z)[k + 2] = 0
  BY <1>2, <1>6, <1>8, <1>11, <1>12, SubstitutedCloses
<1>14. x.expands => Expands(z)
  <2>1. Named(w) => Expands(z)
    BY <1>6, <1>10, StartExpands
  <2>2. k + 2 \in Nat
    BY <1>11
  <2>3. Expands(b) => Expands(z)
    BY <1>6, <1>8, <1>11, <1>13, <2>2, ExpandsMoved
  <2> QED
    BY <1>1, <1>2, <1>8, <2>1, <2>3
<1>15. Found(x)
  BY <1>1, <1>6, <1>8, <1>13, NestFound
<1>16. x.depth \in 0 .. MaxDepth - 1
  BY <1>1, <1>2, PolicyAssumption
<1> QED
  BY <1>6, <1>13, <1>14, <1>15, <1>16 DEF SoundCase

(* A command as the quoted argument of sh -c.                              *)
LEMMA WrappedCloses ==
  ASSUME NEW z \in Seq(STRING), NEW a \in Seq(STRING), Closes(a),
         NEW quote \in Quotes, quote # "'", Lacks(a, 0, Len(a), Stops(quote)),
         z[1] \in Shells, z[2] = "-c", z[3] = quote, z[Len(z)] = quote,
         StandsAt(z, 3, a), Len(z) = 3 + Len(a) + 1
  PROVE  Split(z) = {z} /\ Closes(z) /\ a \in Inside(z) /\ Quoting(z)[3] = 0
<1>1. /\ Len(a) \in Nat /\ Len(z) \in Nat /\ 0 \in Nat /\ 2 \in Nat /\ 3 \in Nat /\ a # <<>>
      /\ 2 + 1 = 3 /\ Len(z) - 1 = 3 + Len(a) /\ 2 + 2 <= Len(z)
  <2>1. a # <<>>
    BY DEF Closes
  <2> QED
    BY <2>1
<1>2. z[1] \notin Special /\ z[2] \notin Special
  <2>1. \A shell \in Shells : shell \notin Special
    BY Zenon DEF Shells, Special
  <2>2. "-c" \notin Special
    BY Zenon DEF Special
  <2> QED
    BY <2>1, <2>2, Zenon
<1>3. Lacks(z, 0, 2, Special)
  <2>1. \A i \in 0 + 1 .. 2 : i = 1 \/ i = 2
    OBVIOUS
  <2> QED
    BY <1>2, <2>1, Zenon DEF Lacks
<1>4. Lacks(z, 0, 2, Marks) /\ Lacks(z, 0, 2, {"'"})
  <2>1. Marks \subseteq Special /\ {"'"} \subseteq Special
    BY Zenon DEF Marks, Special
  <2> QED
    BY <1>3, <2>1, LacksFewer
<1>5. Split(z) = {z} /\ Ends(z)
  <2>1. Lacks(z, 3, 3 + Len(a), Stops(quote))
    BY <1>1, LacksMoved
  <2>2. Lacks(z, 2 + 1, Len(z) - 1, Stops(quote)) /\ z[2 + 1] = quote
    BY <1>1, <2>1
  <2> QED
    BY <1>1, <1>4, <2>2, QuotedUncut
<1>6. a \in Inside(z)
  <2>1. z[3] \in Quotes /\ z[Len(z)] = z[3]
    OBVIOUS
  <2> QED
    BY <1>1, <2>1, WrappedArg
<1>7. Lacks(z, 0, 3, {"'"})
  <2>1. z[2 + 1] \notin {"'"}
    BY <1>1
  <2>2. Lacks(z, 2, 2 + 1, {"'"})
    BY <1>1, <2>1, LacksOne
  <2> QED
    BY <1>1, <1>4, <2>2, LacksJoined
<1>8. Quoting(z)[3] = 0 /\ Quoting(z)[Len(z)] = 0
  BY <1>1, <1>7, AroundEnds DEF Closes
<1>9. z # <<>>
  BY <1>1
<1> QED
  BY <1>5, <1>6, <1>8, <1>9 DEF Closes

(* Such a command is judged with all that is in its argument.  First for   *)
(* a quote that is not named, ...                                          *)
LEMMA WrappedIn ==
  ASSUME NEW x, x.text \in Seq(STRING), x.depth < MaxDepth, NEW shell \in Shells, NEW a, SoundCase(a),
         NEW quote \in Quotes, quote # "'", ToSet(a.text) \cap Stops(quote) = {},
         x.text = Together(Together(<<shell, "-c", quote>>, a.text), <<quote>>),
         x.parts = {x.text} \cup a.parts, x.depth = a.depth + 1, x.expands = a.expands
  PROVE  SoundCase(x)
<1>1. PICK b : b = a.text /\ b \in Seq(STRING) /\ Closes(b) /\ (a.expands => Expands(b))
  BY DEF SoundCase, Closes
<1>2. Lacks(b, 0, Len(b), Stops(quote))
  BY <1>1, LacksAll
<1>3. PICK T : shell \in T /\ "-c" \in T /\ quote \in T
  <2>1. shell \in {shell, "-c", quote} /\ "-c" \in {shell, "-c", quote} /\ quote \in {shell, "-c", quote}
    OBVIOUS
  <2> QED
    BY <2>1
<1>4. PICK t : /\ t = <<shell, "-c", quote>> /\ t \in Seq(T) /\ Len(t) = 3
               /\ t[1] = shell /\ t[2] = "-c" /\ t[3] = quote
  <2>1. /\ <<shell, "-c", quote>> \in Seq(T) /\ Len(<<shell, "-c", quote>>) = 3
        /\ <<shell, "-c", quote>>[1] = shell /\ <<shell, "-c", quote>>[2] = "-c"
        /\ <<shell, "-c", quote>>[3] = quote
    BY <1>3
  <2> QED
    BY <2>1, Zenon
<1>5. PICK u : u = <<quote>> /\ u \in Seq(T) /\ Len(u) = 1 /\ u[1] = quote
  BY <1>3, OneToken, Zenon
<1>6. PICK z : z = x.text /\ z \in Seq(STRING)
  OBVIOUS
<1>7. /\ Len(b) \in Nat /\ Len(z) = Len(t) + Len(b) + Len(u)
       /\ StandsAt(z, 0, t) /\ StandsAt(z, Len(t), b) /\ StandsAt(z, Len(t) + Len(b), u)
  <2>1. z = Together(Together(t, b), u)
    BY <1>1, <1>4, <1>5, <1>6
  <2>2. t \in Seq(STRING) /\ u \in Seq(STRING)
    <3> DEFINE S == STRING \cup T
    <3>1. b \in Seq(S) /\ t \in Seq(S) /\ u \in Seq(S)
      <4>1. STRING \subseteq S /\ T \subseteq S
        OBVIOUS
      <4> HIDE DEF S
      <4> QED
        BY <1>1, <1>4, <1>5, <4>1, Widened
    <3> HIDE DEF S
    <3>2. PICK v : v = Together(t, b) /\ v \in Seq(S)
      BY <3>1, TogetherTyped
    <3>3. z = Together(v, u) /\ z \in Seq(STRING)
      BY <1>6, <2>1, <3>2
    <3>4. v \in Seq(STRING) /\ u \in Seq(STRING)
      BY <3>1, <3>2, <3>3, PartsAreText
    <3> QED
      BY <3>1, <3>2, <3>4, PartsAreText
  <2> QED
    <3> b \in Seq(STRING)
      BY <1>1
    <3> QED
      BY <2>1, <2>2, ThreeStand, SMTT(60)
<1>8. /\ Len(b) \in Nat /\ Len(z) = 3 + Len(b) + 1 /\ StandsAt(z, 3, b)
       /\ z[1] \in Shells /\ z[2] = "-c" /\ z[3] = quote /\ z[Len(z)] = quote
  <2>1. 1 \in 1 .. Len(t) /\ 2 \in 1 .. Len(t) /\ 3 \in 1 .. Len(t) /\ 1 \in 1 .. Len(u)
    BY <1>4, <1>5
  <2>2. z[0 + 1] = t[1] /\ z[0 + 2] = t[2] /\ z[0 + 3] = t[3] /\ z[(Len(t) + Len(b)) + 1] = u[1]
    BY <1>7, <2>1 DEF StandsAt
  <2> QED
    BY <1>4, <1>5, <1>7, <2>2
<1>9. Split(z) = {z} /\ Closes(z) /\ b \in Inside(z) /\ Quoting(z)[3] = 0
  BY <1>1, <1>2, <1>6, <1>8, WrappedCloses
<1>10. x.expands => Expands(z)
  <2>1. 3 \in Nat
    OBVIOUS
  <2> QED
    BY <1>1, <1>6, <1>8, <1>9, <2>1, ExpandsMoved
<1>11. Found(x)
  BY <1>1, <1>6, <1>9, NestFound
<1>12. x.depth \in 0 .. MaxDepth - 1
  BY PolicyAssumption DEF SoundCase
<1> QED
  BY <1>6, <1>9, <1>10, <1>11, <1>12 DEF SoundCase

(* ... then for its text as it is put together, ...                        *)
LEMMA WrappedAs ==
  ASSUME NEW x, x.text \in Seq(STRING), x.depth < MaxDepth, NEW shell \in Shells, NEW a, SoundCase(a),
         NEW quote \in Quotes, quote # "'", ToSet(a.text) \cap Stops(quote) = {},
         NEW text, text = (<<shell, "-c", quote>> \o a.text) \o <<quote>>,
         x = Case(text, {text} \cup a.parts, a.expands, a.depth + 1)
  PROVE  SoundCase(x)
<1>1. x.text = text /\ x.parts = {text} \cup a.parts /\ x.expands = a.expands /\ x.depth = a.depth + 1
  BY DEF Case
<1>2. x.text = Together(Together(<<shell, "-c", quote>>, a.text), <<quote>>)
  BY <1>1 DEF Together
<1> QED
  BY <1>1, <1>2, WrappedIn

(* ... and with the quote that is meant.                                   *)
LEMMA WrappedSound ==
  ASSUME NEW x, x.text \in Seq(STRING), x.depth < MaxDepth, NEW shell \in Shells,
         NEW a, SoundCase(a), ToSet(a.text) \cap {"\"", "\\"} = {}, x = Wrapped(shell, a)
  PROVE  SoundCase(x)
<1> DEFINE text == (<<shell, "-c", "\"">> \o a.text) \o <<"\"">>
<1>1. "\"" \in Quotes /\ "\"" # "'" /\ ToSet(a.text) \cap Stops("\"") = {}
  <2>1. Stops("\"") = {"\"", "\\"}
    BY Zenon DEF Stops
  <2> QED
    BY <2>1, Zenon DEF Quotes
<1>2. x = Case(text, {text} \cup a.parts, a.expands, a.depth + 1)
  BY Zenon DEF Wrapped
<1> QED
  BY <1>1, <1>2, WrappedAs, Zenon

(* What separates two commands is one or two separators.                   *)
LEMMA SeparationIs ==
  ASSUME NEW s \in Separations
  PROVE  s \in Seq(Separators) /\ Len(s) \in {1, 2}
<1>1. ";" \in Separators /\ "&" \in Separators /\ "|" \in Separators
  BY DEF Separators
<1>2. /\ <<";">> \in Seq(Separators) /\ <<"&">> \in Seq(Separators) /\ <<"|">> \in Seq(Separators)
      /\ Len(<<";">>) = 1 /\ Len(<<"&">>) = 1 /\ Len(<<"|">>) = 1
  BY <1>1, OneToken, Zenon
<1>3. /\ <<"&", "&">> \in Seq(Separators) /\ Len(<<"&", "&">>) = 2
      /\ <<"|", "|">> \in Seq(Separators) /\ Len(<<"|", "|">>) = 2
  <2>1. /\ <<"&", "&">> \in Seq(Separators) /\ Len(<<"&", "&">>) = 2
    BY <1>1, TwoTokens
  <2>2. /\ <<"|", "|">> \in Seq(Separators) /\ Len(<<"|", "|">>) = 2
    BY <1>1, TwoTokens
  <2> QED
    BY <2>1, <2>2
<1> QED
  BY <1>2, <1>3, Zenon DEF Separations

(* Two commands joined by what separates them.                             *)
LEMMA JoinedCloses ==
  ASSUME NEW x \in Seq(STRING), NEW y \in Seq(STRING), NEW s \in Seq(STRING), Closes(x), Closes(y),
         Len(s) \in {1, 2}, \A i \in 1 .. Len(s) : s[i] \in Separators,
         NEW z, z = Together(Together(x, s), y)
  PROVE  /\ z \in Seq(STRING) /\ Split(z) = Split(x) \cup Split(y) /\ Closes(z)
         /\ Expands(x) \/ Expands(y) => Expands(z)
<1> DEFINE K == Len(x) + Len(s)
<1>1. /\ z \in Seq(STRING) /\ Len(z) = Len(x) + Len(s) + Len(y)
      /\ Len(x) \in Nat /\ Len(s) \in Nat /\ Len(y) \in Nat
      /\ StandsAt(z, 0, x) /\ StandsAt(z, Len(x), s) /\ StandsAt(z, K, y)
  BY ThreeStand
<1>2. Split(z) = Split(x) \cup Split(y) /\ Ends(z)
  BY JoinSplits DEF Closes
<1>3. Lacks(z, Len(x), K, {"'"})
  <2>1. \A i \in 1 .. Len(s) : s[i] \notin {"'"}
    <3>1. \A ch \in Separators : ch \notin {"'"}
      BY Zenon DEF Separators
    <3> QED
      BY <3>1, Zenon
  <2>2. 0 + 1 = 1
    OBVIOUS
  <2>3. Lacks(s, 0, Len(s), {"'"})
    BY <2>1, <2>2 DEF Lacks
  <2> QED
    BY <1>1, <2>3, LacksMoved
<1>4. /\ K \in Nat /\ Len(x) <= K /\ K <= Len(z) /\ Len(z) = K + Len(y) /\ 0 \in Nat
      /\ K \in Len(x) .. K /\ Len(x) \in 0 .. Len(x) /\ Len(y) \in 0 .. Len(y)
      /\ \A m \in 0 .. Len(x) : 0 + m = m
  BY <1>1
<1> HIDE DEF K
<1>5. Quoting(z)[0] = 0 /\ Quoting(z)[K] = 0 /\ Quoting(z)[Len(z)] = 0
  <2>1. Quoting(z)[0] = 0
    BY <1>1, QuotingSolved
  <2>2. Quoting(z)[0 + Len(x)] = Quoting(x)[Len(x)]
    BY <1>1, <1>4, <2>1, QuotingMoved
  <2>3. Quoting(z)[Len(x)] = 0
    BY <1>4, <2>2 DEF Closes
  <2>4. Quoting(z)[K] = 0
    BY <1>1, <1>3, <1>4, <2>3, QuotingStays
  <2>5. Quoting(z)[K + Len(y)] = Quoting(y)[Len(y)]
    BY <1>1, <1>4, <2>4, QuotingMoved
  <2> QED
    BY <1>4, <2>1, <2>4, <2>5 DEF Closes
<1>6. Closes(z)
  <2>1. x # <<>>
    BY DEF Closes
  <2>2. z # <<>>
    BY <1>1, <2>1
  <2> QED
    BY <1>1, <1>2, <1>5, <2>2 DEF Closes
<1>7. Expands(x) \/ Expands(y) => Expands(z)
  BY <1>1, <1>4, <1>5, ExpandsMoved
<1> QED
  BY <1>1, <1>2, <1>6, <1>7

(* Such a command is judged with all that is in both.                      *)
LEMMA JoinedSound ==
  ASSUME NEW x, x.text \in Seq(STRING), NEW s \in Separations,
         NEW a, SoundCase(a), NEW b, SoundCase(b), x = Joined(a, s, b)
  PROVE  SoundCase(x)
<1>1. /\ x.text = Together(Together(a.text, s), b.text) /\ x.parts = a.parts \cup b.parts
      /\ x.expands = (a.expands \/ b.expands)
      /\ x.depth = IF a.depth < b.depth THEN b.depth ELSE a.depth
  BY DEF Joined, Case, Together
<1>2. /\ a.text \in Seq(STRING) /\ Closes(a.text) /\ a.depth \in 0 .. MaxDepth - 1 /\ Found(a)
      /\ b.text \in Seq(STRING) /\ Closes(b.text) /\ b.depth \in 0 .. MaxDepth - 1 /\ Found(b)
      /\ (a.expands => Expands(a.text)) /\ (b.expands => Expands(b.text))
  BY DEF SoundCase, Closes
<1>3. s \in Seq(STRING) /\ Len(s) \in {1, 2} /\ \A i \in 1 .. Len(s) : s[i] \in Separators
  <2>1. s \in Seq(Separators) /\ Len(s) \in {1, 2}
    BY SeparationIs
  <2> DEFINE S == STRING \cup Separators
  <2>2. a.text \in Seq(S) /\ s \in Seq(S) /\ b.text \in Seq(S)
    <3>1. STRING \subseteq S /\ Separators \subseteq S
      OBVIOUS
    <3> HIDE DEF S
    <3> QED
      BY <1>2, <2>1, <3>1, Widened
  <2> HIDE DEF S
  <2>3. PICK u : u = Together(a.text, s) /\ u \in Seq(S)
    BY <2>2, TogetherTyped
  <2>4. x.text = Together(u, b.text)
    BY <1>1, <2>3
  <2>5. u \in Seq(STRING)
    BY <2>2, <2>3, <2>4, PartsAreText
  <2>6. s \in Seq(STRING)
    BY <2>2, <2>3, <2>5, PartsAreText
  <2> QED
    BY <2>1, <2>6
<1>4. PICK z : z = x.text
  OBVIOUS
<1>5. /\ z \in Seq(STRING) /\ Split(z) = Split(a.text) \cup Split(b.text) /\ Closes(z)
      /\ Expands(a.text) \/ Expands(b.text) => Expands(z)
  <2>1. PICK v : v = a.text
    OBVIOUS
  <2>2. PICK y : y = b.text
    OBVIOUS
  <2>3. z = Together(Together(v, s), y)
    BY <1>1, <1>4, <2>1, <2>2
  <2>4. v \in Seq(STRING) /\ y \in Seq(STRING) /\ Closes(v) /\ Closes(y)
    BY <1>2, <2>1, <2>2
  <2>5. Closes(z)
    BY <1>3, <2>3, <2>4, JoinedCloses
  <2>6. Split(z) = Split(v) \cup Split(y)
    BY <1>3, <2>3, <2>4, JoinedCloses
  <2>7. Expands(v) \/ Expands(y) => Expands(z)
    BY <1>3, <2>3, <2>4, JoinedCloses
  <2>8. z \in Seq(STRING)
    BY <1>3, <2>3, <2>4, JoinedCloses
  <2> QED
    BY <2>1, <2>2, <2>5, <2>6, <2>7, <2>8
<1>6. /\ x.depth \in 0 .. MaxDepth - 1 /\ 0 .. a.depth \subseteq 0 .. x.depth
      /\ 0 .. b.depth \subseteq 0 .. x.depth
  BY <1>1, <1>2, PolicyAssumption
<1>7. ASSUME NEW c \in {a, b}, NEW p \in c.parts
      PROVE  \E d \in 0 .. x.depth : p \in Parts(Layers(z)[d].commands)
  <2>1. c.text \in Seq(STRING) /\ c.depth \in 0 .. MaxDepth - 1 /\ Found(c) /\ Split(c.text) \subseteq Split(z)
    BY <1>2, <1>5, <1>7
  <2>2. PICK d \in 0 .. c.depth : p \in Parts(Layers(c.text)[d].commands)
    BY <2>1, <1>7 DEF Found
  <2>3. d \in 0 .. x.depth
    BY <1>6, <1>7
  <2>4. 0 \in 0 .. MaxDepth /\ d \in 0 .. MaxDepth - 0 /\ 0 + d = d
    BY <2>1, PolicyAssumption
  <2>5. Split(c.text) \subseteq Parts(Layers(z)[0].commands)
    BY <1>5, <2>1, TopParts
  <2>6. Parts(Layers(c.text)[d].commands) \subseteq Parts(Layers(z)[0 + d].commands)
    BY <1>5, <2>1, <2>4, <2>5, LayersMoved
  <2> QED
    BY <2>2, <2>3, <2>4, <2>6
<1>8. Found(x)
  BY <1>1, <1>4, <1>7 DEF Found
<1> QED
  BY <1>1, <1>2, <1>4, <1>5, <1>6, <1>8 DEF SoundCase

(* Commands in which there is no other ...                                 *)
LEMMA SimpleSound ==
  ASSUME NEW x, x.text \in Seq(STRING), x.depth < MaxDepth, IsSimple(x)
  PROVE  SoundCase(x)
<1>1. CASE IsWords(x.text) /\ x = Words(x.text)
  BY <1>1, WordsSound
<1>2. CASE \E n \in 1 .. Len(x.text) - 2 :
             LET w == SubSeq(x.text, 1, n)
                 q == SubSeq(x.text, n + 2, Len(x.text) - 1)
             IN  /\ IsWords(w)
                 /\ \/ IsWords(q) /\ x = Ticked(w, q)
                    \/ q \in Seq(STRING) /\ "'" \notin ToSet(q) /\ x = Quoted(w, q)
  <2>1. PICK w, q : /\ IsWords(w)
                    /\ \/ IsWords(q) /\ x = Ticked(w, q)
                       \/ q \in Seq(STRING) /\ "'" \notin ToSet(q) /\ x = Quoted(w, q)
    BY <1>2, Zenon
  <2>2. CASE IsWords(q) /\ x = Ticked(w, q)
    BY <2>1, <2>2, TickedSound
  <2>3. CASE q \in Seq(STRING) /\ "'" \notin ToSet(q) /\ x = Quoted(w, q)
    BY <2>1, <2>3, QuotedSound
  <2> QED
    BY <2>1, <2>2, <2>3
<1> QED
  BY <1>1, <1>2, Zenon DEF IsSimple

(* ... and those made of others that are sound.                            *)
LEMMA ComposedSound ==
  ASSUME NEW x, x.text \in Seq(STRING), x.depth < MaxDepth, NEW A, \A a \in A : SoundCase(a),
         IsComposed(x, A)
  PROVE  SoundCase(x)
<1>1. CASE \E a \in A, b \in A, separator \in Separations : x = Joined(a, separator, b)
  BY <1>1, JoinedSound
<1>2. CASE \E a \in A, n \in 1 .. Len(x.text) :
             /\ IsWords(SubSeq(x.text, 1, n)) /\ Balanced(a.text)
             /\ x = Substituted(SubSeq(x.text, 1, n), a)
  <2>1. PICK a \in A, n \in 1 .. Len(x.text) :
          /\ IsWords(SubSeq(x.text, 1, n)) /\ Balanced(a.text)
          /\ x = Substituted(SubSeq(x.text, 1, n), a)
    BY <1>2
  <2> QED
    BY <2>1, SubstitutedSound
<1>3. CASE \E a \in A, shell \in Shells :
             ToSet(a.text) \cap {"\"", "\\"} = {} /\ x = Wrapped(shell, a)
  BY <1>3, WrappedSound, Zenon
<1> QED
  BY <1>1, <1>2, <1>3, Zenon DEF IsComposed

(* Every command to judge is sound: by how long it is.                     *)
LEMMA CasesSound ==
  \A x \in Cases : SoundCase(x)
<1> DEFINE U == {n \in Nat : \A x \in Cases : Len(x.text) < n => SoundCase(x)}
<1>1. \A x \in Cases : x.text \in Seq(STRING) /\ Len(x.text) \in Nat /\ x.depth < MaxDepth
  <2>1. \A x \in Cases : x.text \in Seq(STRING) /\ x.depth < MaxDepth
    BY CasesAssumption, Zenon
  <2> QED
    BY <2>1
<1>2. ASSUME NEW x \in Cases, \A a \in Cases : Len(a.text) < Len(x.text) => SoundCase(a)
      PROVE  SoundCase(x)
  <2>1. PICK A : A = {a \in Cases : Len(a.text) < Len(x.text)}
    OBVIOUS
  <2>2. \A a \in A : SoundCase(a)
    BY <1>2, <2>1
  <2>3. IsSimple(x) \/ IsComposed(x, A)
    BY <2>1, CasesAssumption, Zenon
  <2> QED
    BY <1>1, <2>2, <2>3, SimpleSound, ComposedSound
<1>3. 0 \in U
  BY <1>1
<1>4. ASSUME NEW n \in Nat, n \in U PROVE n + 1 \in U
  <2> SUFFICES ASSUME NEW x \in Cases, Len(x.text) < n + 1 PROVE SoundCase(x)
    OBVIOUS
  <2>1. \A a \in Cases : Len(a.text) < n => SoundCase(a)
    BY <1>4
  <2>2. \A a \in Cases : Len(a.text) < Len(x.text) => Len(a.text) < n
    BY <1>1
  <2> QED
    BY <1>2, <2>1, <2>2
<1> HIDE DEF U
<1>5. ASSUME NEW x \in Cases PROVE SoundCase(x)
  <2>1. Len(x.text) + 1 \in Nat /\ Len(x.text) < Len(x.text) + 1 /\ Len(x.text) + 1 \in 0 .. Len(x.text) + 1
    BY <1>1
  <2>2. \A n \in 0 .. Len(x.text) + 1 : n \in U
    BY <1>3, <1>4, <2>1, Counting
  <2>3. Len(x.text) + 1 \in U
    BY <2>1, <2>2
  <2> QED
    BY <2>1, <2>3 DEF U
<1> QED
  BY <1>5

(* Every command in it is looked at.                                       *)
LEMMA PartsCollected ==
  ASSUME NEW x \in Cases
  PROVE  x.parts \subseteq Collect(x.text) /\ (x.expands => Expands(x.text))
<1>1. SoundCase(x)
  BY CasesSound
<1>2. x.text \in Seq(STRING) /\ x.depth \in 0 .. MaxDepth - 1 /\ Found(x)
  BY <1>1 DEF SoundCase, Closes
<1>3. ASSUME NEW p \in x.parts PROVE p \in Collect(x.text)
  <2>1. PICK d \in 0 .. x.depth : p \in Parts(Layers(x.text)[d].commands)
    BY <1>2 DEF Found
  <2>2. d \in 0 .. MaxDepth - 1
    BY <1>2, PolicyAssumption
  <2> QED
    BY <1>2, <2>1, <2>2, Collected
<1> QED
  BY <1>1, <1>3 DEF SoundCase

(* With more verdicts the strictest is no less strict.                     *)
LEMMA StricterOfMore ==
  ASSUME NEW S, NEW T, S \subseteq T
  PROVE  /\ Strictest(S) = "deny" => Strictest(T) = "deny"
         /\ Strictest(S) # "allow" => Strictest(T) # "allow"
         /\ Strictest(T) \in {"deny", "ask", "allow"}
BY DEF Strictest

(* In every state in which the engine has just read its rules.             *)
LEMMA StrictestVerdict ==
  VerdictIsStrictest
<1> SUFFICES ASSUME JustStarted, NEW x \in Cases
             PROVE  LET least == Strictest({Single(engine, part) : part \in x.parts}
                                           \cup (IF x.expands THEN {"ask"} ELSE {}))
                        verdict == ShellContract(engine, x.text)
                    IN  /\ least = "deny" => verdict = "denied"
                        /\ least # "allow" =>
                             verdict # "allowed" /\ RequiresApprovalFor(engine, FALSE, x.text)
  BY DEF VerdictIsStrictest
<1> DEFINE fragments == Collect(x.text)
           opaque == \/ Expands(x.text) \/ fragments = {}
                     \/ \E f \in fragments : Base(f) \in Suspicious
           S == {Single(engine, part) : part \in x.parts} \cup (IF x.expands THEN {"ask"} ELSE {})
           T == {Single(engine, f) : f \in fragments} \cup (IF opaque THEN {"ask"} ELSE {})
<1>1. S \subseteq T
  <2>1. x.parts \subseteq fragments /\ (x.expands => opaque)
    BY PartsCollected
  <2> HIDE DEF fragments, opaque
  <2> QED
    BY <2>1
<1>2. engine.enabled
  BY DEF JustStarted
<1>3. Evaluate(engine, x.text) = Strictest(T)
  BY <1>2 DEF Evaluate
<1> HIDE DEF S, T
<1>4. /\ Strictest(S) = "deny" => Strictest(T) = "deny"
      /\ Strictest(S) # "allow" => Strictest(T) # "allow"
      /\ Strictest(T) \in {"deny", "ask", "allow"}
  BY <1>1, StricterOfMore
<1>5. /\ Strictest(S) = "deny" => ShellContract(engine, x.text) = "denied"
      /\ Strictest(S) # "allow" => ShellContract(engine, x.text) # "allowed"
                                   /\ RequiresApprovalFor(engine, FALSE, x.text)
  BY <1>3, <1>4 DEF ShellContract, RequiresApprovalFor
<1> QED
  BY <1>5 DEF S

(* A command with one in it that alone would be denied, or asked about,    *)
(* is denied, or asked about, whatever the rules are that the engine       *)
(* started with: for the commands CasesAssumption puts together, which are *)
(* joined and nested to any depth below MaxDepth, but have no group in     *)
(* ( ), no newline, and no quoted brackets in a $(...) that do not pair up.*)
THEOREM VerdictStrictest == PolicySpec => []VerdictIsStrictest
BY StrictestVerdict, PTL
=============================================================================
