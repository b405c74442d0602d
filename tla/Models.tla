------------------------------- MODULE Models -------------------------------
(***************************************************************************)
(* The language models: the provider manager's list and current provider   *)
(* (src/core/provider_manager.rs), models.json, which the manager and a    *)
(* login save through one temporary file (config.rs, setup.rs), and the    *)
(* OAuth tokens, which a login and every refresh save (auth/, chatgpt.rs). *)
(*                                                                         *)
(* Chats switch models at any time, a login runs in the background or as   *)
(* `zymi login`, calls refresh the tokens they were created with.  A read, *)
(* a write or an answer of the server may fail, and the process may crash  *)
(* between any two steps.                                                  *)
(***************************************************************************)
EXTENDS Integers, FiniteSets, SavedFile

CONSTANTS Chats,      \* who may switch the model
          Calls,      \* calls of the OAuth provider
          Keyed,      \* models that need an API key in the environment
          OAuth,      \* models of the ChatGPT subscription
          Free,       \* models that need neither
          Env,        \* the model of the environment variables
          MaxTokens,  \* bound: tokens the server issues
          NoModel

Ids == Keyed \cup OAuth \cup Free

ASSUME ModelsAssumption ==
  /\ Env \in Free /\ MaxTokens \in Nat
  /\ Keyed \cap OAuth = {} /\ Keyed \cap Free = {} /\ OAuth \cap Free = {}
  /\ NoModel \notin Ids
  /\ \A M \in SUBSET Ids : M \notin {Torn, Absent}

VARIABLES
  config,    \* the manager's models
  inner,     \* the model inner talks to
  current,   \* current_model_id
  switch,    \* switch[c]: the model of a provider written to inner, or none
  mixed,     \* history: two switches overlapped
  file,      \* models.json and models.json.tmp: models, Torn or Absent
  saver,     \* saver[s]: the step of a save, and what it saves
  raced,     \* history: two saves overlapped, or models.json was not read
  added,     \* the other models listed by the last add_model that was saved
  login,     \* "none", "tokens" or "over"
  live,      \* the refresh token the server accepts
  disk,      \* the one in auth.json, 0 without
  mem,       \* the one of the current provider
  call,      \* call[c]: step, token taken, token received, its own provider?
  crossed,   \* history: something else changed the tokens during a refresh
  lost       \* a token the server issued is not where it belongs

managerVars == <<config, inner, current, switch, mixed>>
fileVars == <<file, saver, raced, added>>
tokenVars == <<live, disk, mem, call, crossed, lost>>
modelsVars == <<managerVars, fileVars, login, tokenVars>>

Savers == {"add", "login"}
Idle == [at |-> "idle", models |-> {}]
NoCall == [at |-> "idle", old |-> 0, new |-> 0, own |-> TRUE]

(* load_models_config: a file that cannot be parsed or lists nothing is    *)
(* replaced by the model of the environment, and so is one that is there   *)
(* and whose reading fails.                                                *)
Load == IF file.file \in {Torn, Absent, {}} THEN {Env} ELSE file.file
Loads == {Load, {Env}}

(* ProviderManager::new: the default entry, or the first.                  *)
Start(models) ==
  /\ config = models
  /\ inner \in models /\ current = inner
  /\ switch = [c \in Chats |-> NoModel]
  /\ saver = [s \in Savers |-> Idle]
  /\ call = [c \in Calls |-> NoCall]

InitModels ==
  /\ file \in {Saved(Absent)} \cup {Saved({Env, k}) : k \in Keyed}
  /\ Start(Load)
  /\ mixed = FALSE /\ raced = FALSE /\ crossed = FALSE /\ lost = FALSE
  /\ added = {} /\ login = "none"
  /\ live = 0 /\ disk = 0 /\ mem = 0

-----------------------------------------------------------------------------
(* create_provider may fail for a model with a key; an OAuth model needs   *)
(* the tokens on the disk, of which its provider keeps a copy.             *)
CanCreate(id) == id \in OAuth => disk # 0

Refreshing == {c \in Calls : call[c].at # "idle"}

(* inner.write: calls in progress keep the provider they began with.       *)
SetInner(id) ==
  /\ inner' = id
  /\ mem' = IF id \in OAuth THEN disk ELSE 0
  /\ call' = [c \in Calls |-> [call[c] EXCEPT !.own = FALSE]]
  /\ crossed' = (crossed \/ Refreshing # {})

\* Mutant: the id is announced before the provider is created.
SwitchIdFirst(c, id) ==
  /\ switch[c] = NoModel /\ saver["add"].at = "idle" /\ id \in config
  /\ current' = id
  /\ \/ /\ CanCreate(id) /\ SetInner(id)
        /\ switch' = [switch EXCEPT ![c] = id]
     \/ id \notin Free /\ UNCHANGED <<inner, mem, call, crossed, switch>>
  /\ mixed' = (mixed \/ \E d \in Chats : switch[d] # NoModel)
  /\ UNCHANGED <<config, fileVars, login, live, disk, lost>>

(* switch_model holds the list's read lock over both writes; a failure to  *)
(* create the provider changes nothing.                                    *)
SwitchInner(c, id) ==
  /\ switch[c] = NoModel /\ saver["add"].at = "idle"
  /\ id \in config /\ CanCreate(id)
  /\ SetInner(id)
  /\ switch' = [switch EXCEPT ![c] = id]
  /\ mixed' = (mixed \/ \E d \in Chats : switch[d] # NoModel)
  /\ UNCHANGED <<config, current, fileVars, login, live, disk, lost>>

SwitchId(c) ==
  /\ switch[c] # NoModel
  /\ current' = switch[c]
  /\ switch' = [switch EXCEPT ![c] = NoModel]
  /\ UNCHANGED <<config, inner, mixed, fileVars, login, tokenVars>>

-----------------------------------------------------------------------------
(* save_models_config, a step at a time.                                   *)
Begin(s, models, loaded) ==
  /\ saver' = [saver EXCEPT ![s] = [at |-> "create", models |-> models]]
  /\ raced' = (raced \/ loaded # Load \/ \E t \in Savers \ {s} : saver[t].at # "idle")

Reaches(s, step) == saver' = [saver EXCEPT ![s].at = step]

Create(s) ==
  /\ saver[s].at = "create" /\ Reaches(s, "fill")
  /\ file' = Emptied(file)
  /\ UNCHANGED <<raced, added, managerVars, login, tokenVars>>

Fill(s) ==
  /\ saver[s].at = "fill" /\ Reaches(s, "rename")
  /\ file' = Filled(file, saver[s].models)
  /\ UNCHANGED <<raced, added, managerVars, login, tokenVars>>

Rename(s) ==
  /\ saver[s].at = "rename"
  /\ file' = Renamed(file)
  /\ saver' = [saver EXCEPT ![s] = Idle]
  /\ added' = IF s = "add" THEN config \ OAuth ELSE added
  /\ login' = IF s = "login" THEN "over" ELSE login
  /\ UNCHANGED <<raced, managerVars, tokenVars>>

(* A step that fails is logged and ends the save; the caller goes on, and  *)
(* add_model answers Ok: the list then differs from the file until the     *)
(* next add_model, or until a restart forgets the new model.               *)
SaveDrops(s) ==
  /\ saver[s].at # "idle"
  /\ saver' = [saver EXCEPT ![s] = Idle]
  /\ login' = IF s = "login" THEN "over" ELSE login
  /\ UNCHANGED <<file, raced, added, managerVars, tokenVars>>

(* add_model: push and save under the write lock.                          *)
AddModel(id) ==
  /\ saver["add"].at = "idle" /\ \A c \in Chats : switch[c] = NoModel
  /\ id \in (Keyed \cup Free) \ config
  /\ config' = config \cup {id}
  /\ Begin("add", config \cup {id}, Load)
  /\ UNCHANGED <<inner, current, switch, mixed, file, added, login, tokenVars>>

-----------------------------------------------------------------------------
(* login: the code is exchanged for tokens, which are saved; a failure     *)
(* before that leaves everything as it was.  A failure after it leaves     *)
(* auth.json as it was, or torn by save_tokens: that counts as none.       *)
Login ==
  /\ login = "none" /\ live < MaxTokens
  /\ live' = live + 1
  /\ \/ disk' = live + 1 /\ login' = "tokens" /\ lost' = FALSE
     \/ disk' \in {disk, 0} /\ UNCHANGED login /\ lost' = TRUE
  /\ crossed' = (crossed \/ Refreshing # {} \/ inner \in OAuth)
  /\ UNCHANGED <<managerVars, fileVars, mem, call>>

(* logout, in a process of its own.                                        *)
Logout ==
  /\ login = "over" /\ disk # 0
  /\ disk' = 0 /\ login' = "none"
  /\ crossed' = (crossed \/ Refreshing # {} \/ inner \in OAuth)
  /\ UNCHANGED <<managerVars, fileVars, live, mem, call, lost>>

(* sync_chatgpt_models: the OAuth models of models.json are replaced by    *)
(* those the account has, or by a default one; the rest is kept.  The      *)
(* manager's own list is not told.                                         *)
Sync(models) ==
  /\ login = "tokens" /\ saver["login"].at = "idle"
  /\ \E loaded \in Loads : Begin("login", (loaded \ OAuth) \cup models, loaded)
  /\ UNCHANGED <<file, added, managerVars, login, tokenVars>>

(* ensure_chatgpt_model, when the account's models were not fetched, adds  *)
(* no default one to a list that has one.                                  *)
HasModel ==
  /\ login = "tokens" /\ saver["login"].at = "idle" /\ Load \cap OAuth # {}
  /\ login' = "over"
  /\ UNCHANGED <<managerVars, fileVars, tokenVars>>

-----------------------------------------------------------------------------
(* A call whose token is old, or rejected (401), refreshes it: it takes    *)
(* the provider's token, posts it, saves the answer, keeps it in memory.   *)
Refresh(c) ==
  /\ call[c].at = "idle" /\ inner \in OAuth
  /\ call' = [call EXCEPT ![c] = [at |-> "post", old |-> mem, new |-> 0, own |-> TRUE]]
  /\ crossed' = (crossed \/ Refreshing # {})
  /\ UNCHANGED <<managerVars, fileVars, login, live, disk, mem, lost>>

(* The server takes a refresh token once (external).  A rejected refresh   *)
(* ends the call, with the old token or an error.                          *)
Post(c) ==
  /\ call[c].at = "post"
  /\ \/ /\ call[c].old = live /\ live < MaxTokens
        /\ live' = live + 1
        /\ call' = [call EXCEPT ![c].at = "save", ![c].new = live + 1]
     \/ call[c].old # live /\ call' = [call EXCEPT ![c] = NoCall] /\ UNCHANGED live
  /\ UNCHANGED <<managerVars, fileVars, login, disk, mem, crossed, lost>>

(* The answer is not received, or cannot be read, or the time of the model *)
(* call runs out before it: the server has issued a token, or has not.     *)
Unheard(c) ==
  /\ call[c].at = "post"
  /\ \/ UNCHANGED <<live, lost>>
     \/ /\ call[c].old = live /\ live < MaxTokens
        /\ live' = live + 1 /\ lost' = TRUE
  /\ call' = [call EXCEPT ![c] = NoCall]
  /\ UNCHANGED <<managerVars, fileVars, login, disk, mem, crossed>>

(* save_tokens empties auth.json and fills it, in place; either may fail.  *)
SaveTokens(c) ==
  /\ \/ /\ call[c].at = "save" /\ disk' = 0
        /\ call' = [call EXCEPT ![c].at = "fill"]
     \/ /\ call[c].at = "fill" /\ disk' = call[c].new
        /\ call' = [call EXCEPT ![c].at = "keep"]
  /\ UNCHANGED <<managerVars, fileVars, login, live, mem, crossed, lost>>

(* The call ends before it keeps the new token: save_tokens failed, or the *)
(* model call's time ran out while it waited for the provider's lock.      *)
Unkept(c) ==
  /\ call[c].at \in {"save", "fill", "keep"}
  /\ call' = [call EXCEPT ![c] = NoCall]
  /\ lost' = TRUE
  /\ UNCHANGED <<managerVars, fileVars, login, live, disk, mem, crossed>>

\* Mutant: the refreshed token is not kept.
KeepOld(c) ==
  /\ call[c].at = "keep"
  /\ call' = [call EXCEPT ![c] = NoCall]
  /\ UNCHANGED <<managerVars, fileVars, login, live, disk, mem, crossed, lost>>

Keep(c) ==
  /\ call[c].at = "keep"
  /\ mem' = IF call[c].own THEN call[c].new ELSE mem
  /\ call' = [call EXCEPT ![c] = NoCall]
  /\ UNCHANGED <<managerVars, fileVars, login, live, disk, crossed, lost>>

(* A crash leaves the files; what was in memory is read from them again,   *)
(* an unkept token that was saved too.                                     *)
RestartModels ==
  /\ config' \in Loads /\ inner' \in config' /\ current' = inner'
  /\ raced' = (raced \/ config' # Load)
  /\ lost' = (lost /\ disk # live)
  /\ CanCreate(inner') /\ mem' = IF inner' \in OAuth THEN disk ELSE 0
  /\ switch' = [c \in Chats |-> NoModel] /\ saver' = [s \in Savers |-> Idle]
  /\ call' = [c \in Calls |-> NoCall]
  /\ crossed' = (crossed \/ Refreshing # {})
  /\ login' = IF login = "over" THEN "over" ELSE "none"
  /\ UNCHANGED <<mixed, file, added, live, disk>>

NextModels ==
  \/ \E c \in Chats : SwitchId(c) \/ \E id \in Ids : SwitchInner(c, id)
  \/ \E s \in Savers : Create(s) \/ Fill(s) \/ Rename(s) \/ SaveDrops(s)
  \/ \E id \in Ids : AddModel(id)
  \/ Login \/ Logout \/ HasModel
  \/ \E models \in (SUBSET OAuth) \ {{}} : Sync(models)
  \/ \E c \in Calls : Refresh(c) \/ Post(c) \/ Unheard(c) \/ SaveTokens(c) \/ Keep(c) \/ Unkept(c)
  \/ RestartModels

ModelsSpec == InitModels /\ [][NextModels]_modelsVars

-----------------------------------------------------------------------------
(* Between switches that do not overlap, the model that is announced is    *)
(* the one that answers, also after a provider could not be created.       *)
AnnouncedModelAnswers ==
  (~mixed /\ \A c \in Chats : switch[c] = NoModel) => inner = current

(* Whatever crashes or fails in whatever step of a later save, models.json *)
(* parses and has every model that was listed by an add_model whose save   *)
(* went through - a save that fails drops the new model, though add_model  *)
(* answers Ok, and no other - unless two saves overlapped or the list that *)
(* a save goes back to had not been read.                                  *)
AddedModelsSurvive == raced \/ (file.file # Torn /\ (added = {} \/ added \subseteq Load))

(* The tokens a refresh received are the ones on the disk and in memory    *)
(* when it is over, unless another refresh, a login, a switch or a crash   *)
(* came in between, or a token that the server issued did not get there    *)
(* (its answer or its save failed, or the call was cancelled): the next    *)
(* refresh is accepted, also after a restart.  A refresh that the server   *)
(* never saw, or refused, leaves both tokens as they were.                 *)
RefreshAccepted ==
  (~crossed /\ ~lost /\ Refreshing = {} /\ inner \in OAuth) => mem = live /\ disk = live
=============================================================================
