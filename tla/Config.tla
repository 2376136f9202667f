------------------------------- MODULE Config -------------------------------
(***************************************************************************)
(* The configuration file.  GConfig reads it word by word, comments        *)
(* included, and a word that is the name of a setting takes the next word  *)
(* as its value; the settings of the Gx and S6a plugins are only looked    *)
(* for once GX_PROBE or S6A_PROBE is true.  From the settings the main     *)
(* thread computes how many packet buffers each router gets, and later     *)
(* each listener how many packets it may put there in a second.  A command *)
(* makes AdminPortReader read the file again, for some settings only.      *)
(*                                                                         *)
(* One setting stands for all that are read in the same way.               *)
(***************************************************************************)
EXTENDS Integers, Sequences, SequencesExt

CONSTANTS
  MaxInterfaces, \* MAX_INTERFACE_SUPPORT
  MaxRouters,    \* MAX_ROUTER_PER_INTERFACE_SUPPORT
  DefaultPps,    \* IPGlobal::PPS_PER_INTERFACE before the file is read
  DefaultCap,    \* IPGlobal::PPS_CAP_PERCENTAGE before the file is read
  Texts,         \* the files: sequences of lines [comment, words]
  MaxReloads     \* bound: commands to read the file again

ASSUME ConfigAssumption ==
  /\ MaxInterfaces \in Nat \ {0} /\ MaxRouters \in Nat \ {0}
  /\ DefaultPps \in Nat /\ DefaultCap \in Nat /\ MaxReloads \in Nat

Intf == 0 .. MaxInterfaces - 1

Flags == {"GX_PROBE", "S6A_PROBE"}
Counts == {"ETHERNET_INTERFACE"}
Lists == {"PPS_PER_INTERFACE", "PPS_CAP_PERCENTAGE", "ROUTER_PER_INTERFACE"}
GxSettings == {"GX_SESSION_CLEAN_UP_TIMEOUT_SEC"}
S6aSettings == {"S6A_SESSION_CLEAN_UP_TIMEOUT_SEC"}
Numbers == {"PRINT_STATS_FREQ_SEC"} \cup GxSettings \cup S6aSettings
Settings == Flags \cup Counts \cup Lists \cup Numbers

(* What refreshConfig looks for. *)
Reloadable == {"PRINT_STATS_FREQ_SEC"} \cup GxSettings

(* A word is kept as itself and as the numbers atoi and strtok find in it. *)
Word == [word : STRING, nums : Seq(Nat)]
NoWord == [word |-> "", nums |-> <<>>]

Words(file) == FlattenSeq([n \in DOMAIN file |-> file[n].words])

(* No number is negative.  A file does not end with the name of a setting  *)
(* that can be reloaded: refreshConfig would give it the last value read.  *)
ASSUME TextsAssumption ==
  \A file \in Texts :
    /\ Words(file) \in Seq(Word)
    /\ Words(file) # <<>> => Last(Words(file)).word \notin Reloadable

VARIABLES
  text,    \* the file
  fp,      \* the words not read yet
  set,     \* the settings, each as an array of which a number uses the first
  pc,      \* what the program is at
  intf,    \* the interface that is set up next
  buffers, \* the size of pktRepository_i_r_t for each interface
  cap,     \* MAX_PKT_ALLOWED_PER_TIME_INDEX of each listener
  reloads  \* history: commands to read the file again

configVars == <<text, fp, set, pc, intf, buffers, cap, reloads>>

DefaultOf(k) ==
  IF k = "PPS_PER_INTERFACE" THEN DefaultPps
  ELSE IF k = "PPS_CAP_PERCENTAGE" THEN DefaultCap
  ELSE IF k = "PRINT_STATS_FREQ_SEC" THEN 1 ELSE 0

Default == [k \in Settings |-> [i \in Intf |-> DefaultOf(k)]]

ConfigInit ==
  /\ text \in Texts
  /\ fp = Words(text)
  /\ set = Default
  /\ pc = "load" /\ intf = 0
  /\ buffers = [i \in Intf |-> 0] /\ cap = [i \in Intf |-> 0]
  /\ reloads = 0

-----------------------------------------------------------------------------
FlagValue(v) == IF v.word = "true" THEN 1 ELSE 0

NumberValue(v) == IF v.nums = <<>> THEN 0 ELSE Head(v.nums)

One(k, v) == IF k \in Flags THEN FlagValue(v) ELSE IF k \in Counts THEN Len(v.nums) ELSE NumberValue(v)

(* What the getter of a setting stores: a list as far as it goes.          *)
Stored(k, v) == IF k \in Lists THEN v.nums ELSE <<One(k, v)>>

Overlay(old, new) == [i \in Intf |-> IF i < Len(new) THEN new[i + 1] ELSE old[i]]

(* Faulty variant: the plugins' settings are always looked for.            *)
LookedForAlways(word) == word \in Settings

(* The names compared with a word, by initialize and by refreshConfig. *)
LookedFor(word) ==
  IF pc = "reload" THEN word \in Reloadable
  ELSE /\ word \in Settings
       /\ word \in GxSettings => set["GX_PROBE"][0] = 1
       /\ word \in S6aSettings => set["S6A_PROBE"][0] = 1

TooManyRouters(k, new) == k = "ROUTER_PER_INTERFACE" /\ \E n \in DOMAIN new : new[n] > MaxRouters

Reading == pc \in {"load", "reload"}

ReadSetting ==
  /\ Reading
  /\ fp # <<>> /\ LookedFor(Head(fp).word)
  /\ LET k     == Head(fp).word
         value == IF Len(fp) > 1 THEN fp[2] ELSE NoWord
         new   == Stored(k, value)
     IN  /\ set' = [set EXCEPT ![k] = Overlay(@, new)]
         /\ pc' = IF TooManyRouters(k, new) THEN "exited" ELSE pc
         /\ fp' = IF Len(fp) > 1 THEN Tail(Tail(fp)) ELSE <<>>
  /\ UNCHANGED <<text, intf, buffers, cap, reloads>>

SkipWord ==
  /\ Reading
  /\ fp # <<>> /\ ~LookedFor(Head(fp).word)
  /\ fp' = Tail(fp)
  /\ UNCHANGED <<text, set, pc, intf, buffers, cap, reloads>>

EndOfFile ==
  /\ Reading
  /\ fp = <<>>
  /\ pc' = IF pc = "load" THEN "allocate" ELSE "up"
  /\ UNCHANGED <<text, fp, set, intf, buffers, cap, reloads>>

-----------------------------------------------------------------------------
NoOfInterfaces == set["ETHERNET_INTERFACE"][0]
Pps(i) == set["PPS_PER_INTERFACE"][i]
Routers(i) == set["ROUTER_PER_INTERFACE"][i]

(* initialize_pkt_repo; without routers the division ends the program. *)
Allocate ==
  /\ pc = "allocate"
  /\ intf < NoOfInterfaces
  /\ \/ /\ Routers(intf) = 0
        /\ pc' = "crashed"
        /\ UNCHANGED <<intf, buffers>>
     \/ /\ Routers(intf) > 0
        /\ buffers' = [buffers EXCEPT ![intf] = Pps(intf) \div Routers(intf)]
        /\ intf' = intf + 1
        /\ UNCHANGED pc
  /\ UNCHANGED <<text, fp, set, cap, reloads>>

Allocated ==
  /\ pc = "allocate"
  /\ intf = NoOfInterfaces
  /\ pc' = "listen" /\ intf' = 0
  /\ UNCHANGED <<text, fp, set, buffers, cap, reloads>>

(* Faulty variant: the routers share one buffer.                           *)
AllowedOfInterface(i) == (Pps(i) \div 100) * set["PPS_CAP_PERCENTAGE"][i]

Allowed(i) == ((Pps(i) \div Routers(i)) \div 100) * set["PPS_CAP_PERCENTAGE"][i]

(* EthernetSource::start, one interface after the other. *)
Listen ==
  /\ pc = "listen"
  /\ IF intf < NoOfInterfaces
     THEN /\ cap' = [cap EXCEPT ![intf] = Allowed(intf)]
          /\ intf' = intf + 1
          /\ UNCHANGED pc
     ELSE /\ pc' = "up"
          /\ UNCHANGED <<intf, cap>>
  /\ UNCHANGED <<text, fp, set, buffers, reloads>>

Reload ==
  /\ pc = "up"
  /\ reloads < MaxReloads
  /\ reloads' = reloads + 1
  /\ fp' = Words(text)
  /\ pc' = "reload"
  /\ UNCHANGED <<text, set, intf, buffers, cap>>

ConfigNext == ReadSetting \/ SkipWord \/ EndOfFile \/ Allocate \/ Allocated \/ Listen \/ Reload

ConfigSpec == ConfigInit /\ [][ConfigNext]_configVars

-----------------------------------------------------------------------------
(* The lines that set k, and those of them that reach element i. *)
LinesOf(k) == {n \in DOMAIN text : ~text[n].comment /\ Head(text[n].words).word = k}

Reaching(k, i) == {n \in LinesOf(k) : i < Len(Stored(k, text[n].words[2]))}

(* The last line that gives element i of a setting a value decides. *)
Meant(k, i) ==
  IF Reaching(k, i) = {} THEN Default[k][i] ELSE Stored(k, text[Max(Reaching(k, i))].words[2])[i + 1]

PluginOff(k) ==
  \/ k \in GxSettings /\ Meant("GX_PROBE", 0) = 0
  \/ k \in S6aSettings /\ Meant("S6A_PROBE", 0) = 0

(* probe.config says of the two flags that they must be the first section. *)
FlagsFirst ==
  \A m, n \in DOMAIN text :
    m < n /\ (\E f \in Flags : n \in LinesOf(f)) => text[m].comment \/ \E f \in Flags : m \in LinesOf(f)

(* A comment may name a setting if a line that sets it follows, and if the *)
(* name is not the comment's last word.                                    *)
HarmlessComments ==
  \A n \in DOMAIN text : text[n].comment =>
    \A w \in DOMAIN text[n].words :
      LET k == text[n].words[w].word
      IN  k \in Settings => w < Len(text[n].words) /\ \E m \in LinesOf(k) : m > n

(* A file as it is meant to be written: a line is a name and a value, not  *)
(* itself a name and not without a number; in a comment, no list follows   *)
(* the name of a setting, and no number but 0 that of a plugin's setting.  *)
PlainLine(words) ==
  Len(words) = 2 /\ words[2].word \notin Settings /\ words[2].nums # <<>>

PlainComment(words) ==
  \A w \in DOMAIN words :
    LET k == words[w].word
        v == words[w + 1]
    IN  w < Len(words) /\ k \in Settings =>
          /\ Len(Stored(k, v)) <= 1
          /\ k \in GxSettings \cup S6aSettings => NumberValue(v) = 0

PlainFile(file) ==
  /\ file \in Seq([comment : BOOLEAN, words : Seq(Word)])
  /\ \A n \in DOMAIN file :
       /\ file[n].words # <<>>
       /\ IF file[n].comment THEN PlainComment(file[n].words) ELSE PlainLine(file[n].words)

(* The program starts with what the file says, although it reads the       *)
(* comments too and needs to know the flags before it has seen the file;   *)
(* and reading the file again changes nothing, although another loop with  *)
(* other names reads it, unless the plugin of a setting is off.            *)
AsWritten ==
  pc \in {"allocate", "listen", "up"} /\ FlagsFirst /\ HarmlessComments =>
    \A k \in Settings : \A i \in Intf :
      \/ set[k][i] = IF PluginOff(k) THEN Default[k][i] ELSE Meant(k, i)
      \/ PluginOff(k) /\ reloads > 0

(* Every buffer a listener may fill has been allocated: two threads divide *)
(* the packets of a second in two places, and the one never exceeds the    *)
(* other while the percentage is one.                                      *)
BuffersForAll ==
  \A i \in Intf : set["PPS_CAP_PERCENTAGE"][i] <= 100 => cap[i] <= buffers[i]
=============================================================================
