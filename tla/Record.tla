------------------------------- MODULE Record -------------------------------
(***************************************************************************)
(* How the attributes of messages become the columns of a record.  The     *)
(* parser leaves them in an entry of the MPacket, the entry is copied to   *)
(* the session manager, and processRequest and processResponse copy them   *)
(* into a session, which comes from a pool and goes back there.  Entries   *)
(* and sessions are used again and again, so that everything depends on    *)
(* what is reset, what is copied, and what is overwritten.                 *)
(*                                                                         *)
(* A value is the number of the message that gave it, 0 for the default    *)
(* (0, -1 or "NA").  The names are those of the body; a session calls mcc  *)
(* visitedMcc and ccReqType reqType, to the same effect.                   *)
(***************************************************************************)
EXTENDS Naturals, Sequences

CONSTANTS
  HopByHopIds,  \* identifiers of the messages
  Pool,         \* indices of the session pool
  MaxMsgs       \* bound: messages

VARIABLES
  proto,    \* "gx" or "s6a": which of the two paths
  seen,     \* history: the messages, [key, request, full, packet]
  entry,    \* Diameter[chunkNo] of the MPacket: [msg, attrs]
  decoded,  \* the entry holds a message that is still to be distributed
  pool,     \* the sessions of the pool
  table,    \* gxSessionMap or s6aSessionMap: identifier to [at, msgs]; msgs is history
  records   \* what has been flushed: [msgs, cols]

vars == <<proto, seen, entry, decoded, pool, table, records>>

-----------------------------------------------------------------------------
(* The attributes of a body.                                               *)

(* From the headers of the packet and the message. *)
Header == {"time", "addresses", "command", "reqRspFlag", "appId"}

Common ==
  {"ratType", "mcc", "mnc", "resultCode", "maxReqBwDl", "maxReqBwUl", "sessionId", "msisdn",
   "imsi", "imei", "originHost", "destinationHost"}

GXAVP ==
  {"ccReqType", "networkReqSupported", "bearerOperation", "ipCanType", "bearerUsage",
   "qosNegotiation", "terminationCause", "bearerCtrlMode", "qosUpgrade", "qosClassIdentifier",
   "lac", "sac", "cellId", "guarantedBrDl", "guarantedBrUl", "multipleSerInd", "ccTotalOctets",
   "validityTime", "volumeQuotaThreshold", "reAuthRequestType", "eventTrigger", "framedIP",
   "callingStationId", "sgsnAddress", "rai", "userLocationInfo", "sgsnMccMnc",
   "serviceContextId", "3gppImsiMccMnc"}

S6AAVP ==
  {"ulrFlags", "failedAvp", "srvccSupportFlag", "imsVoiceOverPsSessionFlag", "cancelType",
   "subscriberStatus", "apnConfigIndicator", "errorMsg", "visitedNwIdentifier",
   "serviceSelection", "featureListId", "featureList"}

AvpMap == IF proto = "gx" THEN GXAVP ELSE S6AAVP
Attributes == Header \cup Common \cup AvpMap

(* Members no function of the parser stores anything in. *)
NeverStored == {"qosNegotiation", "qosClassIdentifier", "apnConfigIndicator"}

-----------------------------------------------------------------------------
(* The columns of a session that a request and a response write.           *)
Start == {"StartTime", "request", "addresses", "command", "appId"}
End == {"EndTime", "answer", "appId"}

GxRequest ==
  Start \cup {"sessionId", "ccReqType", "originHost", "destinationHost", "msisdn", "imsi", "imei",
    "mnc", "mcc", "userLocationInfo", "cellId", "lac", "sac", "qosUpgrade", "qosNegotiation",
    "maxReqBwDl", "maxReqBwUl", "guarantedBrDl", "guarantedBrUl", "bearerOperation", "bearerUsage",
    "rai", "ratType", "callingStationId", "framedIP", "ipCanType", "networkReqSupported",
    "sgsnAddress", "sgsnMccMnc", "terminationCause", "multipleSerInd", "ccTotalOctets",
    "reAuthRequestType", "serviceContextId"}

GxResponse ==
  End \cup {"qosClassIdentifier", "ccTotalOctets", "validityTime", "volumeQuotaThreshold",
    "bearerCtrlMode", "resultCode"}

S6aRequest ==
  Start \cup {"reqFeatureList", "sessionId", "originHost", "destinationHost", "imsi", "imei", "mnc",
    "mcc", "ratType", "srvccSupportFlag", "imsVoiceOverPsSessionFlag", "cancelType", "ulrFlags",
    "serviceSelection", "featureListId"}

S6aResponse ==
  End \cup {"rspFeatureList", "failedAvp", "msisdn", "maxReqBwDl", "maxReqBwUl", "resultCode",
    "featureListId", "errorMsg"}

Request == IF proto = "gx" THEN GxRequest ELSE S6aRequest
Response == IF proto = "gx" THEN GxResponse ELSE S6aResponse

(* What copy takes of a session when it is flushed: everything.            *)
GxColumns == GxRequest \cup GxResponse \cup {"eventTrigger"}
S6aColumns == S6aRequest \cup S6aResponse \cup {"apnConfigIndicator", "visitedNwIdentifier"}

Columns == IF proto = "gx" THEN GxColumns ELSE S6aColumns

(* The attribute a column is copied from: that of its own name, but six.   *)
AttributeOf(c) ==
  CASE c \in {"StartTime", "EndTime"} -> "time"
    [] c \in {"request", "answer"} -> "reqRspFlag"
    [] c \in {"reqFeatureList", "rspFeatureList"} -> "featureList"
    [] OTHER -> c

(* Columns with a rule of their own: kept once they have a value.          *)
KeptOnce == IF proto = "gx" THEN {"eventTrigger"} ELSE {}

(* Faulty variant: eventTrigger is not reset. *)
ResetKeepingTrigger(session) ==
  [c \in Columns |-> IF c = "eventTrigger" THEN session[c] ELSE 0]

(* reset of a session. *)
ResetSession(session) == [c \in Columns |-> 0]

(* processRequest and processResponse: assignments, and for eventTrigger,  *)
(* apnConfigIndicator and an answer's RAT type only under a condition.     *)
Overwrite(session, body, columns) ==
  [c \in Columns |->
     IF c \in KeptOnce THEN IF session[c] = 0 THEN body.attrs[c] ELSE session[c]
     ELSE IF c \in columns THEN body.attrs[AttributeOf(c)]
     ELSE session[c]]

processRequest(session, body) ==
  LET updated == Overwrite(session, body, Request)
  IN  IF proto = "s6a" /\ body.attrs["apnConfigIndicator"] # 0
      THEN [updated EXCEPT !["apnConfigIndicator"] = body.attrs["apnConfigIndicator"]]
      ELSE updated

processResponse(session, body) ==
  LET updated == Overwrite(session, body, Response)
  IN  IF proto = "s6a"
      THEN [updated EXCEPT
              !["ratType"] = IF body.attrs["ratType"] # 0 THEN body.attrs["ratType"] ELSE @,
              !["apnConfigIndicator"] = IF @ = 0 THEN body.attrs["apnConfigIndicator"] ELSE @]
      ELSE updated

-----------------------------------------------------------------------------
Init ==
  /\ proto \in {"gx", "s6a"}
  /\ seen = <<>>
  /\ entry = [msg |-> 0, attrs |-> [a \in Attributes |-> 0]]
  /\ decoded = FALSE
  /\ pool = [i \in Pool |-> [c \in Columns |-> 0]]
  /\ table = <<>>
  /\ records = {}

(* reset of a body: the application identifier is cleared before it is     *)
(* asked which map of attributes to reset, so that none is.                *)
ResetBody(attrs) == [a \in Attributes |-> IF a \in AvpMap THEN attrs[a] ELSE 0]

(* What the parser leaves in the entry: a full message gives every         *)
(* attribute the parser stores, a bare one those of the headers.  The bits *)
(* of a feature list are appended to those that are there; the flusher has *)
(* names for as many as one message gives, so that the first ones count.   *)
Stores(m, a, attrs) ==
  a \notin NeverStored /\ m.full /\ ~(a = "featureList" /\ attrs[a] # 0)

Decoded(id, m, attrs) ==
  [msg |-> id,
   attrs |-> [a \in Attributes |->
     CASE a = "reqRspFlag" -> IF m.request THEN id ELSE 0
       [] a \in Header \ {"reqRspFlag"} -> id
       [] a \notin Header /\ Stores(m, a, attrs) -> id
       [] OTHER -> attrs[a]]]

Message(packet) == [key : HopByHopIds, request : BOOLEAN, full : BOOLEAN, packet : {packet}]

(* MPacket::reset, and a message of a new packet.  The messages of one TCP *)
(* segment have entries of their own, as if each came in a packet.         *)
NewPacket ==
  /\ ~decoded /\ Len(seen) < MaxMsgs
  /\ \E m \in Message(Len(seen) + 1) :
       /\ seen' = Append(seen, m)
       /\ entry' = Decoded(Len(seen'), m, [a \in Attributes |-> 0])
  /\ decoded' = TRUE
  /\ UNCHANGED <<proto, pool, table, records>>

(* Another data chunk of an SCTP packet is decoded into the same entry.    *)
NextChunk ==
  /\ decoded /\ proto = "s6a" /\ Len(seen) < MaxMsgs
  /\ \E m \in Message(seen[Len(seen)].packet) :
       /\ seen' = Append(seen, m)
       /\ entry' = Decoded(Len(seen'), m, ResetBody(entry.attrs))
  /\ UNCHANGED <<proto, decoded, pool, table, records>>

(* DiameterBody::copy, into the queue of the session manager: the common   *)
(* attributes and the map of the application.                              *)
Copied(body) == [body EXCEPT !.attrs = [a \in Header \cup Common \cup AvpMap |-> @[a]]]

Processed(session, body) ==
  IF seen[body.msg].request THEN processRequest(session, body) ELSE processResponse(session, body)

(* The first message of an identifier takes a session of the pool ...      *)
Open ==
  /\ decoded
  /\ LET body == Copied(entry)
         key  == seen[entry.msg].key
     IN  /\ key \notin DOMAIN table
         /\ \E i \in Pool \ {table[k].at : k \in DOMAIN table} :
              /\ pool' = [pool EXCEPT ![i] = Processed(ResetSession(@), body)]
              /\ table' = [k \in DOMAIN table \cup {key} |->
                              IF k = key THEN [at |-> i, msgs |-> <<entry.msg>>] ELSE table[k]]
  /\ decoded' = FALSE
  /\ UNCHANGED <<proto, seen, entry, records>>

Release(key) ==
  /\ pool' = [pool EXCEPT ![table[key].at] = ResetSession(@)]
  /\ table' = [k \in DOMAIN table \ {key} |-> table[k]]

(* ... and the second flushes it, whatever kind the two are.               *)
Flush ==
  /\ decoded
  /\ LET body == Copied(entry)
         key  == seen[entry.msg].key
         line == Processed(pool[table[key].at], body)
     IN  /\ key \in DOMAIN table
         /\ records' = records \cup {[msgs |-> Append(table[key].msgs, entry.msg), cols |-> line]}
         /\ Release(key)
  /\ decoded' = FALSE
  /\ UNCHANGED <<proto, seen, entry>>

(* The cleanup releases a session without a record. *)
Cleanup ==
  /\ \E key \in DOMAIN table : Release(key)
  /\ UNCHANGED <<proto, seen, entry, decoded, records>>

Next == NewPacket \/ NextChunk \/ Open \/ Flush \/ Cleanup

Spec == Init /\ [][Next]_vars

-----------------------------------------------------------------------------
(* The reference: who may have given what, by the history of messages.     *)

(* An S6a attribute a message does not give may be that of an earlier      *)
(* chunk of its packet: 0, or the last that gave it, or, of feature lists, *)
(* the first.                                                              *)
Givers(id, a) ==
  {m \in 1 .. id : /\ m = id \/ a \in S6AAVP
                  /\ seen[m].packet = seen[id].packet /\ seen[m].full}

Giver(id, a) ==
  IF a \in NeverStored \/ Givers(id, a) = {} THEN 0
  ELSE CHOOSE m \in Givers(id, a) :
         \A n \in Givers(id, a) : IF a = "featureList" THEN m <= n ELSE n <= m

LastOf(rec, request) ==
  LET mine == {m \in {rec.msgs[1], rec.msgs[2]} : seen[m].request = request}
  IN  IF mine = {} THEN 0 ELSE CHOOSE m \in mine : \A n \in mine : n <= m

FromMessage(id, a) == IF id = 0 THEN 0 ELSE Giver(id, a)

(* The column of an attribute comes from the message it should come from.  *)
Expected(rec, c) ==
  LET req    == LastOf(rec, TRUE)
      ans    == LastOf(rec, FALSE)
      first  == rec.msgs[1]
      second == rec.msgs[2]
  IN  CASE c \in {"StartTime", "request", "addresses", "command"} -> req
        [] c = "EndTime" -> ans
        [] c = "answer" -> 0
        [] c = "appId" -> second
        [] c = "eventTrigger" -> IF Giver(first, c) # 0 THEN Giver(first, c) ELSE Giver(second, c)
        [] c = "reqFeatureList" -> FromMessage(req, "featureList")
        [] c = "rspFeatureList" -> FromMessage(ans, "featureList")
        [] c \in {"ccTotalOctets", "featureListId"} -> Giver(second, c)
        [] c = "ratType" /\ proto = "s6a" ->
             IF seen[second].request \/ Giver(second, c) # 0 THEN Giver(second, c) ELSE Giver(first, c)
        [] c \in {"resultCode", "validityTime", "volumeQuotaThreshold", "bearerCtrlMode", "failedAvp",
                  "errorMsg"} -> FromMessage(ans, c)
        [] c \in {"msisdn", "maxReqBwDl", "maxReqBwUl"} ->
             FromMessage(IF proto = "gx" THEN req ELSE ans, c)
        [] c \in {"apnConfigIndicator", "visitedNwIdentifier"} -> 0
        [] OTHER -> FromMessage(req, c)

(* Each column of a record has what the request or the answer it is built  *)
(* from gave, or the default: nothing an earlier user of the pool entry,   *)
(* of the MPacket or of the identifier left behind, except that an S6a     *)
(* message may show attributes of an earlier chunk of its packet.  The     *)
(* answer's flag is 0 always, the class identifier is never filled.        *)
ColumnsOfPair ==
  \A rec \in records : \A c \in Columns : rec.cols[c] = Expected(rec, c)
=============================================================================
