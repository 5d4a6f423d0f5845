-------------------------------- MODULE Media ---------------------------------
(***************************************************************************)
(* /upload/send: an ImageRecognizer per user and the decoding of an image. *)
(* /chat/tts: AISpeechProcessor asks an external service for a task and    *)
(* polls it once a second until the speech is there.                       *)
(***************************************************************************)
EXTENDS Dispatch, Base64

CONSTANT MaxLoops    \* max_loops of synthesize, 60 in the code

VARIABLE recognizers    \* the users ImageRecognizerMap has an entry for

MediaInit == recognizers = {}

\* What clients put into an upload: an image in base64, padded or not, or else
\* nothing or text that is no base64.
IsUpload(r) ==
  \/ r.bytes \in Seq(0..255) /\ r.image \in {Encode(r.bytes), Unpadded(r.bytes)}
  \/ r.image \in Seq(Int) /\ (r.image = <<>> \/ Malformed(r.image))

\* The check at the head of the handlers of both.
MediaUnauthorized(t) == /\ th[t].pc \in {"upload", "speech"} /\ th[t].req.user = ""
                        /\ Respond(t, 401)
                        /\ UNCHANGED recognizers

-----------------------------------------------------------------------------
\* mutexForImageRecognizerMap is held while the model is loaded, which may throw.
OpenRecognizer(t) ==
  LET u == th[t].req.user IN
  /\ At(t, "upload") /\ u # ""
  /\ \/ /\ u \notin recognizers
        /\ Respond(t, 400)
        /\ UNCHANGED recognizers
     \/ /\ recognizers' = recognizers \union {u}
        /\ Update(t, [pc |-> "decode"])

\* The image the recognizer is given; PredictFromBuffer may refuse it.
DecodeImage(t) ==
  LET image == Decode(th[t].req.image) IN
  /\ At(t, "decode")
  /\ \/ /\ th[t].req.image # <<>> /\ image # Error
        /\ \E code \in {200, 400} : Update(t, [pc |-> "after", code |-> code, image |-> image])
     \/ /\ th[t].req.image = <<>> \/ image = Error
        /\ Respond(t, 400)
  /\ UNCHANGED recognizers

-----------------------------------------------------------------------------
(* The speech service is external: a task, then an answer to each query.   *)

\* Without the keys in the environment the handler throws.  A token the service
\* does not give is the empty string, and synthesize goes on with it.
GetAccessToken(t) ==
  /\ At(t, "speech") /\ th[t].req.user # ""
  /\ \/ Respond(t, 400)
     \/ Goto(t, "createTask")
  /\ UNCHANGED recognizers

\* A service that does not answer or gives no task yields an empty URL, and a 200.
CreateTask(t) ==
  /\ At(t, "createTask")
  /\ \/ Update(t, [pc |-> "after", code |-> 200, url |-> ""])
     \/ Update(t, [pc |-> "poll", loops |-> 0])
  /\ UNCHANGED recognizers

\* Variant: the loop runs once more.
QueryPastLimit(t) ==
  /\ At(t, "poll") /\ th[t].loops <= MaxLoops
  /\ Update(t, [loops |-> th[t].loops + 1])
  /\ UNCHANGED recognizers

\* One round of the loop: the URL of a task that succeeded; no answer, or one
\* that is no JSON, ends the loop; everything else, "Failure" too, goes on.
Query(t) ==
  /\ At(t, "poll") /\ th[t].loops < MaxLoops
  /\ \/ Update(t, [pc |-> "after", code |-> 200, url |-> "speech"])
     \/ Update(t, [pc |-> "after", code |-> 200, url |-> ""])
     \/ Update(t, [loops |-> th[t].loops + 1])
  /\ UNCHANGED recognizers

GiveUp(t) == /\ At(t, "poll") /\ th[t].loops = MaxLoops
             /\ Update(t, [pc |-> "after", code |-> 200, url |-> ""])
             /\ UNCHANGED recognizers

MediaReset == recognizers' = {}

MediaStep(t) == /\ \/ MediaUnauthorized(t)
                   \/ OpenRecognizer(t) \/ DecodeImage(t)
                   \/ GetAccessToken(t) \/ CreateTask(t) \/ Query(t) \/ GiveUp(t)
                /\ UNCHANGED dispatchVars

-----------------------------------------------------------------------------
\* The recognizer gets the image the client had, whether its base64 is padded,
\* unpadded or in the URL alphabet, and text that is no base64 gets it nothing
\* (base64_decode).
ImageAsSent ==
  \A t \in Threads : "image" \in DOMAIN th[t] => th[t].image = th[t].req.bytes
=============================================================================
