----------------------------- MODULE MCFrontend -----------------------------
(***************************************************************************)
(* The parts of the shop's clients that keep state: the cart on the        *)
(* screen, the session of a browser's tabs and that of the phone, the      *)
(* assistant of the product page and the scores it shows, and a message on *)
(* its way to or from the services.  They share no variable, so a run of   *)
(* one while the others rest is as good as all their interleavings, and    *)
(* far smaller: moving says which one it is.                               *)
(***************************************************************************)
EXTENDS Storefront, TLC

CONSTANTS k1, k2,
          Tabs, App, PhoneRequests, MaxStarts,
          Products, MaxQuestions,
          Given, MaxReviews,
          MaxEntries

VARIABLES
  moving,
  stored, own, missing, known, starts, disturbed,
  product, subject, typed, asked, follows, display, of,
  counts,
  fields, wide, sender, body, wire, at, message, phase

OneOfEach == k1 :> {"add"} @@ k2 :> {"empty", "order"}

Browser == INSTANCE Session WITH Clients <- Tabs, OnPhone <- FALSE, Requests <- {}
Phone == INSTANCE Session WITH Clients <- {App}, OnPhone <- TRUE, Requests <- PhoneRequests
Page == INSTANCE ProductPage
Reviews == INSTANCE ReviewScores
Proto == INSTANCE DemoProto
Wire == INSTANCE Codec WITH Schema <- Proto!DemoSchema, Methods <- Proto!FrontendMethods

ASSUME ProtocolAssumption == Wire!SchemaOK

session == <<stored, own, missing, known, starts, disturbed>>
page == <<product, subject, typed, asked, follows, display, of>>
traffic == <<fields, wide, sender, body, wire, at, message, phase>>
frontend == <<moving, vars, session, page, counts, traffic>>

\* The message of a part that rests.
NoTraffic ==
  /\ fields = <<>> /\ wide = {} /\ sender = "peer" /\ body = <<>> /\ wire = <<>>
  /\ at = 1 /\ message = <<>> /\ phase = "writing"

\* Of a part that rests, one initial state is enough.
FrontendInit ==
  /\ moving \in {"cart", "browser", "phone", "page", "reviews", "traffic"}
  /\ Init /\ Page!Init /\ Reviews!Init
  /\ IF moving = "browser" THEN Browser!Init ELSE Phone!Init
  /\ IF moving = "traffic" THEN Wire!Init ELSE NoTraffic
  /\ moving # "cart" => ~cart.items /\ selected = CHOOSE c \in Currencies : TRUE
  /\ moving # "page" => product = CHOOSE p \in Products : TRUE

FrontendNext ==
  /\ UNCHANGED moving
  /\ \/ moving = "cart" /\ Next /\ UNCHANGED <<session, page, counts, traffic>>
     \/ moving = "browser" /\ Browser!Next /\ UNCHANGED <<vars, page, counts, traffic>>
     \/ moving = "phone" /\ Phone!Next /\ UNCHANGED <<vars, page, counts, traffic>>
     \/ moving = "page" /\ Page!Next /\ UNCHANGED <<vars, session, counts, traffic>>
     \/ moving = "reviews" /\ Reviews!Next /\ UNCHANGED <<vars, session, page, traffic>>
     \/ moving = "traffic" /\ Wire!Next /\ UNCHANGED <<vars, session, page, counts>>

FrontendSpec ==
  /\ FrontendInit /\ [][FrontendNext]_frontend
  /\ \A c \in Currencies :
       /\ WF_frontend(moving = "cart" /\ Read(c) /\ UNCHANGED <<moving, session, page, counts, traffic>>)
       /\ WF_frontend(/\ moving = "cart" /\ (Arrive(c) \/ Retry(c) \/ GiveUp(c))
                      /\ UNCHANGED <<moving, session, page, counts, traffic>>)

\* The modules of the parts say what these are.
OneShopper == IF moving = "browser" THEN Browser!OneShopper ELSE Phone!OneShopper
AnswerFits == Page!AnswerFits
PercentsAddUp == Reviews!PercentsAddUp
DecodeIsExact == Wire!DecodeIsExact
RequestArrives == Wire!RequestArrives
=============================================================================
