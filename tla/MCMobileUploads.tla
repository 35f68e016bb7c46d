--------------------------- MODULE MCMobileUploads ---------------------------
(***************************************************************************)
(* One code, of an opening or of a validation, two phones, and two videos  *)
(* for it: the same video sent again, or one from each phone.              *)
(***************************************************************************)
EXTENDS MobileUploads, TLC

CONSTANTS s1, v1, v2, p1, p2

\* Room for one photo and for one video.
MCOpeningLimit == [m \in MOBILE_UPLOAD_MEDIA |-> 1]
MCCodeOf == [f \in Files |-> s1]
MCMediaOf == [f \in Files |-> "video"]

=============================================================================
