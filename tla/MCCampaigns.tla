------------------------------ MODULE MCCampaigns ------------------------------
(***************************************************************************)
(* Small instances of Campaigns: announcements ann, batches bat.           *)
(***************************************************************************)
EXTENDS Campaigns

CONSTANTS ann, bat, r1, r2

===============================================================================
