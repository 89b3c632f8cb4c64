------------------------------ MODULE MCUploads ------------------------------
EXTENDS Uploads
CONSTANTS m1, m2, a1, a2
=============================================================================
