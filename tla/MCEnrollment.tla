---------------------------- MODULE MCEnrollment ----------------------------
EXTENDS Enrollment, TLC

\* The calls of Enroll differ only by their name.
EnrollmentSymmetry == Permutations(Enrollments)
=============================================================================
